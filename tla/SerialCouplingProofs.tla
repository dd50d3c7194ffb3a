-------------------------- MODULE SerialCouplingProofs --------------------------
(***************************************************************************)
(* Theorems of SerialCoupling, for any set of configurations, any time     *)
(* window sizes, limits and measures.  CouplingSchemeProofs holds the      *)
(* inductive invariant and its lemmas; here are the operations that        *)
(* SerialCouplingScheme adds and the conclusions.                          *)
(***************************************************************************)
EXTENDS SerialDataFlow, SampleProofs

--------------------------------------------------------------------------------
(* exchangeInitialData() *)

\* The places a serial scheme goes to inside initialize() find a window size:
\* the configured one, or the one that First is about to send.
LEMMA InitialPlaces ==
  ASSUME IInv, NEW p \in Participants, pc[p] \in {"constructed"} \cup InitializeSteps,
         NEW place \in {"solving", "initSendData", "initReceiveData",
           IF FirstParticipantSetsTimeWindowSize THEN "initReceiveTimeWindowSize"
           ELSE "initReceiveDataForWindowEnd"}
  PROVE  place \in EarlyPlaces /\ SizeIsKnown(place, scheme[p])
<1>1. SizeIsKnown(pc[p], scheme[p])
  BY DEF IInv, Consistent
<1> QED
  BY <1>1 DEF SizeIsKnown, EarlyPlaces, InitializeSteps, ExchangeSteps,
              FirstParticipantSetsTimeWindowSize

\* initialize() goes on to the first exchange that is configured.
LEMMA SerialInitializeStep ==
  ASSUME IInv, config' = config, NEW p \in Participants,
         Initialize(p, InitialExchange(p))
  PROVE  IInv'
<1>1. pc[p] = "constructed"
  BY DEF Initialize
<1>2. InitialExchange(p) \in {"solving", "initSendData", "initReceiveData",
        IF FirstParticipantSetsTimeWindowSize THEN "initReceiveTimeWindowSize"
        ELSE "initReceiveDataForWindowEnd"}
  BY DEF InitialExchange
<1>3. InitialExchange(p) \in EarlyPlaces /\ SizeIsKnown(InitialExchange(p), scheme[p])
  BY <1>1, <1>2, InitialPlaces
<1> QED
  BY <1>3, InitializeStep

\* Sending initial data keeps the invariant.
LEMMA InitSendStep ==
  ASSUME IInv, config' = config, NEW p \in Participants, InitSend(p)
  PROVE  IInv'
<1> DEFINE place == IF p = First THEN "solving"
                    ELSE IF First \in Initializes THEN "initReceiveData"
                    ELSE IF FirstParticipantSetsTimeWindowSize
                    THEN "initReceiveTimeWindowSize" ELSE "initReceiveDataForWindowEnd"
<1>1. InitSendData(p, place) /\ pc[p] = "initSendData"
  BY DEF InitSend, InitSendData, At
<1>2. place \in EarlyPlaces /\ SizeIsKnown(place, scheme[p])
  BY <1>1, InitialPlaces DEF InitializeSteps
<1> HIDE DEF place
<1> QED
  BY <1>1, <1>2, InitSendDataStep

\* Receiving initial data keeps the invariant.
LEMMA InitReceiveStep ==
  ASSUME IInv, config' = config, NEW p \in Participants, InitReceive(p)
  PROVE  IInv'
<1> DEFINE place == IF p = First
                    THEN IF First \in Initializes THEN "initSendData" ELSE "solving"
                    ELSE IF FirstParticipantSetsTimeWindowSize
                    THEN "initReceiveTimeWindowSize" ELSE "initReceiveDataForWindowEnd"
<1>1. PICK c \in {scheme[p], NotifyDataHasBeenReceived(scheme[p])} :
        InitReceiveData(p, c, place)
  BY DEF InitReceive
<1>2. pc[p] = "initReceiveData"
  BY <1>1 DEF InitReceiveData, At
<1>3. place \in EarlyPlaces /\ SizeIsKnown(place, scheme[p])
  BY <1>2, InitialPlaces DEF InitializeSteps
<1> HIDE DEF place
<1> QED
  BY <1>1, <1>3, InitReceiveDataStep

\* The first size that First sends makes the size of the next window known.
LEMMA InitReceiveTimeWindowSizeStep ==
  ASSUME IInv, config' = config, NEW p \in Participants, InitReceiveTimeWindowSize(p)
  PROVE  IInv'
<1> DEFINE size == Head(channel[p]).size
           c == [scheme[p] EXCEPT !.nextTimeWindowSize = size]
           place == "initReceiveDataForWindowEnd"
<1>1. TypeOK /\ scheme[p] \in Schemes /\ solver[p] \in Solvers
  BY Types DEF IInv
<1>2. /\ pc[p] = "initReceiveTimeWindowSize"
      /\ SizeIsKnown(pc[p], scheme[p]) /\ InStep(pc[p], scheme[p], solver[p])
  BY DEF IInv, Consistent, InitReceiveTimeWindowSize, At
<1>3. channel[p] # <<>> /\ size \in Nat
  BY <1>1, HeadType DEF InitReceiveTimeWindowSize
<1>4. channel' \in [Participants -> Seq(Messages)]
  BY <1>1, <1>3, ReceiveType DEF InitReceiveTimeWindowSize
<1>5. scheme' = [scheme EXCEPT ![p] = c] /\ pc' = [pc EXCEPT ![p] = place]
  BY <1>1 DEF InitReceiveTimeWindowSize, Goto, TypeOK
<1> HIDE DEF size
<1>6. /\ c \in Schemes /\ c.time = scheme[p].time /\ c.timeWindows = scheme[p].timeWindows
      /\ c.nextTimeWindowSize = size
      /\ c.requiredActions = scheme[p].requiredActions
      /\ c.fulfilledActions = scheme[p].fulfilledActions
  BY <1>1, <1>3 DEF Schemes
<1> HIDE DEF c
<1>7. SizeIsKnown(place, c) /\ place \in Places /\ place \in EarlyPlaces
  BY <1>2, <1>3, <1>6 DEF SizeIsKnown, Places, EarlyPlaces, InitializeSteps, ExchangeSteps,
                          Undefined, Time!Undefined
<1>8. InStep(pc[p], c, solver[p])
  <2>1. IsCouplingOngoing(c) <=> IsCouplingOngoing(scheme[p])
    BY <1>6, OngoingByTime
  <2>2. MissingActions(c) = MissingActions(scheme[p])
    BY <1>6 DEF MissingActions
  <2> QED
    BY <1>2, <1>6, <2>1, <2>2 DEF InStep
<1>9. Consistent(place, c, solver[p])
  BY <1>2, <1>7, <1>8, EarlyConsistent DEF InitializeSteps
<1>10. /\ written' \in [Participants -> SUBSET Samples]
       /\ received' \in [Participants -> SUBSET Samples]
       /\ solver' = [solver EXCEPT ![p] = solver[p]]
  BY <1>1, Unchanged DEF InitReceiveTimeWindowSize, TypeOK
<1> QED
  BY <1>1, <1>4, <1>5, <1>6, <1>7, <1>9, <1>10, StepOf

\* The end of a window to come is a time, once its size is known.
LEMMA WindowEndType ==
  ASSUME NEW c \in Schemes, c.nextTimeWindowSize # Undefined
  PROVE  WindowEndToCome(c) \in Nat
<1>1. c.time \in Time!TimeHandlers /\ c.nextTimeWindowSize \in Nat
  BY DEF Schemes
<1> QED
  BY <1>1, ProgressByMovesTime, TimeOfType DEF WindowEndToCome

\* The first data of First arrives and the size of the first window is set.
LEMMA InitReceiveDataForWindowEndStep ==
  ASSUME IInv, config' = config, NEW p \in Participants, InitReceiveDataForWindowEnd(p)
  PROVE  IInv'
<1> DEFINE size == scheme[p].nextTimeWindowSize
           c == [scheme[p] EXCEPT !.timeWindowSize = size]
           d == NotifyDataHasBeenReceived(c)
<1>1. TypeOK /\ scheme[p] \in Schemes /\ solver[p] \in Solvers
  BY Types DEF IInv
<1>2. /\ pc[p] = "initReceiveDataForWindowEnd"
      /\ SizeIsKnown(pc[p], scheme[p]) /\ InStep(pc[p], scheme[p], solver[p])
  BY DEF IInv, Consistent, InitReceiveDataForWindowEnd, At
<1>3. size \in Nat /\ size # Undefined
  BY <1>1, <1>2 DEF SizeIsKnown, Schemes
<1>4. /\ scheme' = [scheme EXCEPT ![p] = d]
      /\ received' = [received EXCEPT ![p] = ReceivedAt(p, WindowEndToCome(c))]
      /\ pc' = [pc EXCEPT ![p] = "solving"]
      /\ CanReceiveData(p) /\ ReceiveDataMessage(p)
      /\ UNCHANGED <<written, solver>>
  BY DEF InitReceiveDataForWindowEnd, Goto
<1> HIDE DEF size
<1>5. /\ c \in Schemes /\ c.time = scheme[p].time /\ c.timeWindows = scheme[p].timeWindows
      /\ c.nextTimeWindowSize = scheme[p].nextTimeWindowSize
      /\ c.requiredActions = scheme[p].requiredActions
      /\ c.fulfilledActions = scheme[p].fulfilledActions
  BY <1>1, <1>3 DEF Schemes
<1> HIDE DEF c
<1>6. /\ d \in Schemes /\ d.time = scheme[p].time /\ d.timeWindows = scheme[p].timeWindows
      /\ d.nextTimeWindowSize = scheme[p].nextTimeWindowSize
      /\ d.requiredActions = scheme[p].requiredActions
      /\ d.fulfilledActions = scheme[p].fulfilledActions
  BY <1>5, NotifyMembers
<1> HIDE DEF d
<1>7. Consistent("solving", scheme[p], solver[p])
  <2>1. SizeIsKnown("solving", scheme[p])
    BY <1>2 DEF SizeIsKnown, ExchangeSteps
  <2> QED
    BY <1>2, <2>1, EarlyConsistent DEF InitializeSteps, EarlyPlaces
<1>8. Consistent("solving", d, solver[p])
  BY <1>6, <1>7, SameMembers
<1>9. /\ channel' \in [Participants -> Seq(Messages)]
      /\ received' \in [Participants -> SUBSET Samples]
      /\ written' \in [Participants -> SUBSET Samples]
  <2>1. WindowEndToCome(c) \in Nat
    BY <1>3, <1>5, WindowEndType DEF size
  <2> QED
    BY <1>1, <1>4, <2>1, ReceiveDataTypes DEF TypeOK
<1>10. solver' = [solver EXCEPT ![p] = solver[p]] /\ "solving" \in Places
  BY <1>1, <1>4, Unchanged DEF Places
<1> QED
  BY <1>1, <1>4, <1>6, <1>8, <1>9, <1>10, StepOf

--------------------------------------------------------------------------------
(* exchangeFirstData() and exchangeSecondData() *)

\* With the first-participant method First's step becomes the window's size.
LEMMA SendTimeWindowSizeStep ==
  ASSUME IInv, config' = config, NEW p \in Participants, SendTimeWindowSize(p)
  PROVE  IInv'
<1> DEFINE size == Time!TimeOf(scheme[p].time) - scheme[p].time.start
           c == [scheme[p] EXCEPT !.timeWindowSize = size, !.nextTimeWindowSize = Undefined]
           m == [kind |-> "size", size |-> size]
<1>1. TypeOK /\ scheme[p] \in Schemes
  BY Types DEF IInv
<1>2. /\ pc[p] = "sendTimeWindowSize" /\ pc[p] \in ExchangeSteps
      /\ SizeIsKnown(pc[p], scheme[p])
  BY DEF IInv, Consistent, SendTimeWindowSize, At, ExchangeSteps
<1>3. size \in Nat
  BY <1>1 DEF Schemes, Time!TimeHandlers, Time!TimeOf
<1>4. /\ scheme' = [scheme EXCEPT ![p] = c] /\ pc' = [pc EXCEPT ![p] = "sendData"]
      /\ Send(p, m)
  BY <1>1 DEF SendTimeWindowSize, Goto, TypeOK
<1> HIDE DEF size
<1>5. /\ c \in Schemes /\ c.time = scheme[p].time /\ c.timeWindows = scheme[p].timeWindows
      /\ c.requiredActions = scheme[p].requiredActions
      /\ c.fulfilledActions = scheme[p].fulfilledActions
  BY <1>1, <1>3 DEF Schemes
<1>6. m \in Messages
  BY <1>3 DEF Messages
<1> HIDE DEF c, m
<1>7. channel' \in [Participants -> Seq(Messages)]
  BY <1>1, <1>4, <1>6, SendType
<1>8. "sendData" \in ExchangeSteps /\ SizeIsKnown("sendData", c)
  BY <1>2, <1>5 DEF SizeIsKnown, ExchangeSteps
<1> QED
  BY <1>1, <1>2, <1>4, <1>5, <1>7, <1>8, ExchangeStep DEF SendTimeWindowSize, TypeOK

\* Second ends its advance, or goes on to what it still has to receive.
LEMMA SerialSecondSendsDataStep ==
  ASSUME IInv, config' = config, NEW p \in Participants, SecondSendsData(p)
  PROVE  IInv'
<1> DEFINE c == scheme[p]
           w == Moved(c, written[p])
           r == Moved(c, received[p])
<1>1. TypeOK /\ c \in Schemes /\ pc[p] \in ExchangeSteps
  BY Types DEF IInv, SecondSendsData, At, ExchangeSteps
<1>2. w \in SUBSET Samples /\ r \in SUBSET Samples
  BY <1>1, Types, MovedType
<1>3. channel' \in [Participants -> Seq(Messages)]
  BY <1>1, SendStoredType DEF SecondSendsData
<1>4. CASE WantsData(c)
  <2> DEFINE place == IF FirstParticipantSetsTimeWindowSize THEN "receiveTimeWindowSize"
                      ELSE IF Implicit /\ ~c.hasConverged THEN "receiveData"
                      ELSE "receiveDataForWindowEnd"
  <2>1. /\ written' = [written EXCEPT ![p] = w] /\ received' = [received EXCEPT ![p] = r]
        /\ pc' = [pc EXCEPT ![p] = place] /\ UNCHANGED <<scheme, solver>>
    BY <1>4 DEF SecondSendsData, Goto
  <2>2. place \in ExchangeSteps /\ SizeIsKnown(place, c)
    BY <1>1, InsideExchange DEF SizeIsKnown, ExchangeSteps, FirstParticipantSetsTimeWindowSize
  <2> HIDE DEF place, w, r
  <2>3. scheme' = [scheme EXCEPT ![p] = c]
    BY <1>1, <2>1, Unchanged
  <2>4. /\ written' \in [Participants -> SUBSET Samples]
        /\ received' \in [Participants -> SUBSET Samples]
    BY <1>1, <1>2, <2>1 DEF TypeOK
  <2> QED
    BY <1>1, <1>3, <2>1, <2>2, <2>3, <2>4, ExchangeStep
<1>5. CASE ~WantsData(c)
  <2>1. FinishAdvance(p, c, w, r)
    BY <1>5 DEF SecondSendsData
  <2> HIDE DEF w, r
  <2> QED
    BY <1>1, <1>2, <1>3, <2>1, FinishAdvanceStep
<1> QED
  BY <1>4, <1>5

\* A size that arrives makes the next window's end known, or ends the run.
LEMMA ReceiveTimeWindowSizeStep ==
  ASSUME IInv, config' = config, NEW p \in Participants, ReceiveTimeWindowSize(p)
  PROVE  IInv'
<1> DEFINE dt == Head(channel[p]).size
           c == [scheme[p] EXCEPT !.nextTimeWindowSize = dt]
           iterating == Implicit /\ ~scheme[p].hasConverged
           place == IF iterating THEN "receiveData" ELSE "receiveDataForWindowEnd"
           fails == HasTimeWindowSize(scheme[p]) /\ iterating /\ dt # scheme[p].timeWindowSize
<1>1. TypeOK /\ scheme[p] \in Schemes
  BY Types DEF IInv
<1>2. /\ pc[p] = "receiveTimeWindowSize" /\ pc[p] \in ExchangeSteps
      /\ SizeIsKnown(pc[p], scheme[p])
  BY DEF IInv, Consistent, ReceiveTimeWindowSize, At, ExchangeSteps
<1>3. channel[p] # <<>> /\ dt \in Nat
  BY <1>1, HeadType DEF ReceiveTimeWindowSize
<1>4. channel' \in [Participants -> Seq(Messages)]
  BY <1>1, <1>3, ReceiveType DEF ReceiveTimeWindowSize
<1>5. CASE fails
  <2>1. pc' = [pc EXCEPT ![p] = "failed"] /\ UNCHANGED <<scheme, written, received, solver>>
    BY <1>5 DEF ReceiveTimeWindowSize, Goto
  <2> QED
    BY <1>4, <2>1, ClosingStep DEF Closing
<1>6. CASE ~fails
  <2>1. /\ scheme' = [scheme EXCEPT ![p] = c] /\ pc' = [pc EXCEPT ![p] = place]
        /\ UNCHANGED <<written, received, solver>>
    BY <1>1, <1>6 DEF ReceiveTimeWindowSize, Goto, TypeOK
  <2> HIDE DEF dt
  <2>2. /\ c \in Schemes /\ c.time = scheme[p].time /\ c.timeWindows = scheme[p].timeWindows
        /\ c.nextTimeWindowSize = dt
        /\ c.requiredActions = scheme[p].requiredActions
        /\ c.fulfilledActions = scheme[p].fulfilledActions
    BY <1>1, <1>3 DEF Schemes
  <2> HIDE DEF c
  <2>3. place \in ExchangeSteps /\ SizeIsKnown(place, c)
    BY <1>2, <1>3, <2>2 DEF SizeIsKnown, ExchangeSteps, Undefined, Time!Undefined
  <2> HIDE DEF place
  <2> QED
    BY <1>1, <1>2, <1>4, <2>1, <2>2, <2>3, ExchangeStep DEF TypeOK
<1> QED
  BY <1>5, <1>6

\* First's data arrives and Second's advance ends.
LEMMA SerialSecondReceivesDataStep ==
  ASSUME IInv, config' = config, NEW p \in Participants, SecondReceivesData(p)
  PROVE  IInv'
<1> DEFINE c == NotifyDataHasBeenReceived(scheme[p])
           time == IF pc[p] = "receiveData" THEN Time!TimeOf(c.time) ELSE WindowEndToCome(c)
           r == ReceivedAt(p, time)
<1>1. /\ TypeOK /\ scheme[p] \in Schemes /\ written[p] \in SUBSET Samples
      /\ pc[p] \in {"receiveData", "receiveDataForWindowEnd"} /\ pc[p] \in ExchangeSteps
      /\ SizeIsKnown(pc[p], scheme[p])
  BY Types DEF IInv, Consistent, SecondReceivesData, At, ExchangeSteps
<1>2. FinishAdvance(p, c, written[p], r) /\ CanReceiveData(p) /\ ReceiveDataMessage(p)
  BY DEF SecondReceivesData
<1>3. c \in Schemes /\ c.nextTimeWindowSize = scheme[p].nextTimeWindowSize
  BY <1>1, NotifyMembers
<1>4. time \in Nat
  <2>1. CASE pc[p] = "receiveData"
    BY <1>3, <2>1, TimeOfType DEF Schemes
  <2>2. CASE pc[p] = "receiveDataForWindowEnd"
    BY <1>1, <1>3, <2>2, WindowEndType DEF SizeIsKnown
  <2> QED
    BY <1>1, <2>1, <2>2
<1> HIDE DEF time
<1>5. r \in SUBSET Samples /\ channel' \in [Participants -> Seq(Messages)]
  BY <1>1, <1>2, <1>4, ReceiveDataTypes
<1> HIDE DEF r, c
<1> QED
  BY <1>1, <1>2, <1>5, FinishAdvanceStep DEF c

--------------------------------------------------------------------------------
(* Conclusions *)

\* Every operation of a participant of a serial scheme keeps the invariant.
LEMMA ParticipantStep ==
  ASSUME IInv, NEW p \in Participants, Participant(p)
  PROVE  IInv'
<1>1. config' = config
  BY DEF Participant
<1>2. CASE Initialize(p, InitialExchange(p))
  BY <1>1, <1>2, SerialInitializeStep
<1>3. CASE InitSend(p) \/ InitReceive(p)
  BY <1>1, <1>3, InitSendStep, InitReceiveStep
<1>4. CASE InitReceiveTimeWindowSize(p) \/ InitReceiveDataForWindowEnd(p)
  BY <1>1, <1>4, InitReceiveTimeWindowSizeStep, InitReceiveDataForWindowEndStep
<1>5. CASE Advance(p, ExchangeFirstData(p))
  <2>1. /\ ExchangeFirstData(p) \in FirstPlaces
        /\ ExchangeFirstData(p) = "sendTimeWindowSize" => TimeWindowSize = Undefined
    BY DEF ExchangeFirstData, FirstPlaces, FirstParticipantSetsTimeWindowSize
  <2> QED
    BY <1>1, <1>5, <2>1, AdvanceStep
<1>6. CASE SendTimeWindowSize(p) \/ FirstSendsData(p)
  BY <1>1, <1>6, SendTimeWindowSizeStep, FirstSendsDataStep
<1>7. CASE SendConvergence(p) \/ SecondSendsData(p)
  BY <1>1, <1>7, SendConvergenceStep, SerialSecondSendsDataStep
<1>8. CASE ReceiveConvergence(p) \/ FirstReceivesData(p)
  BY <1>1, <1>8, ReceiveConvergenceStep, FirstReceivesDataStep
<1>9. CASE ReceiveTimeWindowSize(p) \/ SecondReceivesData(p)
  BY <1>1, <1>9, ReceiveTimeWindowSizeStep, SerialSecondReceivesDataStep
<1>10. CASE ApiCall(p)
  BY <1>1, <1>10, ApiCallStep
<1> QED
  BY <1>2, <1>3, <1>4, <1>5, <1>6, <1>7, <1>8, <1>9, <1>10 DEF Participant

\* The invariant from the initial states and the steps alone, without fairness.
LEMMA SerialInductive == Init /\ [][Next]_vars => []IInv
<1>1. Init => IInv
  BY InitConsistent
<1>2. IInv /\ [Next]_vars => IInv'
  <2> SUFFICES ASSUME IInv, [Next]_vars PROVE IInv'
    OBVIOUS
  <2>1. CASE Next
    BY <2>1, ParticipantStep DEF Next
  <2>2. CASE UNCHANGED vars
    BY <2>2, StutterStep
  <2> QED
    BY <2>1, <2>2
<1> QED
  BY <1>1, <1>2, PTL

\* The inductive invariant: after every call and exchange the scheme knows the
\* sizes it needs and its solver and checkpoint are where the actions say.
THEOREM SerialInvariance == Spec => []IInv
  BY SerialInductive, PTL DEF Spec

\* The members of a serial scheme, the samples and the messages keep their
\* types: every time that data is stored at and every size that First sends is
\* a natural number, for windows of any configured or received size.
THEOREM SerialTypeCorrect == Spec => []TypeOK
<1>1. IInv => TypeOK
  BY DEF IInv
<1> QED
  BY <1>1, SerialInvariance, PTL

\* Serial coupling, with every time window size, truncation, number of
\* iterations and verdict: between two API calls the solver is at getTime(), and
\* the checkpoint it keeps is the start of the window it may have to repeat.
THEOREM SerialSolverFollowsScheme == Spec => []SolverFollowsScheme
<1>1. IInv => SolverFollowsScheme
  BY ConsistentFollows
<1> QED
  BY <1>1, SerialInvariance, PTL

\* What the mappings do (initialize, handleDataBeforeAdvance, handleDataAfterAdvance)
\* is done in steps of the coupling scheme.
LEMMA SerialFlowSteps == FlowSpec => Init /\ [][Next]_vars
<1>1. FlowInit => Init
  BY DEF FlowInit
<1>2. [FlowNext]_<<vars, flow>> => [Next]_vars
  <2> SUFFICES ASSUME [FlowNext]_<<vars, flow>> PROVE [Next]_vars
    OBVIOUS
  <2>1. CASE FlowNext
    <3>1. PICK p \in Participants : FlowParticipant(p)
      BY <2>1 DEF FlowNext
    <3>2. Participant(p)
      BY <3>1 DEF FlowParticipant, Participant
    <3> QED
      BY <3>2 DEF Next
  <2>2. CASE UNCHANGED <<vars, flow>>
    BY <2>2
  <2> QED
    BY <2>1, <2>2
<1> QED
  BY <1>1, <1>2, PTL DEF FlowSpec

\* With mapped data too the types are kept, and the solver is where the scheme
\* is and its checkpoint at the start of the window.
THEOREM SerialFlowFollowsScheme == FlowSpec => [](TypeOK /\ SolverFollowsScheme)
<1>1. IInv => TypeOK /\ SolverFollowsScheme
  BY ConsistentFollows DEF IInv
<1> QED
  BY <1>1, SerialFlowSteps, SerialInductive, PTL

--------------------------------------------------------------------------------
(* The rounds of the two participants *)

\* Where Second ends its round, with what First sends for the next one
Receives == {"receiveTimeWindowSize", "receiveData", "receiveDataForWindowEnd"}

SerialPlaces(p) ==
  {"constructed", "solving", "sendData"} \cup Leaving
  \cup (IF p \in Initializes THEN {"initSendData"} ELSE {})
  \cup (IF Other(p) \in Initializes THEN {"initReceiveData"} ELSE {})
  \cup (IF p = First
        THEN {"receiveData"} \cup (IF Implicit THEN {"receiveConvergence"} ELSE {})
             \cup (IF TimeWindowSize = Undefined THEN {"sendTimeWindowSize"} ELSE {})
        ELSE {"initReceiveDataForWindowEnd", "receiveDataForWindowEnd"}
             \cup (IF Implicit THEN {"sendConvergence", "receiveData"} ELSE {})
             \cup (IF TimeWindowSize = Undefined
                   THEN {"initReceiveTimeWindowSize", "receiveTimeWindowSize"} ELSE {}))

\* Where p knows the verdict on its round, until secondExchange() uses it
Told(p) == IF p = First THEN {"receiveData"} ELSE {"sendData"} \cup Receives

\* How much of the stream of messages p has sent, and how much it has read:
\* Second has the data of First before it computes, and receives that of the
\* next round at the end of its own.
SentAt(p, place, c) ==
  LET r == RoundAt(place, c)
      q == Other(p)
  IN  IF place = "constructed" \/ (p = First /\ place = "initReceiveData") THEN Beginning(q)
      ELSE IF place = "initSendData" THEN Data(q, 0)
      ELSE IF place = "sendData" THEN Data(q, r)
      ELSE IF place \in IF p = First THEN {"receiveConvergence", "receiveData"} ELSE Receives
      THEN Header(q, r + 1)
      ELSE Header(q, r)

ReadAt(p, place, c) ==
  LET r == RoundAt(place, c)
  IN  IF place = "constructed" \/ (p = Second /\ place = "initSendData") THEN Beginning(p)
      ELSE IF place = "initReceiveData" THEN Data(p, 0)
      ELSE IF p = First THEN IF place = "receiveData" THEN Data(p, r) ELSE Header(p, r)
      ELSE IF place = "initReceiveDataForWindowEnd" THEN Data(p, r)
      ELSE IF place \in {"receiveData", "receiveDataForWindowEnd"} THEN Data(p, r + 1)
      ELSE IF \/ place \in {"sendConvergence", "sendData", "receiveTimeWindowSize"}
              \/ place = "solving" /\ IsCouplingOngoing(c)
      THEN Header(p, r + 1)
      ELSE Header(p, r)

\* The round whose data Second receives at the end of the one before
Ahead(place, c) == IF place \in Early THEN RoundAt(place, c) ELSE RoundAt(place, c) + 1

\* Second has received the size of the round ahead.
SizeAhead(L, place, c) ==
  place \in {"initReceiveDataForWindowEnd", "receiveData", "receiveDataForWindowEnd"} =>
    LET e == L[Ahead(place, c)] IN c.nextTimeWindowSize = Size(e) /\ e.start < e.end

\* p with its scheme c at a place goes by the ledger.
Joins(L, p, place, c) ==
  /\ place \in SerialPlaces(p)
  /\ Tracks(L, p, place, c)
  /\ Implicit /\ place \in Told(p) =>
       LET e == L[RoundAt(place, c)] IN Judged(e) /\ c.hasConverged = e.converged
  /\ p = Second /\ place \in Receives => WantsData(c)
  /\ p = Second /\ TimeWindowSize = Undefined => SizeAhead(L, place, c)

\* The messages on their way to q, with the other side at there
Delivers(L, q, place, c, there, d, messages) ==
  Carries(L, q, messages, ReadAt(q, place, c), SentAt(Other(q), there, d),
          Bye(q, place, there))

Agree(L) ==
  \A p \in Participants :
    /\ Joins(L, p, pc[p], scheme[p])
    /\ LeavesInOrder(p, pc[p], pc[Other(p)])
    /\ Delivers(L, p, pc[p], scheme[p], pc[Other(p)], scheme[Other(p)], channel[p])

\* The last round of which p has received the data
RoundRead(p, place, c) ==
  IF p = Second /\ (place \in ExchangeSteps \/ (place = "solving" /\ IsCouplingOngoing(c)))
  THEN RoundAt(place, c) ELSE RoundAt(place, c) - 1

\* K has the ends and roots of the rounds of which a participant has received the
\* data, or the other has sent it, from L, and so the iterations that Second goes by.
Keeps(L, K) ==
  /\ \A p \in Participants : \A k \in Nat :
       (\/ k <= RoundRead(p, pc[p], scheme[p])
        \/ HasData(p) /\ Data(p, k) < SentAt(Other(p), pc[Other(p)], scheme[Other(p)])) =>
         Stamp(K, k) = Stamp(L, k) /\ Root(K, k) = Root(L, k)
  /\ \A k \in Nat : k <= RoundRead(Second, pc[Second], scheme[Second]) =>
       K[k].iteration = L[k].iteration

\* K has the rounds that a participant has come to from L.
SameSoFar(L, K) ==
  \A p \in Participants : \A k \in Nat :
    k <= RoundAt(pc[p], scheme[p]) => K[k] = L[k]

SameEnds(L, K) ==
  \A k \in Nat : /\ K[k].start = L[k].start /\ K[k].end = L[k].end
                 /\ K[k].iteration = L[k].iteration

Agreement == IInv /\ (Broken \/ \E L \in Ledgers : Agree(L))

\* The configuration is all that these definitions read of the state.
LEMMA JoinsNext ==
  ASSUME config' = config, NEW L, NEW p, NEW place, NEW c, NEW there, NEW d, NEW s
  PROVE  /\ Joins(L, p, place, c)' <=> Joins(L, p, place, c)
         /\ Delivers(L, p, place, c, there, d, s)' <=> Delivers(L, p, place, c, there, d, s)
         /\ LeavesInOrder(p, place, there)' <=> LeavesInOrder(p, place, there)
<1>1. UNCHANGED <<Initializes, Implicit, MaxTime, MaxTimeWindows, TimeWindowSize>>
  BY DEF Initializes, Implicit, MaxTime, MaxTimeWindows, TimeWindowSize
<1>2. \A x, y : RoundAt(x, y)' = RoundAt(x, y)
  BY KeptNext
<1>3. Tracks(L, p, place, c)' <=> Tracks(L, p, place, c)
  BY <1>2, KeptNext DEF Tracks
<1>4. \A e : Judged(e)' <=> Judged(e)
  BY KeptNext
<1>5. \A x : IsCouplingOngoing(x)' <=> IsCouplingOngoing(x)
  BY <1>1 DEF IsCouplingOngoing, Time!ReachedEnd, Time!UntilEnd, Time!TimeOf, Undefined,
     Time!Undefined
<1>6. WantsData(c)' <=> WantsData(c)
  BY <1>1, <1>5 DEF WantsData
<1>7. SizeAhead(L, place, c)' <=> SizeAhead(L, place, c)
  BY <1>2 DEF SizeAhead, Ahead, Size, Early, InitializeSteps
<1>8. place \in SerialPlaces(p)' <=> place \in SerialPlaces(p)
  BY <1>1 DEF SerialPlaces, Leaving, Other, Undefined, Time!Undefined
<1>9. Joins(L, p, place, c)' <=> Joins(L, p, place, c)
  BY <1>1, <1>2, <1>3, <1>4, <1>6, <1>7, <1>8 DEF Joins, Told, Receives, Undefined, Time!Undefined
<1>10. ASSUME NEW x, NEW y, NEW a
       PROVE  SentAt(x, y, a)' = SentAt(x, y, a) /\ ReadAt(x, y, a)' = ReadAt(x, y, a)
  BY <1>2, <1>5, CarriesNext DEF SentAt, ReadAt, Receives
<1>11. Delivers(L, p, place, c, there, d, s)' <=> Delivers(L, p, place, c, there, d, s)
  BY <1>10, CarriesNext DEF Delivers
<1> QED
  BY <1>9, <1>11, CarriesNext

\* A step of p after which both participants go by a ledger
LEMMA StepAgrees ==
  ASSUME TypeOK, config' = config, NEW p \in Participants, NEW place, NEW c,
         pc' = [pc EXCEPT ![p] = place], scheme' = [scheme EXCEPT ![p] = c],
         NEW M \in Ledgers, Joins(M, p, place, c),
         Joins(M, Other(p), pc[Other(p)], scheme[Other(p)]),
         LeavesInOrder(p, place, pc[Other(p)]), LeavesInOrder(Other(p), pc[Other(p)], place),
         Delivers(M, p, place, c, pc[Other(p)], scheme[Other(p)], channel'[p]),
         Delivers(M, Other(p), pc[Other(p)], scheme[Other(p)], place, c, channel'[Other(p)])
  PROVE  Agree(M)'
<1>1. Other(p) \in Participants /\ Other(p) # p /\ Other(Other(p)) = p
      /\ \A q \in Participants : q = p \/ q = Other(p)
  BY Others DEF TypeOK
<1>2. /\ pc'[p] = place /\ scheme'[p] = c
      /\ pc'[Other(p)] = pc[Other(p)] /\ scheme'[Other(p)] = scheme[Other(p)]
  BY <1>1 DEF TypeOK
<1>3. ASSUME NEW q \in Participants
      PROVE  /\ Joins(M, q, pc'[q], scheme'[q])
             /\ LeavesInOrder(q, pc'[q], pc'[Other(q)])
             /\ Delivers(M, q, pc'[q], scheme'[q], pc'[Other(q)], scheme'[Other(q)], channel'[q])
  BY <1>1, <1>2
<1> SUFFICES ASSUME NEW q \in Participants
             PROVE  /\ Joins(M, q, pc[q], scheme[q])'
                    /\ LeavesInOrder(q, pc[q], pc[Other(q)])'
                    /\ Delivers(M, q, pc[q], scheme[q], pc[Other(q)], scheme[Other(q)],
                                channel[q])'
  BY DEF Agree, Participants
<1> QED
  BY <1>3, JoinsNext

\* What a participant knows, from the agreement
LEMMA AgreeAt ==
  ASSUME TypeOK, NEW L \in Ledgers, Agree(L), NEW p \in Participants
  PROVE  /\ scheme[p] \in Schemes /\ channel[p] \in Seq(Messages) /\ Other(p) \in Participants
         /\ Joins(L, p, pc[p], scheme[p]) /\ Tracks(L, p, pc[p], scheme[p])
         /\ RoundAt(pc[p], scheme[p]) \in Nat \ {0} /\ L[RoundAt(pc[p], scheme[p])] \in Entries
         /\ Proper(L[RoundAt(pc[p], scheme[p])])
         /\ InRound(p, pc[p], scheme[p], L[RoundAt(pc[p], scheme[p])])
         /\ LeavesInOrder(p, pc[p], pc[Other(p)])
         /\ Delivers(L, p, pc[p], scheme[p], pc[Other(p)], scheme[Other(p)], channel[p])
<1>1. /\ Joins(L, p, pc[p], scheme[p])
      /\ LeavesInOrder(p, pc[p], pc[Other(p)])
      /\ Delivers(L, p, pc[p], scheme[p], pc[Other(p)], scheme[Other(p)], channel[p])
  BY DEF Agree
<1>2. Tracks(L, p, pc[p], scheme[p])
  BY <1>1 DEF Joins
<1> QED
  BY <1>1, <1>2, Types DEF Tracks, Kept, Ledgers

\* A step of p in which it neither changes the ledger nor leaves
LEMMA MidStep ==
  ASSUME TypeOK, config' = config, NEW L \in Ledgers, Agree(L), NEW p \in Participants,
         NEW place, NEW c, pc[p] \notin Leaving, place \notin Leaving,
         pc' = [pc EXCEPT ![p] = place], scheme' = [scheme EXCEPT ![p] = c],
         NEW M \in Ledgers, Joins(M, p, place, c),
         Joins(M, Other(p), pc[Other(p)], scheme[Other(p)]),
         NEW n, n = SentAt(Other(p), pc[Other(p)], scheme[Other(p)]),
         Carries(M, p, channel'[p], ReadAt(p, place, c), n, Bye(p, pc[p], pc[Other(p)])),
         NEW m, m = ReadAt(Other(p), pc[Other(p)], scheme[Other(p)]),
         Carries(M, Other(p), channel'[Other(p)], m, SentAt(p, place, c), "nothing")
  PROVE  Agree(M)'
<1>1. Other(p) \in Participants /\ Other(Other(p)) = p
  BY Others DEF TypeOK
<1>2. LeavesInOrder(p, pc[p], pc[Other(p)]) /\ LeavesInOrder(Other(p), pc[Other(p)], pc[p])
  BY <1>1, AgreeAt
<1>3. /\ LeavesInOrder(p, place, pc[Other(p)]) /\ LeavesInOrder(Other(p), pc[Other(p)], place)
      /\ Bye(p, place, pc[Other(p)]) = Bye(p, pc[p], pc[Other(p)])
      /\ Bye(Other(p), pc[Other(p)], place) = "nothing"
  BY <1>2, StaysOn DEF TypeOK
<1>4. /\ Delivers(M, p, place, c, pc[Other(p)], scheme[Other(p)], channel'[p])
      /\ Delivers(M, Other(p), pc[Other(p)], scheme[Other(p)], place, c, channel'[Other(p)])
  BY <1>1, <1>3 DEF Delivers
<1> QED
  BY <1>3, <1>4, StepAgrees

\* The messages to p and to the other, while p has not left
LEMMA Streams ==
  ASSUME TypeOK, NEW L \in Ledgers, Agree(L), NEW p \in Participants, pc[p] \notin Leaving
  PROVE  /\ Carries(L, p, channel[p], ReadAt(p, pc[p], scheme[p]),
                    SentAt(Other(p), pc[Other(p)], scheme[Other(p)]),
                    Bye(p, pc[p], pc[Other(p)]))
         /\ Carries(L, Other(p), channel[Other(p)],
                    ReadAt(Other(p), pc[Other(p)], scheme[Other(p)]),
                    SentAt(p, pc[p], scheme[p]), "nothing")
<1>1. Other(p) \in Participants /\ Other(Other(p)) = p
  BY Others DEF TypeOK
<1>2. LeavesInOrder(p, pc[p], pc[Other(p)]) /\ LeavesInOrder(Other(p), pc[Other(p)], pc[p])
  BY <1>1, AgreeAt
<1>3. Bye(Other(p), pc[Other(p)], pc[p]) = "nothing"
  BY <1>2, StaysOn DEF TypeOK
<1>4. /\ Delivers(L, p, pc[p], scheme[p], pc[Other(p)], scheme[Other(p)], channel[p])
      /\ Delivers(L, Other(p), pc[Other(p)], scheme[Other(p)], pc[p], scheme[p],
                  channel[Other(p)])
  BY <1>1, AgreeAt
<1> QED
  BY <1>1, <1>3, <1>4 DEF Delivers

\* The verdict comes to First where there are iterations, the size to Second
\* where First sets it.
LEMMA SerialHeaders ==
  ASSUME config \in Configurations
  PROVE  /\ HasHeader(First) <=> Implicit
         /\ HasHeader(Second) <=> TimeWindowSize = Undefined
BY ConfigTypes DEF HasHeader

\* How far a participant is in the streams, by the round it is in
LEMMA Bounds ==
  ASSUME config \in Configurations, NEW L, NEW p \in Participants, NEW place, NEW c,
         Joins(L, p, place, c), NEW r, r = RoundAt(place, c), NEW q, q = Other(p)
  PROVE  /\ SentAt(p, place, c) \in Nat /\ ReadAt(p, place, c) \in Nat
         /\ SentAt(p, place, c) <= Header(q, r + 1)
         /\ place \notin ExchangeSteps => SentAt(p, place, c) <= Header(q, r)
         /\ place \notin Early => ReadAt(p, place, c) >= Header(p, r)
         /\ place \in Leaving => SentAt(p, place, c) = Header(q, r) /\ ReadAt(p, place, c) = Header(p, r)
<1>1. r \in Nat /\ r >= 1 /\ 1 \in Nat /\ r + 1 \in Nat /\ 0 \in Nat /\ r + 1 >= 1 /\ 0 + 1 = 1
  BY DEF Joins, Tracks
<1>2. place \in Early => r = 1
  BY DEF Joins, Tracks, InRound
<1>3. \A x : /\ Header(x, r) \in Nat /\ Data(x, r) \in Nat /\ Header(x, r + 1) \in Nat
             /\ Data(x, r + 1) \in Nat /\ Data(x, 0) \in Nat /\ Header(x, 1) \in Nat
             /\ Header(x, r) <= Data(x, r) /\ Data(x, r) <= Header(x, r + 1)
             /\ Header(x, r + 1) <= Data(x, r + 1) /\ Data(x, 0) <= Header(x, 1)
  <2> TAKE x
  <2>1. /\ Header(x, r) \in Nat /\ Data(x, r) \in Nat /\ Header(x, r + 1) \in Nat
        /\ Data(x, 0) \in Nat /\ Header(x, 1) \in Nat /\ Data(x, r + 1) \in Nat
    BY <1>1, Positions
  <2>2. /\ Header(x, r + 1) = Data(x, r) + (IF HasData(x) THEN 1 ELSE 0)
        /\ Data(x, r) = Header(x, r) + (IF HasHeader(x) THEN 1 ELSE 0)
        /\ Data(x, r + 1) = Header(x, r + 1) + (IF HasHeader(x) THEN 1 ELSE 0)
        /\ Header(x, 0 + 1) = Data(x, 0) + (IF HasData(x) THEN 1 ELSE 0)
    BY <1>1, Positions
  <2> QED
    BY <1>1, <2>1, <2>2
<1>4. \A x : Beginning(x) \in Nat /\ Beginning(x) <= Header(x, 1)
  BY <1>3 DEF Beginning
<1>5. /\ {"sendData", "receiveConvergence", "receiveData"} \cup Receives \subseteq ExchangeSteps
      /\ {"constructed", "initSendData", "initReceiveData", "initReceiveDataForWindowEnd"}
           \subseteq Early
  BY DEF ExchangeSteps, Early, InitializeSteps, Receives
<1>6. Early \cap Leaving = {} /\ ExchangeSteps \cap Leaving = {} /\ "solving" \notin Leaving
  BY DEF ExchangeSteps, Early, InitializeSteps, Leaving
<1>7. /\ SentAt(p, place, c) \in Nat
      /\ SentAt(p, place, c) <= Header(q, r + 1)
      /\ place \notin ExchangeSteps => SentAt(p, place, c) <= Header(q, r)
  BY <1>1, <1>2, <1>3, <1>4, <1>5 DEF SentAt
<1>8. ReadAt(p, place, c) \in Nat /\ (place \notin Early => ReadAt(p, place, c) >= Header(p, r))
  BY <1>1, <1>2, <1>3, <1>4, <1>5 DEF ReadAt
<1>9. place \in Leaving => SentAt(p, place, c) = Header(q, r) /\ ReadAt(p, place, c) = Header(p, r)
  <2> SUFFICES ASSUME place \in Leaving
               PROVE  SentAt(p, place, c) = Header(q, r) /\ ReadAt(p, place, c) = Header(p, r)
    OBVIOUS
  <2>1. place \in {"receivePing", "receivePong", "finalized"}
    BY DEF Leaving
  <2> QED
    BY <2>1 DEF SentAt, ReadAt, Receives
<1> QED
  BY <1>7, <1>8, <1>9

--------------------------------------------------------------------------------
(* initialize() goes by the ledger *)

\* Where initialize() goes, it is in the first round.
LEMMA EarlyJoins ==
  ASSUME config \in Configurations, NEW L \in Ledgers, NEW p \in Participants,
         NEW place \in Early, NEW c \in Schemes, Joins(L, p, place, c),
         NEW d \in Schemes, Alike(c, d), NEW to \in SerialPlaces(p) \cap (Early \cup {"solving"}),
         to = "solving" => p = First,
         to = "initReceiveDataForWindowEnd" => TimeWindowSize # Undefined
  PROVE  Joins(L, p, to, d) /\ RoundAt(to, d) = 1 /\ RoundAt(place, c) = 1
<1> DEFINE e == L[RoundAt(place, c)]
<1>1. /\ RoundAt(place, c) = 1 /\ Kept(L, 1) /\ InRound(p, place, c, e) /\ e \in Entries
      /\ e = L[1]
  BY DEF Joins, Tracks, InRound, Ledgers
<1>2. Proper(e) /\ Open(e)
  BY <1>1, FirstIsOpen DEF Kept
<1> HIDE DEF e
<1>3. InRound(p, to, d, e) /\ RoundAt(to, d) = RoundAt(place, c)
  <2>1. CASE to \in Early
    BY <1>1, <2>1, EarlyInRound
  <2>2. CASE to = "solving"
    <3>1. /\ TimeWindowSize # Undefined => c.timeWindowSize = TimeWindowSize
          /\ d.timeWindowSize = c.timeWindowSize /\ p = First
      BY <1>1, <2>2 DEF InRound, Alike
    <3>2. Alike(c, [d EXCEPT !.timeWindowSize = c.timeWindowSize])
      BY DEF Alike, Schemes
    <3>3. IF TimeWindowSize # Undefined THEN d.timeWindowSize = TimeWindowSize
          ELSE IF p = First THEN d.timeWindowSize = c.timeWindowSize
          ELSE d.timeWindowSize = Size(e) /\ e.start < e.end
      BY <3>1
    <3> QED
      BY <1>1, <1>2, <2>2, <3>2, <3>3, InitializedInRound
  <2> QED
    BY <2>1, <2>2
<1>4. to \notin Told(p) /\ to \notin Receives
  BY DEF Told, Early, InitializeSteps, Receives
<1>5. p = Second /\ TimeWindowSize = Undefined => SizeAhead(L, to, d)
  BY DEF SizeAhead, Early, InitializeSteps
<1> QED
  BY <1>1, <1>3, <1>4, <1>5 DEF Joins, Tracks

\* Where initialize() begins its exchanges, nothing has been read or sent.
LEMMA InitializePositions ==
  ASSUME config \in Configurations, NEW p \in Participants,
         NEW place, place = InitialExchange(p), NEW c, RoundAt(place, c) = 1, NEW d
  PROVE  /\ ReadAt(p, place, c) = ReadAt(p, "constructed", d)
         /\ SentAt(p, place, c) = SentAt(p, "constructed", d)
<1> DEFINE q == Other(p)
<1>1. ReadAt(p, "constructed", d) = Beginning(p) /\ SentAt(p, "constructed", d) = Beginning(q)
  BY DEF ReadAt, SentAt
<1>2. /\ Beginning(p) = IF q \in Initializes THEN Data(p, 0) ELSE Header(p, 1)
      /\ Beginning(q) = IF p \in Initializes THEN Data(q, 0) ELSE Header(q, 1)
  BY Others DEF Beginning
<1>3. CASE p = First
  <2>1. q = Second /\ First # Second
    BY <1>3, ConfigTypes DEF Other
  <2>2. place = IF q \in Initializes THEN "initReceiveData"
                ELSE IF p \in Initializes THEN "initSendData" ELSE "solving"
    BY <1>3, <2>1 DEF InitialExchange
  <2> HIDE DEF q
  <2> QED
    BY <1>1, <1>2, <1>3, <2>1, <2>2 DEF ReadAt, SentAt, q
<1>4. CASE p = Second
  <2>1. q = First /\ First # Second
    BY <1>4, ConfigTypes DEF Other
  <2>2. place = IF p \in Initializes THEN "initSendData"
                ELSE IF q \in Initializes THEN "initReceiveData"
                ELSE IF TimeWindowSize = Undefined THEN "initReceiveTimeWindowSize"
                ELSE "initReceiveDataForWindowEnd"
    BY <1>4, <2>1 DEF InitialExchange, FirstParticipantSetsTimeWindowSize
  <2>3. TimeWindowSize # Undefined => Data(p, 1) = Header(p, 1)
    BY <1>4, SerialHeaders DEF Data, Header
  <2> HIDE DEF q
  <2>4. ReadAt(p, place, c) = Beginning(p)
    BY <1>2, <1>4, <2>1, <2>2, <2>3 DEF ReadAt
  <2>5. SentAt(p, place, c) = Beginning(q)
    BY <1>2, <1>4, <2>1, <2>2 DEF SentAt, Receives, q
  <2> QED
    BY <1>1, <2>4, <2>5
<1> QED
  BY <1>3, <1>4 DEF Participants

\* initialize() up to the first exchange that is configured
LEMMA InitializeAgrees ==
  ASSUME IInv, config' = config, NEW L \in Ledgers, Agree(L), NEW p \in Participants,
         Initialize(p, InitialExchange(p)), IInv'
  PROVE  Agree(L)'
<1> DEFINE fulfilled == scheme[p].fulfilledActions \cup scheme[p].requiredActions
           required == scheme[p].requiredActions
                         \cup (IF Implicit THEN {"WriteCheckpoint"} ELSE {})
           c == [scheme[p] EXCEPT !.fulfilledActions = fulfilled, !.requiredActions = required]
           place == InitialExchange(p)
           q == Other(p)
<1>1. TypeOK /\ TypeOK' /\ config \in Configurations /\ pc[p] = "constructed"
  BY DEF IInv, TypeOK, Initialize
<1>2. /\ pc' = [pc EXCEPT ![p] = place] /\ scheme' = [scheme EXCEPT ![p] = c]
      /\ channel' = channel
  BY <1>1 DEF Initialize, Goto, TypeOK
<1>3. /\ scheme[p] \in Schemes /\ Joins(L, p, "constructed", scheme[p])
      /\ q \in Participants /\ q # p /\ Other(q) = p /\ Joins(L, q, pc[q], scheme[q])
  BY <1>1, AgreeAt, Others
<1>4. c \in Schemes
  BY <1>1, <1>2, Types DEF TypeOK
<1>5. Alike(scheme[p], c)
  BY <1>3, AlikeMembers
<1>6. /\ place \in SerialPlaces(p) \cap (Early \cup {"solving"})
      /\ pc[p] \notin Leaving /\ place \notin Leaving
      /\ place = "solving" => p = First
      /\ place = "initReceiveDataForWindowEnd" => TimeWindowSize # Undefined
  <2>1. First # Second /\ p \in {First, Second}
    BY <1>1, ConfigTypes DEF Participants
  <2> QED
    BY <1>1, <2>1 DEF InitialExchange, SerialPlaces, Early, InitializeSteps, Leaving, Other,
       FirstParticipantSetsTimeWindowSize
<1> HIDE DEF c
<1>7. Joins(L, p, place, c) /\ RoundAt(place, c) = 1
  BY <1>1, <1>3, <1>4, <1>5, <1>6, EarlyJoins DEF Early
<1>8. /\ ReadAt(p, place, c) = ReadAt(p, pc[p], scheme[p])
      /\ SentAt(p, place, c) = SentAt(p, pc[p], scheme[p])
  BY <1>1, <1>7, InitializePositions
<1> HIDE DEF place
<1>9. /\ Carries(L, p, channel[p], ReadAt(p, place, c), SentAt(q, pc[q], scheme[q]),
                 Bye(p, pc[p], pc[q]))
      /\ Carries(L, q, channel[q], ReadAt(q, pc[q], scheme[q]), SentAt(p, place, c), "nothing")
  BY <1>1, <1>6, <1>8, Streams
<1> QED
  BY <1>1, <1>2, <1>3, <1>6, <1>7, <1>9, MidStep

\* The initial data goes out before all else.
LEMMA InitSendAgrees ==
  ASSUME IInv, config' = config, NEW L \in Ledgers, Agree(L), NEW p \in Participants, InitSend(p)
  PROVE  Agree(L)'
<1> DEFINE place == IF p = First THEN "solving"
                    ELSE IF First \in Initializes THEN "initReceiveData"
                    ELSE IF FirstParticipantSetsTimeWindowSize THEN "initReceiveTimeWindowSize"
                    ELSE "initReceiveDataForWindowEnd"
           c == scheme[p]
           q == Other(p)
<1>1. /\ TypeOK /\ config \in Configurations /\ pc[p] = "initSendData"
      /\ SendStored(p, written[p]) /\ First # Second /\ p \in {First, Second}
  BY ConfigTypes DEF IInv, TypeOK, InitSend, InitSendData, At, Participants
<1>2. pc' = [pc EXCEPT ![p] = place] /\ scheme' = [scheme EXCEPT ![p] = c]
  BY <1>1, Unchanged DEF InitSend, InitSendData, Goto
<1>3. /\ c \in Schemes /\ Joins(L, p, "initSendData", c) /\ channel[q] \in Seq(Messages)
      /\ q \in Participants /\ q # p /\ Other(q) = p /\ Joins(L, q, pc[q], scheme[q])
  BY <1>1, AgreeAt, Others
<1>4. Alike(c, c)
  BY <1>3, AlikeMembers
<1>5. /\ place \in SerialPlaces(p) \cap (Early \cup {"solving"})
      /\ pc[p] \notin Leaving /\ place \notin Leaving
      /\ place = "solving" => p = First
      /\ place = "initReceiveDataForWindowEnd" => TimeWindowSize # Undefined
  BY <1>1 DEF SerialPlaces, Early, InitializeSteps, Leaving, Other,
     FirstParticipantSetsTimeWindowSize
<1>6. Joins(L, p, place, c) /\ RoundAt(place, c) = 1
  BY <1>1, <1>3, <1>4, <1>5, EarlyJoins DEF Early, InitializeSteps
<1>7. /\ SentAt(p, "initSendData", c) = Data(q, 0) /\ SentAt(p, place, c) = Header(q, 0 + 1)
      /\ ReadAt(p, place, c) = ReadAt(p, "initSendData", c)
  <2>1. RoundAt("initSendData", c) = 1
    BY <1>3 DEF Joins, Tracks, InRound, Early, InitializeSteps
  <2>2. p = Second => q = First
    BY <1>1 DEF Other
  <2>3. TimeWindowSize # Undefined => Data(Second, 1) = Header(Second, 1)
    BY <1>1, SerialHeaders DEF Data, Header
  <2>4. Beginning(p) = IF q \in Initializes THEN Data(p, 0) ELSE Header(p, 1)
    BY DEF Beginning
  <2>5. SentAt(p, "initSendData", c) = Data(q, 0)
    BY DEF SentAt
  <2>6. ReadAt(p, "initSendData", c) = IF p = Second THEN Beginning(p) ELSE Header(p, 1)
    BY <1>1, <2>1 DEF ReadAt
  <2>7. SentAt(p, place, c) = Header(q, 1)
    BY <1>1, <1>6 DEF SentAt, Receives
  <2>8. ReadAt(p, place, c) = ReadAt(p, "initSendData", c)
    BY <1>1, <1>6, <2>2, <2>3, <2>4, <2>6 DEF ReadAt, FirstParticipantSetsTimeWindowSize
  <2> QED
    BY <2>5, <2>7, <2>8
<1> HIDE DEF place
<1>8. /\ channel'[p] = channel[p] /\ channel'[q] \in Seq(Messages)
      /\ IF HasData(q) THEN \E m \in Messages : m.kind = "data" /\ channel'[q] = Append(channel[q], m)
         ELSE channel'[q] = channel[q]
  BY <1>1, <1>3, SendsData
<1> DEFINE n == ReadAt(q, pc[q], scheme[q])
<1>9. /\ Carries(L, p, channel[p], ReadAt(p, place, c), SentAt(q, pc[q], scheme[q]),
                 Bye(p, pc[p], pc[q]))
      /\ Carries(L, q, channel[q], n, Data(q, 0), "nothing")
  BY <1>1, <1>5, <1>7, Streams
<1> HIDE DEF n
<1>10. Carries(L, q, channel'[q], n, SentAt(p, place, c), "nothing")
  BY <1>3, <1>7, <1>8, <1>9, DataIsSent
<1> QED
  BY <1>1, <1>2, <1>3, <1>5, <1>6, <1>8, <1>9, <1>10, MidStep DEF n

\* The initial data that is read is the first of all messages.
LEMMA InitReceiveAgrees ==
  ASSUME IInv, config' = config, NEW L \in Ledgers, Agree(L), NEW p \in Participants, InitReceive(p)
  PROVE  Agree(L)'
<1> DEFINE place == IF p = First THEN IF First \in Initializes THEN "initSendData" ELSE "solving"
                    ELSE IF FirstParticipantSetsTimeWindowSize THEN "initReceiveTimeWindowSize"
                    ELSE "initReceiveDataForWindowEnd"
           c == IF p = First THEN NotifyDataHasBeenReceived(scheme[p]) ELSE scheme[p]
           q == Other(p)
<1>1. /\ TypeOK /\ config \in Configurations /\ pc[p] = "initReceiveData"
      /\ CanReceiveData(p) /\ ReceiveDataMessage(p) /\ First # Second /\ p \in {First, Second}
  BY ConfigTypes DEF IInv, TypeOK, InitReceive, InitReceiveData, At, Participants
<1>2. pc' = [pc EXCEPT ![p] = place] /\ scheme' = [scheme EXCEPT ![p] = c]
  BY <1>1 DEF InitReceive, InitReceiveData, Goto
<1>3. /\ scheme[p] \in Schemes /\ Joins(L, p, "initReceiveData", scheme[p])
      /\ channel[p] \in Seq(Messages)
      /\ q \in Participants /\ q # p /\ Other(q) = p /\ Joins(L, q, pc[q], scheme[q])
  BY <1>1, AgreeAt, Others
<1>4. Alike(scheme[p], c) /\ c \in Schemes
  BY <1>3, AlikeMembers, NotifyMembers
<1>5. /\ place \in SerialPlaces(p) \cap (Early \cup {"solving"})
      /\ pc[p] \notin Leaving /\ place \notin Leaving
      /\ place = "solving" => p = First
      /\ place = "initReceiveDataForWindowEnd" => TimeWindowSize # Undefined
  BY <1>1 DEF SerialPlaces, Early, InitializeSteps, Leaving, Other,
     FirstParticipantSetsTimeWindowSize
<1> HIDE DEF c
<1>6. Joins(L, p, place, c) /\ RoundAt(place, c) = 1 /\ RoundAt("initReceiveData", scheme[p]) = 1
  BY <1>1, <1>3, <1>4, <1>5, EarlyJoins DEF Early, InitializeSteps
<1>7. /\ ReadAt(p, "initReceiveData", scheme[p]) = Data(p, 0)
      /\ ReadAt(p, place, c) = Header(p, 0 + 1)
      /\ SentAt(p, place, c) = SentAt(p, "initReceiveData", scheme[p])
  <2>1. TimeWindowSize # Undefined => Data(Second, 1) = Header(Second, 1)
    BY <1>1, SerialHeaders DEF Data, Header
  <2>2. Beginning(q) = IF p \in Initializes THEN Data(q, 0) ELSE Header(q, 1)
    BY <1>3 DEF Beginning
  <2>3. ReadAt(p, "initReceiveData", scheme[p]) = Data(p, 0)
    BY DEF ReadAt
  <2>4. ReadAt(p, place, c) = Header(p, 1)
    BY <1>1, <1>6, <2>1 DEF ReadAt, FirstParticipantSetsTimeWindowSize
  <2>5. SentAt(p, "initReceiveData", scheme[p]) = IF p = First THEN Beginning(q) ELSE Header(q, 1)
    BY <1>1, <1>6 DEF SentAt, Receives
  <2>6. SentAt(p, place, c) = IF p = First THEN Beginning(q) ELSE Header(q, 1)
    BY <1>1, <1>6, <2>2 DEF SentAt, Receives
  <2> QED
    BY <2>3, <2>4, <2>5, <2>6
<1> HIDE DEF place
<1>8. /\ channel'[q] = channel[q]
      /\ HasData(p) => channel[p] # <<>> /\ Head(channel[p]).kind = "data"
      /\ channel'[p] = IF HasData(p) THEN Tail(channel[p]) ELSE channel[p]
  BY <1>1, ReadsData
<1> DEFINE n == SentAt(q, pc[q], scheme[q])
           bye == Bye(p, pc[p], pc[q])
<1>9. /\ Carries(L, p, channel[p], Data(p, 0), n, bye)
      /\ Carries(L, q, channel[q], ReadAt(q, pc[q], scheme[q]), SentAt(p, place, c), "nothing")
  BY <1>1, <1>5, <1>7, Streams
<1> HIDE DEF n, bye
<1>10. Carries(L, p, channel'[p], ReadAt(p, place, c), n, bye)
  BY <1>3, <1>7, <1>8, <1>9, DataIsRead
<1> QED
  BY <1>1, <1>2, <1>3, <1>5, <1>6, <1>8, <1>9, <1>10, MidStep DEF n, bye

\* The first size that Second receives is that of the first round.
LEMMA InitReceiveTimeWindowSizeAgrees ==
  ASSUME IInv, config' = config, NEW L \in Ledgers, Agree(L), NEW p \in Participants,
         InitReceiveTimeWindowSize(p)
  PROVE  Agree(L)'
<1> DEFINE c == [scheme[p] EXCEPT !.nextTimeWindowSize = Head(channel[p]).size]
           q == Other(p)
           from == "initReceiveTimeWindowSize"
           to == "initReceiveDataForWindowEnd"
<1>1. /\ TypeOK /\ config \in Configurations /\ pc[p] = from
      /\ HasMessage(p, "size") /\ Receive(p) /\ First # Second
  BY ConfigTypes DEF IInv, TypeOK, InitReceiveTimeWindowSize, At
<1>2. pc' = [pc EXCEPT ![p] = to] /\ scheme' = [scheme EXCEPT ![p] = c]
  BY <1>1 DEF InitReceiveTimeWindowSize, Goto, TypeOK
<1>3. /\ scheme[p] \in Schemes /\ Joins(L, p, from, scheme[p]) /\ channel[p] \in Seq(Messages)
      /\ q \in Participants /\ Other(q) = p /\ Joins(L, q, pc[q], scheme[q])
  BY <1>1, AgreeAt, Others
<1>4. p = Second /\ TimeWindowSize = Undefined
  BY <1>1, <1>3 DEF Joins, SerialPlaces, Leaving, Participants
<1>5. /\ {from, to} \subseteq Early /\ {from, to} \cap Leaving = {} /\ to \in SerialPlaces(p)
      /\ to \notin Told(p) /\ to \notin Receives
      /\ {from, to} \cap ExchangeSteps = {} /\ to \in Places \ {"failed"} /\ to # "solving"
  BY <1>1, <1>4 DEF Early, InitializeSteps, Leaving, SerialPlaces, Told, Receives, ExchangeSteps,
     Places, Ends
<1>6. /\ c.time = scheme[p].time /\ c.timeWindows = scheme[p].timeWindows
      /\ c.timeWindowSize = scheme[p].timeWindowSize
      /\ c.iterations = scheme[p].iterations /\ c.totalIterations = scheme[p].totalIterations
      /\ c.nextTimeWindowSize = Head(channel[p]).size
  BY <1>3 DEF Schemes
<1> HIDE DEF c
<1>7. /\ RoundAt(from, scheme[p]) = 1 /\ RoundAt(to, c) = 1
      /\ Kept(L, 1) /\ InRound(p, from, scheme[p], L[1])
  <2>1. RoundAt(from, scheme[p]) = 1
    BY <1>3, <1>5 DEF Joins, Tracks, InRound
  <2> QED
    BY <1>3, <1>5, <1>6, <2>1 DEF Joins, Tracks, RoundAt, WindowAt
<1>8. InRound(p, to, c, L[1])
  <2>1. ~SetsSize(p) /\ WindowAt(to, c) = WindowAt(from, scheme[p])
    BY <1>1, <1>4, <1>5, <1>6 DEF SetsSize, WindowAt
  <2> DEFINE e == L[1]
  <2>2. InRound(p, from, scheme[p], e)
    BY <1>7
  <2> HIDE DEF e, from, to
  <2>3. InRound(p, to, c, e)
    BY <1>5, <1>6, <1>7, <2>1, <2>2 DEF InRound
  <2> QED
    BY <2>3 DEF e
<1>9. /\ ReadAt(p, from, scheme[p]) = Header(p, 1) /\ ReadAt(p, to, c) = Data(p, 1)
      /\ SentAt(p, from, scheme[p]) = SentAt(p, to, c)
  BY <1>1, <1>4, <1>7 DEF ReadAt, SentAt, Receives
<1> DEFINE n == SentAt(q, pc[q], scheme[q])
           bye == Bye(p, pc[p], pc[q])
<1>10. /\ Carries(L, p, channel[p], Header(p, 1), n, bye)
       /\ Carries(L, q, channel[q], ReadAt(q, pc[q], scheme[q]), SentAt(p, to, c), "nothing")
  BY <1>1, <1>5, <1>9, Streams
<1> HIDE DEF n, bye, from, to
<1>11. Tells(p, L[1], Head(channel[p])) /\ Carries(L, p, Tail(channel[p]), Data(p, 1), n, bye)
  <2>1. HasHeader(p) /\ channel[p] # <<>> /\ Head(channel[p]).kind = "size" /\ 1 \in Nat \ {0}
    BY <1>1, <1>4, SerialHeaders DEF HasMessage
  <2> QED
    BY <1>3, <1>10, <2>1, HeaderIsRead
<1>12. SizeAhead(L, to, c)
  BY <1>4, <1>5, <1>6, <1>7, <1>11 DEF SizeAhead, Ahead, Tells
<1>13. Joins(L, p, to, c)
  BY <1>5, <1>7, <1>8, <1>12 DEF Joins, Tracks
<1>14. channel'[q] = channel[q] /\ channel'[p] = Tail(channel[p])
  BY <1>1, Reads1
<1> QED
  BY <1>1, <1>2, <1>3, <1>5, <1>9, <1>10, <1>11, <1>13, <1>14, MidStep DEF n, bye

\* With the data of First for its first window Second computes it.
LEMMA InitReceiveDataForWindowEndAgrees ==
  ASSUME IInv, config' = config, NEW L \in Ledgers, Agree(L), NEW p \in Participants,
         InitReceiveDataForWindowEnd(p), IInv'
  PROVE  Agree(L)'
<1> DEFINE b == [scheme[p] EXCEPT !.timeWindowSize = scheme[p].nextTimeWindowSize]
           c == NotifyDataHasBeenReceived(b)
           q == Other(p)
           from == "initReceiveDataForWindowEnd"
<1>1. /\ TypeOK /\ TypeOK' /\ config \in Configurations /\ pc[p] = from
      /\ CanReceiveData(p) /\ ReceiveDataMessage(p) /\ First # Second
  BY ConfigTypes DEF IInv, TypeOK, InitReceiveDataForWindowEnd, At
<1>2. pc' = [pc EXCEPT ![p] = "solving"] /\ scheme' = [scheme EXCEPT ![p] = c]
  BY <1>1 DEF InitReceiveDataForWindowEnd, Goto, TypeOK
<1>3. /\ scheme[p] \in Schemes /\ Joins(L, p, from, scheme[p]) /\ channel[p] \in Seq(Messages)
      /\ q \in Participants /\ Other(q) = p /\ Joins(L, q, pc[q], scheme[q])
  BY <1>1, AgreeAt, Others
<1>4. p = Second /\ SizeIsKnown(from, scheme[p])
  BY <1>1, <1>3 DEF Joins, SerialPlaces, Leaving, Participants, IInv, Consistent
<1>5. /\ from \in Early /\ from \notin Leaving /\ "solving" \notin Leaving
      /\ "solving" \in SerialPlaces(p) /\ "solving" \notin Told(p) /\ "solving" \notin Receives
      /\ "solving" \notin ExchangeSteps
  BY <1>1, <1>4 DEF Early, InitializeSteps, Leaving, SerialPlaces, Told, Receives, ExchangeSteps
<1>6. /\ c.timeWindowSize = scheme[p].nextTimeWindowSize /\ c.time = scheme[p].time
      /\ c.timeWindows = scheme[p].timeWindows
      /\ c.nextTimeWindowSize = scheme[p].nextTimeWindowSize
      /\ c.iterations = scheme[p].iterations /\ c.totalIterations = scheme[p].totalIterations
      /\ c.hasConverged = scheme[p].hasConverged
  BY <1>3 DEF Schemes, NotifyDataHasBeenReceived
<1>7. c \in Schemes
  BY <1>1, <1>2, Types DEF TypeOK
<1> HIDE DEF b, c
<1>8. /\ RoundAt(from, scheme[p]) = 1 /\ Kept(L, 1) /\ InRound(p, from, scheme[p], L[1])
      /\ L[1] \in Entries /\ Proper(L[1]) /\ Open(L[1])
  <2>1. RoundAt(from, scheme[p]) = 1 /\ Kept(L, 1) /\ InRound(p, from, scheme[p], L[1])
    BY <1>3, <1>5 DEF Joins, Tracks, InRound
  <2> QED
    BY <1>1, <2>1, FirstIsOpen DEF Kept, Ledgers
<1>9. InRound(p, "solving", c, L[1]) /\ RoundAt("solving", c) = 1
  <2>1. Alike(scheme[p], [c EXCEPT !.timeWindowSize = scheme[p].timeWindowSize])
    BY <1>6, <1>7 DEF Alike, Schemes
  <2>2. IF TimeWindowSize # Undefined THEN c.timeWindowSize = TimeWindowSize
        ELSE IF p = First THEN c.timeWindowSize = scheme[p].timeWindowSize
        ELSE c.timeWindowSize = Size(L[1]) /\ L[1].start < L[1].end
    <3>1. TimeWindowSize # Undefined => c.timeWindowSize = TimeWindowSize
      BY <1>4, <1>6 DEF SizeIsKnown
    <3>2. TimeWindowSize = Undefined => SizeAhead(L, from, scheme[p])
      BY <1>3, <1>4 DEF Joins
    <3> QED
      BY <1>1, <1>4, <1>5, <1>6, <1>8, <3>1, <3>2 DEF SizeAhead, Ahead
  <2> DEFINE e == L[1]
  <2>3. /\ InRound(p, from, scheme[p], e) /\ e \in Entries /\ Proper(e) /\ Open(e)
        /\ IF TimeWindowSize # Undefined THEN c.timeWindowSize = TimeWindowSize
           ELSE IF p = First THEN c.timeWindowSize = scheme[p].timeWindowSize
           ELSE c.timeWindowSize = Size(e) /\ e.start < e.end
    BY <1>8, <2>2
  <2> HIDE DEF e, from
  <2>4. InRound(p, "solving", c, e) /\ RoundAt("solving", c) = RoundAt(from, scheme[p])
    BY <1>1, <1>3, <1>5, <1>7, <2>1, <2>3, InitializedInRound
  <2> QED
    BY <1>8, <2>4 DEF e
<1>10. IsCouplingOngoing(c)
  BY <1>1, <1>5, <1>7, <1>8, <1>9, OngoingIsOpen
<1>11. Joins(L, p, "solving", c)
  BY <1>5, <1>8, <1>9 DEF Joins, Tracks, SizeAhead
<1>12. /\ ReadAt(p, from, scheme[p]) = Data(p, 1) /\ ReadAt(p, "solving", c) = Header(p, 1 + 1)
       /\ SentAt(p, from, scheme[p]) = SentAt(p, "solving", c)
  BY <1>1, <1>4, <1>8, <1>9, <1>10 DEF ReadAt, SentAt, Receives
<1>13. /\ channel'[q] = channel[q]
       /\ HasData(p) => channel[p] # <<>> /\ Head(channel[p]).kind = "data"
       /\ channel'[p] = IF HasData(p) THEN Tail(channel[p]) ELSE channel[p]
  BY <1>1, ReadsData
<1> DEFINE n == SentAt(q, pc[q], scheme[q])
           bye == Bye(p, pc[p], pc[q])
<1>14. /\ Carries(L, p, channel[p], Data(p, 1), n, bye)
       /\ Carries(L, q, channel[q], ReadAt(q, pc[q], scheme[q]), SentAt(p, "solving", c), "nothing")
  BY <1>1, <1>5, <1>12, Streams
<1> HIDE DEF n, bye, from
<1>15. Carries(L, p, channel'[p], ReadAt(p, "solving", c), n, bye)
  <2>1. 1 \in Nat
    OBVIOUS
  <2> QED
    BY <1>3, <1>12, <1>13, <1>14, <2>1, DataIsRead
<1> QED
  BY <1>1, <1>2, <1>3, <1>5, <1>11, <1>13, <1>14, <1>15, MidStep DEF n, bye

--------------------------------------------------------------------------------
(* advance() goes by the ledger *)

\* Reading and writing a checkpoint is nothing to the other.
LEMMA CheckpointAgrees ==
  ASSUME IInv, config' = config, NEW L \in Ledgers, Agree(L), NEW p \in Participants,
         RequiresWritingCheckpoint(p) \/ RequiresReadingCheckpoint(p)
  PROVE  Agree(L)'
<1> DEFINE q == Other(p)
<1>1. /\ TypeOK /\ config \in Configurations /\ pc[p] = "solving" /\ "solving" \notin Leaving
      /\ channel' = channel
  BY DEF IInv, TypeOK, RequiresWritingCheckpoint, RequiresReadingCheckpoint, Leaving
<1>2. PICK fulfilled :
        scheme' = [scheme EXCEPT ![p] = [scheme[p] EXCEPT !.fulfilledActions = fulfilled]]
  BY <1>1 DEF RequiresWritingCheckpoint, RequiresReadingCheckpoint, TypeOK
<1> DEFINE c == [scheme[p] EXCEPT !.fulfilledActions = fulfilled]
<1>3. pc' = [pc EXCEPT ![p] = "solving"]
  BY <1>1 DEF RequiresWritingCheckpoint, RequiresReadingCheckpoint, TypeOK
<1>4. /\ scheme[p] \in Schemes /\ Joins(L, p, "solving", scheme[p])
      /\ q \in Participants /\ Other(q) = p /\ Joins(L, q, pc[q], scheme[q])
  BY <1>1, AgreeAt, Others
<1>5. Alike(scheme[p], c)
  BY <1>4, AlikeMembers
<1>6. scheme' = [scheme EXCEPT ![p] = c]
  BY <1>2
<1> HIDE DEF c
<1>7. RoundAt("solving", c) = RoundAt("solving", scheme[p])
  BY <1>4, <1>5, InRoundAlike DEF Joins, Tracks
<1>8. Joins(L, p, "solving", c)
  <2>1. "solving" \notin Told(p) /\ "solving" \notin Receives
    BY DEF Told, Receives
  <2> QED
    BY <1>4, <1>5, <1>7, <2>1, InRoundAlike DEF Joins, Tracks, SizeAhead
<1>9. /\ ReadAt(p, "solving", c) = ReadAt(p, "solving", scheme[p])
      /\ SentAt(p, "solving", c) = SentAt(p, "solving", scheme[p])
  <2>1. IsCouplingOngoing(c) <=> IsCouplingOngoing(scheme[p])
    BY <1>5 DEF Alike, IsCouplingOngoing
  <2> QED
    BY <1>7, <2>1 DEF ReadAt, SentAt
<1>10. /\ Carries(L, p, channel[p], ReadAt(p, "solving", c), SentAt(q, pc[q], scheme[q]),
                  Bye(p, pc[p], pc[q]))
       /\ Carries(L, q, channel[q], ReadAt(q, pc[q], scheme[q]), SentAt(p, "solving", c), "nothing")
  BY <1>1, <1>9, Streams
<1> QED
  BY <1>1, <1>3, <1>4, <1>6, <1>8, <1>10, MidStep

\* The verdicts on their way to First say nothing of the ends of windows.
LEMMA CarriesVerdicts ==
  ASSUME First # Second, NEW L, NEW M, NEW s, NEW n, NEW m, NEW bye,
         Carries(L, First, s, n, m, bye),
         \A k \in Nat : M[k].converged = L[k].converged /\ M[k].iteration = L[k].iteration
  PROVE  Carries(M, First, s, n, m, bye)
<1>1. \A x : \A k \in Nat \ {0} : Tells(First, L[k], x) => Tells(First, M[k], x)
  BY DEF Tells, Judged
<1>2. \A k, x : Fits(L, First, k, x) => Fits(M, First, k, x)
  BY <1>1 DEF Fits
<1> QED
  BY <1>2 DEF Carries

\* Before First sends the size of a window, Second computes one before it, or
\* waits for the first of all.
LEMMA SecondIsBehind ==
  ASSUME TypeOK, NEW L \in Ledgers, Agree(L), TimeWindowSize = Undefined,
         pc[First] = "solving", IsCouplingOngoing(scheme[First]),
         NEW r, r = RoundAt("solving", scheme[First]),
         NEW place, place = pc[Second], NEW d, d = scheme[Second]
  PROVE  /\ RoundAt(place, d) < r \/ (RoundAt(place, d) = r /\ place \in Early)
         /\ place \in {"initReceiveDataForWindowEnd", "receiveData", "receiveDataForWindowEnd"} =>
              Ahead(place, d) < r
<1> DEFINE s == RoundAt(place, d)
<1>1. /\ config \in Configurations /\ First # Second /\ Other(Second) = First
      /\ Other(First) = Second /\ First \in Participants /\ Second \in Participants
      /\ pc[First] \notin Leaving /\ "solving" \notin ExchangeSteps
  BY ConfigTypes DEF TypeOK, Other, Participants, Leaving, ExchangeSteps
<1>2. /\ Joins(L, Second, place, d) /\ Tracks(L, Second, place, d) /\ d \in Schemes
      /\ Tracks(L, First, "solving", scheme[First])
      /\ s \in Nat \ {0} /\ L[s] \in Entries /\ Proper(L[s]) /\ InRound(Second, place, d, L[s])
      /\ r \in Nat \ {0} /\ L[r] \in Entries /\ Proper(L[r])
      /\ InRound(First, "solving", scheme[First], L[r]) /\ scheme[First] \in Schemes
  BY <1>1, AgreeAt
<1>3. Open(L[r])
  BY <1>1, <1>2, OngoingIsOpen
<1>4. HasHeader(Second)
  BY <1>1, SerialHeaders
<1>5. SentAt(First, "solving", scheme[First]) = Header(Second, r)
  BY <1>1 DEF SentAt
<1>6. ReadAt(Second, place, d) <= Header(Second, r) /\ ReadAt(Second, place, d) \in Nat
  <2>1. Carries(L, Second, channel[Second], ReadAt(Second, place, d), Header(Second, r), "nothing")
    BY <1>1, <1>5, Streams
  <2> QED
    BY <2>1 DEF Carries
<1>7. place \notin Early => ReadAt(Second, place, d) >= Header(Second, s)
  BY <1>1, <1>2, Bounds
<1>8. place \in Early => s = 1
  BY <1>2 DEF InRound
<1>9. /\ place \in SerialPlaces(Second) /\ "initReceiveDataForWindowEnd" \in Early
      /\ {"receiveData", "receiveDataForWindowEnd"} \cap Early = {}
  BY <1>2 DEF Joins, Early, InitializeSteps
<1>10. ~Open(L[s]) => r < s
  <2>1. ASSUME ~Open(L[s]) PROVE r <= s
    BY <1>2, <2>1, NobodyIsAhead
  <2> QED
    BY <1>2, <1>3, <2>1
<1> HIDE DEF s
<1>11. \A k \in Nat \ {0} : /\ Header(Second, k) \in Nat /\ Data(Second, k) \in Nat
                            /\ Header(Second, k) < Data(Second, k)
                            /\ Header(Second, k) <= Header(Second, r) => k <= r
                            /\ Data(Second, k) <= Header(Second, r) => k < r
  <2> TAKE k \in Nat \ {0}
  <2>1. /\ Header(Second, k) \in Nat /\ Data(Second, k) \in Nat /\ Header(Second, r) \in Nat
        /\ Data(Second, k) = Header(Second, k) + 1
    BY <1>2, <1>4, Positions
  <2>2. Header(Second, k) <= Header(Second, r) => k <= r
    BY <1>2, <1>4, EarlierRound
  <2>3. k # r \/ Header(Second, k) = Header(Second, r)
    OBVIOUS
  <2> QED
    BY <1>2, <2>1, <2>2, <2>3
<1>12. place \notin Early => Open(L[s]) /\ s <= r
  <2>1. place \notin Early => s <= r
    BY <1>2, <1>6, <1>7, <1>11
  <2> QED
    BY <1>2, <1>10, <2>1
<1>13. /\ place \in Receives \cup {"sendConvergence", "sendData"} =>
            ReadAt(Second, place, d) \in {Header(Second, s + 1), Data(Second, s + 1)}
       /\ place \in {"receiveData", "receiveDataForWindowEnd"} =>
            ReadAt(Second, place, d) = Data(Second, s + 1)
       /\ place = "initReceiveDataForWindowEnd" => ReadAt(Second, place, d) = Data(Second, s)
       /\ place = "solving" /\ IsCouplingOngoing(d) =>
            ReadAt(Second, place, d) = Header(Second, s + 1)
  BY <1>1 DEF ReadAt, Receives, s
<1>14. place \notin Early => s + 1 <= r
  <2>1. CASE place \in Receives \cup {"sendConvergence", "sendData"}
    <3>1. s + 1 \in Nat \ {0} /\ Header(Second, s + 1) \in Nat /\ Data(Second, s + 1) \in Nat
      BY <1>2, <1>11 DEF s
    <3> QED
      BY <1>2, <1>6, <1>11, <1>13, <2>1, <3>1 DEF s
  <2>2. CASE place = "solving"
    <3>1. Open(L[s])
      BY <1>12, <2>2 DEF Early, InitializeSteps
    <3>2. IsCouplingOngoing(d)
      BY <1>1, <1>2, <2>2, <3>1, OngoingIsOpen DEF s
    <3>3. s + 1 \in Nat \ {0}
      BY <1>2 DEF s
    <3> QED
      BY <1>6, <1>11, <1>13, <2>2, <3>2, <3>3
  <2>3. CASE place \in Leaving
    <3>1. ~Open(L[s])
      BY <1>2, <2>3 DEF InRound, s
    <3> QED
      BY <1>12, <3>1
  <2>4. place \in Early \cup Leaving \cup {"solving"}
                  \cup Receives \cup {"sendConvergence", "sendData"}
    BY <1>1, <1>9 DEF SerialPlaces, Early, InitializeSteps, Receives
  <2> QED
    BY <2>1, <2>2, <2>3, <2>4
<1>15. s < r \/ (s = r /\ place \in Early)
  BY <1>2, <1>8, <1>14 DEF s
<1>16. ASSUME place \in {"receiveData", "receiveDataForWindowEnd"} PROVE s + 1 < r
  <2>1. s + 1 \in Nat \ {0}
    BY <1>2 DEF s
  <2> QED
    BY <1>6, <1>11, <1>13, <1>16, <2>1
<1>17. place = "initReceiveDataForWindowEnd" => s < r
  BY <1>2, <1>6, <1>11, <1>13 DEF s
<1> QED
  BY <1>9, <1>15, <1>16, <1>17 DEF Ahead, s

\* Setting the end of First's window changes nothing for Second.
LEMMA EndIsSet ==
  ASSUME TypeOK, NEW L \in Ledgers, Agree(L), SetsSize(First),
         pc[First] = "solving", IsCouplingOngoing(scheme[First]),
         NEW r, r = RoundAt("solving", scheme[First]),
         NEW f \in Entries, Proper(f), f.window = L[r].window, f.start = L[r].start,
         f.iteration = L[r].iteration, f.converged = L[r].converged,
         NEW M, M[r] = f, \A k \in Nat : k # r => M[k] = L[k], Kept(M, r)
  PROVE  Joins(M, Second, pc[Second], scheme[Second])
<1> DEFINE place == pc[Second]
           d == scheme[Second]
           s == RoundAt(place, d)
<1>1. First \in Participants /\ Second \in Participants /\ TimeWindowSize = Undefined
  BY DEF SetsSize, Participants
<1>2. r \in Nat \ {0} /\ Kept(L, r) /\ L[r] \in Entries
  BY <1>1, AgreeAt DEF Tracks
<1>3. /\ Joins(L, Second, place, d) /\ Tracks(L, Second, place, d) /\ s \in Nat \ {0}
  BY <1>1, AgreeAt
<1>4. /\ s < r \/ (s = r /\ place \in Early)
      /\ place \in {"initReceiveDataForWindowEnd", "receiveData", "receiveDataForWindowEnd"} =>
           Ahead(place, d) < r
  BY <1>1, SecondIsBehind
<1> HIDE DEF place, d
<1>5. Tracks(M, Second, place, d)
  <2>1. CASE s < r
    <3>1. \A k \in Nat : k <= s => M[k] = L[k]
      BY <1>2, <1>3, <2>1
    <3> QED
      BY <1>3, <3>1, TracksAlike
  <2>2. CASE s = r /\ place \in Early
    <3>1. InRound(Second, place, d, L[r]) /\ (Open(f) <=> Open(L[r]))
      BY <1>3, <2>2 DEF Tracks, Open
    <3>2. place \notin ExchangeSteps /\ place # "solving"
      BY <2>2 DEF Early, InitializeSteps, ExchangeSteps
    <3>3. InRound(Second, place, d, f)
      <4>1. ~SetsSize(Second)
        BY ConfigTypes DEF SetsSize, TypeOK
      <4> QED
        BY <3>1, <3>2, <4>1 DEF InRound
    <3> QED
      BY <1>3, <2>2, <3>3 DEF Tracks
  <2> QED
    BY <1>4, <2>1, <2>2
<1>6. place \in Told(Second) => M[s] = L[s]
  <2>1. place \in Told(Second) => place \notin Early
    BY ConfigTypes DEF TypeOK, Told, Receives, Early, InitializeSteps
  <2> QED
    BY <1>2, <1>3, <1>4, <2>1
<1>7. SizeAhead(L, place, d) => SizeAhead(M, place, d)
  <2>1. Ahead(place, d) \in Nat
    BY <1>3 DEF Ahead
  <2> QED
    BY <1>2, <1>4, <2>1 DEF SizeAhead
<1>8. Joins(M, Second, place, d)
  BY <1>3, <1>5, <1>6, <1>7 DEF Joins
<1> QED
  BY <1>8 DEF place, d

\* When First sets the end of its round, nobody has or sends data of it yet.
LEMMA EndIsKept ==
  ASSUME TypeOK, NEW L \in Ledgers, Agree(L), SetsSize(First),
         pc[First] = "solving", IsCouplingOngoing(scheme[First]),
         NEW r, r = RoundAt("solving", scheme[First]),
         NEW M, \A k \in Nat : k # r => M[k] = L[k]
  PROVE  Keeps(L, M)
<1> DEFINE place == pc[Second]
           d == scheme[Second]
           s == RoundAt(place, d)
           n == SentAt(Second, place, d)
<1>1. /\ config \in Configurations /\ First # Second /\ Other(Second) = First
      /\ Other(First) = Second /\ First \in Participants /\ Second \in Participants
      /\ TimeWindowSize = Undefined /\ "solving" \notin ExchangeSteps
  BY ConfigTypes DEF TypeOK, Other, Participants, SetsSize, ExchangeSteps
<1>2. /\ r \in Nat \ {0} /\ s \in Nat \ {0} /\ Joins(L, Second, place, d)
  BY <1>1, AgreeAt
<1>3. s < r \/ (s = r /\ place \in Early)
  BY <1>1, SecondIsBehind
<1>4. place \in Early => place \notin ExchangeSteps /\ place # "solving"
  BY DEF Early, InitializeSteps, ExchangeSteps
<1>5. /\ n \in Nat /\ n <= Header(First, s + 1)
      /\ place \notin ExchangeSteps => n <= Header(First, s)
  BY <1>1, <1>2, Bounds
<1>6. \A q : Header(q, r) \in Nat /\ Data(q, r) \in Nat /\ Header(q, r) <= Data(q, r)
  <2> TAKE q
  <2>1. r \in Nat /\ r >= 1
    BY <1>2
  <2> QED
    BY <2>1, Positions
<1>7. SentAt(First, "solving", scheme[First]) = Header(Second, r)
  BY <1>1 DEF SentAt
<1> HIDE DEF place, d, s, n
<1>8. n <= Header(First, r)
  <2>1. CASE s < r
    <3>1. Header(First, s + 1) <= Header(First, r)
      BY <1>2, <2>1, PositionsInOrder
    <3>2. Header(First, s + 1) \in Nat
      <4>1. s + 1 \in Nat /\ s + 1 >= 1
        BY <1>2
      <4> QED
        BY <4>1, Positions
    <3> QED
      BY <1>5, <1>6, <3>1, <3>2
  <2>2. CASE s = r /\ place \in Early
    BY <1>4, <1>5, <2>2
  <2> QED
    BY <1>3, <2>1, <2>2
<1>9. RoundRead(First, "solving", scheme[First]) < r /\ RoundRead(Second, place, d) < r
  BY <1>1, <1>2, <1>3, <1>4 DEF RoundRead, s
<1>10. /\ RoundRead(First, "solving", scheme[First]) \in Int
       /\ RoundRead(Second, place, d) \in Int
  BY <1>1, <1>2 DEF RoundRead, s
<1> SUFFICES ASSUME NEW p \in Participants, NEW k \in Nat,
                    \/ k <= RoundRead(p, pc[p], scheme[p])
                    \/ HasData(p) /\ Data(p, k) < SentAt(Other(p), pc[Other(p)], scheme[Other(p)])
             PROVE  k # r
  BY <1>1 DEF Keeps, Stamp, Root
<1>11. p \in {First, Second}
  BY DEF Participants
<1>12. CASE p = First
  <2>1. k <= RoundRead(First, "solving", scheme[First]) \/ Data(First, k) < n
    BY <1>1, <1>12 DEF n, place, d
  <2> QED
    BY <1>2, <1>5, <1>6, <1>8, <1>9, <1>10, <2>1
<1>13. CASE p = Second
  <2>1. k <= RoundRead(Second, place, d) \/ Data(Second, k) < Header(Second, r)
    BY <1>1, <1>7, <1>13 DEF place, d
  <2> QED
    BY <1>2, <1>6, <1>9, <1>10, <2>1
<1> QED
  BY <1>11, <1>12, <1>13

\* A step of the solver, in the window or to its end, stays in the round.
LEMMA AdvanceAgrees ==
  ASSUME IInv, config' = config, NEW L \in Ledgers, Agree(L), NEW p \in Participants,
         Advance(p, ExchangeFirstData(p))
  PROVE  \E K \in Ledgers : Agree(K)' /\ Keeps(L, K)
<1> DEFINE q == Other(p)
           r == RoundAt("solving", scheme[p])
<1>1. /\ TypeOK /\ config \in Configurations /\ pc[p] = "solving" /\ channel' = channel
      /\ IsCouplingOngoing(scheme[p]) /\ StepBound \in Nat /\ First # Second
      /\ p \in {First, Second}
  BY ConfigTypes, ConfigAssumption DEF IInv, TypeOK, Advance, At, Participants
<1>2. PICK dt \in 1 .. StepBound :
        LET a == AddComputedTime(scheme[p], dt)
        IN  /\ dt <= NextTimeStepMaxSize(scheme[p])
            /\ scheme' = [scheme EXCEPT ![p] = FirstExchange(a)]
            /\ Goto(p, IF ReachedEndOfTimeWindow(a) THEN ExchangeFirstData(p) ELSE "solving")
  BY DEF Advance
<1> DEFINE a == AddComputedTime(scheme[p], dt)
           c == FirstExchange(a)
           place == IF ReachedEndOfTimeWindow(a) THEN ExchangeFirstData(p) ELSE "solving"
           f == EndSet(p, L[r], c)
<1>3. /\ dt \in Nat \ {0} /\ dt <= NextTimeStepMaxSize(scheme[p])
      /\ pc' = [pc EXCEPT ![p] = place] /\ scheme' = [scheme EXCEPT ![p] = c]
  BY <1>1, <1>2 DEF Goto
<1>4. /\ scheme[p] \in Schemes /\ Joins(L, p, "solving", scheme[p])
      /\ r \in Nat \ {0} /\ Kept(L, r)
      /\ L[r] \in Entries /\ Proper(L[r]) /\ InRound(p, "solving", scheme[p], L[r])
      /\ q \in Participants /\ Other(q) = p /\ Joins(L, q, pc[q], scheme[q])
      /\ channel[q] \in Seq(Messages) /\ channel[p] \in Seq(Messages)
  BY <1>1, AgreeAt, Others DEF Tracks
<1>5. /\ SetsSize(p) <=> ExchangeFirstData(p) = "sendTimeWindowSize"
      /\ ExchangeFirstData(p) \in ExchangeSteps
  BY <1>1 DEF ExchangeFirstData, SetsSize, ExchangeSteps, FirstParticipantSetsTimeWindowSize
<1>6. c \in Schemes
  <2>1. a \in Schemes
    BY <1>3, <1>4, AddComputedTimeMembers
  <2> HIDE DEF a
  <2> QED
    BY <2>1, FirstExchangeMembers
<1> HIDE DEF a, c, r, f
<1>7. /\ f \in Entries /\ Proper(f) /\ f.start < f.end
      /\ InRound(p, place, c, f) /\ RoundAt(place, c) = r
  BY <1>1, <1>3, <1>4, <1>5, AdvanceInRound DEF a, c, r, f
<1>8. /\ f.window = L[r].window /\ f.start = L[r].start /\ f.iteration = L[r].iteration
      /\ f.converged = L[r].converged /\ (~SetsSize(p) => f = L[r])
  BY <1>4 DEF EndSet, Entries, f
<1>9. PICK M \in Ledgers : /\ M[r] = f /\ (\A k \in Nat : k # r => M[k] = L[k]) /\ Kept(M, r)
                           /\ ~SetsSize(p) => M = L
  <2> DEFINE K == [L EXCEPT ![r] = f]
  <2>1. K \in Ledgers /\ K[r] = f /\ (\A k \in Nat : k # r => K[k] = L[k]) /\ Kept(K, r)
    BY <1>4, <1>7, <1>8, KeptUpToLast
  <2>2. ~SetsSize(p) => K = L
    BY <1>4, <1>8 DEF Ledgers
  <2> HIDE DEF K
  <2> QED
    BY <2>1, <2>2
<1>10. /\ "solving" \notin Leaving /\ place \notin Leaving /\ place \in SerialPlaces(p)
       /\ Implicit => place \notin Told(p)
       /\ place \notin Receives /\ place \notin Early
  BY <1>1 DEF ExchangeFirstData, Leaving, Told, SerialPlaces, Receives, Early, InitializeSteps,
     FirstParticipantSetsTimeWindowSize
<1>11. Joins(M, p, place, c)
  <2>1. SizeAhead(M, place, c)
    BY <1>10 DEF SizeAhead, Receives, Early, InitializeSteps
  <2> QED
    BY <1>4, <1>7, <1>9, <1>10, <2>1 DEF Joins, Tracks
<1>12. Joins(M, q, pc[q], scheme[q])
  <2>1. CASE SetsSize(p)
    <3>1. p = First /\ q = Second
      BY <2>1 DEF SetsSize, Other
    <3> QED
      BY <1>1, <1>7, <1>8, <1>9, <2>1, <3>1, EndIsSet DEF r
  <2>2. CASE ~SetsSize(p)
    BY <1>4, <1>9, <2>2
  <2> QED
    BY <2>1, <2>2
<1>13. /\ ReadAt(p, place, c) = ReadAt(p, "solving", scheme[p])
       /\ SentAt(p, place, c) = SentAt(p, "solving", scheme[p])
       /\ SentAt(p, place, c) = Header(q, r)
  <2>1. SentAt(p, "solving", scheme[p]) = Header(q, r)
    BY DEF SentAt, Receives, r
  <2>2. CASE p = First
    <3>1. q = Second
      BY <2>2 DEF Other
    <3>2. TimeWindowSize # Undefined => Data(q, r) = Header(q, r)
      BY <1>1, <3>1, SerialHeaders DEF Data, Header
    <3>3. place \in {"solving", "sendTimeWindowSize"}
          \/ (place = "sendData" /\ TimeWindowSize # Undefined)
      BY <2>2 DEF ExchangeFirstData, FirstParticipantSetsTimeWindowSize
    <3> HIDE DEF place
    <3>4. ReadAt(p, place, c) = Header(p, r) /\ ReadAt(p, "solving", scheme[p]) = Header(p, r)
      BY <1>1, <1>7, <2>2, <3>3 DEF ReadAt, r
    <3>5. SentAt(p, place, c) = Header(q, r)
      BY <1>1, <1>7, <2>2, <3>2, <3>3 DEF SentAt
    <3> QED
      BY <2>1, <3>4, <3>5
  <2>3. CASE p = Second
    <3>1. q = First /\ ~SetsSize(p)
      BY <1>1, <2>3 DEF Other, SetsSize
    <3>2. ~Implicit => Data(q, r) = Header(q, r)
      BY <1>1, <3>1, SerialHeaders DEF Data, Header
    <3>3. place \in {"solving", "sendConvergence"} \/ (place = "sendData" /\ ~Implicit)
      BY <1>1, <2>3 DEF ExchangeFirstData
    <3> HIDE DEF place
    <3>4. place = "solving" => IsCouplingOngoing(c)
      <4>1. ASSUME place = "solving" PROVE IsCouplingOngoing(c)
        <5>1. "solving" \notin ExchangeSteps /\ InRound(p, "solving", c, f)
          BY <1>7, <4>1 DEF ExchangeSteps
        <5>2. Open(f)
          <6>1. Open(L[r])
            BY <1>1, <1>4, <5>1, OngoingIsOpen
          <6> QED
            BY <1>8, <3>1, <6>1
        <5> QED
          BY <1>1, <1>6, <1>7, <5>1, <5>2, OngoingIsOpen
      <4> QED
        BY <4>1
    <3>5. ReadAt(p, place, c) = Header(p, r + 1)
      BY <1>1, <1>7, <2>3, <3>3, <3>4 DEF ReadAt
    <3>6. ReadAt(p, "solving", scheme[p]) = Header(p, r + 1)
      BY <1>1, <2>3 DEF ReadAt, r
    <3>7. SentAt(p, place, c) = Header(q, r)
      BY <1>1, <1>7, <2>3, <3>2, <3>3 DEF SentAt, Receives
    <3> QED
      BY <2>1, <3>5, <3>6, <3>7
  <2> QED
    BY <1>1, <2>2, <2>3
<1> HIDE DEF place
<1> DEFINE n == SentAt(q, pc[q], scheme[q])
           bye == Bye(p, pc[p], pc[q])
           m == ReadAt(q, pc[q], scheme[q])
<1>14. /\ Carries(L, p, channel[p], ReadAt(p, place, c), n, bye)
       /\ Carries(L, q, channel[q], m, SentAt(p, place, c), "nothing")
  BY <1>1, <1>10, <1>13, Streams
<1> HIDE DEF n, bye, m
<1>15. /\ Carries(M, p, channel[p], ReadAt(p, place, c), n, bye)
       /\ Carries(M, q, channel[q], m, SentAt(p, place, c), "nothing")
  <2>1. CASE SetsSize(p)
    <3>1. p = First /\ q = Second
      BY <2>1 DEF SetsSize, Other
    <3>2. \A k \in Nat : M[k].converged = L[k].converged /\ M[k].iteration = L[k].iteration
      BY <1>4, <1>8, <1>9
    <3>3. Carries(M, First, channel[First], ReadAt(p, place, c), n, bye)
      BY <1>1, <1>14, <3>1, <3>2, CarriesVerdicts
    <3> DEFINE k == r - 1
    <3>4. k \in Nat /\ k + 1 = r /\ Header(q, r) \in Nat
      BY <1>4, Positions
    <3>5. \A j \in Nat : j <= k => M[j] = L[j]
      BY <1>4, <1>9
    <3>6. SentAt(p, place, c) <= Header(q, k + 1)
      BY <1>13, <3>4
    <3> HIDE DEF k
    <3>7. Carries(M, q, channel[q], m, SentAt(p, place, c), "nothing")
      BY <1>4, <1>14, <3>4, <3>5, <3>6, CarriesUpTo
    <3> QED
      BY <3>1, <3>3, <3>7
  <2>2. CASE ~SetsSize(p)
    BY <1>9, <1>14, <2>2
  <2> QED
    BY <2>1, <2>2
<1>16. Agree(M)'
  BY <1>1, <1>3, <1>4, <1>9, <1>10, <1>11, <1>12, <1>15, MidStep DEF n, bye, m
<1>17. Keeps(L, M)
  <2>1. CASE SetsSize(p)
    <3>1. p = First
      BY <2>1 DEF SetsSize
    <3> QED
      BY <1>1, <1>9, <2>1, <3>1, EndIsKept DEF r
  <2>2. CASE ~SetsSize(p)
    BY <1>9, <2>2 DEF Keeps
  <2> QED
    BY <2>1, <2>2
<1> QED
  BY <1>9, <1>16, <1>17

\* The size that First sends is that of its round.
LEMMA SendTimeWindowSizeAgrees ==
  ASSUME IInv, config' = config, NEW L \in Ledgers, Agree(L), NEW p \in Participants,
         SendTimeWindowSize(p)
  PROVE  Agree(L)'
<1> DEFINE from == "sendTimeWindowSize"
           to == "sendData"
           size == Time!TimeOf(scheme[p].time) - scheme[p].time.start
           c == [scheme[p] EXCEPT !.timeWindowSize = size, !.nextTimeWindowSize = Undefined]
           x == [kind |-> "size", size |-> size]
           q == Other(p)
           r == RoundAt(from, scheme[p])
<1>1. /\ TypeOK /\ config \in Configurations /\ pc[p] = from /\ Send(p, x) /\ First # Second
  BY ConfigTypes DEF IInv, TypeOK, SendTimeWindowSize, At
<1>2. pc' = [pc EXCEPT ![p] = to] /\ scheme' = [scheme EXCEPT ![p] = c]
  BY <1>1 DEF SendTimeWindowSize, Goto, TypeOK
<1>3. /\ scheme[p] \in Schemes /\ Joins(L, p, from, scheme[p]) /\ channel[q] \in Seq(Messages)
      /\ r \in Nat \ {0} /\ InRound(p, from, scheme[p], L[r]) /\ Kept(L, r) /\ L[r] \in Entries
      /\ q \in Participants /\ Other(q) = p /\ Joins(L, q, pc[q], scheme[q])
  BY <1>1, AgreeAt, Others DEF TypeOK, Tracks
<1>4. p = First /\ q = Second /\ TimeWindowSize = Undefined /\ SetsSize(p)
  BY <1>1, <1>3 DEF Joins, SerialPlaces, Leaving, Participants, Other, SetsSize
<1>5. /\ {from, to} \subseteq ExchangeSteps /\ {from, to} \cap Leaving = {}
      /\ to \in SerialPlaces(p) /\ to \notin Told(p) /\ to # from
      /\ to \in Places \ {"failed"} /\ to \notin Early /\ to # "solving"
  BY <1>1, <1>4 DEF ExchangeSteps, Leaving, SerialPlaces, Told, Places, Ends, Early,
     InitializeSteps
<1>6. size = Size(L[r]) /\ L[r].start < L[r].end /\ size \in Nat
  <2>1. /\ L[r].start = scheme[p].time.start /\ Time!TimeOf(scheme[p].time) = L[r].end
        /\ scheme[p].time.progress > 0 /\ scheme[p].time \in Time!TimeHandlers
    BY <1>3, <1>5 DEF InRound, Schemes
  <2> QED
    BY <2>1 DEF Size, Time!TimeOf, Time!TimeHandlers
<1> HIDE DEF size
<1>7. /\ c.time = scheme[p].time /\ c.timeWindows = scheme[p].timeWindows
      /\ c.timeWindowSize = size /\ c.nextTimeWindowSize = Undefined
      /\ c.iterations = scheme[p].iterations /\ c.totalIterations = scheme[p].totalIterations
  BY <1>3 DEF Schemes
<1>8. x \in Messages /\ Tells(q, L[r], x)
  BY <1>4, <1>6 DEF Messages, Tells
<1> HIDE DEF c, x
<1>9. RoundAt(to, c) = r /\ InRound(p, to, c, L[r])
  <2>1. WindowAt(to, c) = WindowAt(from, scheme[p]) /\ RoundAt(to, c) = r
    BY <1>5, <1>7 DEF WindowAt, RoundAt
  <2> DEFINE e == L[r]
  <2>2. InRound(p, from, scheme[p], e) /\ size = Size(e)
    BY <1>3, <1>6
  <2> HIDE DEF e, to
  <2>3. InRound(p, to, c, e)
    BY <1>1, <1>4, <1>5, <1>7, <2>1, <2>2 DEF InRound
  <2> QED
    BY <2>1, <2>3 DEF e
<1>10. Joins(L, p, to, c)
  BY <1>1, <1>3, <1>4, <1>5, <1>9 DEF Joins, Tracks
<1>11. /\ SentAt(p, from, scheme[p]) = Header(q, r) /\ SentAt(p, to, c) = Data(q, r)
       /\ ReadAt(p, from, scheme[p]) = ReadAt(p, to, c)
  BY <1>1, <1>4, <1>9 DEF SentAt, ReadAt
<1> HIDE DEF from, to, r
<1> DEFINE n == ReadAt(q, pc[q], scheme[q])
<1>12. /\ Carries(L, p, channel[p], ReadAt(p, to, c), SentAt(q, pc[q], scheme[q]),
                  Bye(p, pc[p], pc[q]))
       /\ Carries(L, q, channel[q], n, Header(q, r), "nothing")
  BY <1>1, <1>5, <1>11, Streams
<1> HIDE DEF n
<1>13. channel'[p] = channel[p] /\ channel'[q] = Append(channel[q], x)
  BY <1>1, <1>8, Sends1
<1>14. Carries(L, q, channel'[q], n, SentAt(p, to, c), "nothing")
  <2>1. HasHeader(q)
    BY <1>1, <1>4, SerialHeaders
  <2> QED
    BY <1>3, <1>8, <1>11, <1>12, <1>13, <2>1, HeaderIsSent
<1> QED
  BY <1>1, <1>2, <1>3, <1>5, <1>10, <1>12, <1>13, <1>14, MidStep DEF n

\* First's data goes out in its place of the stream.
LEMMA FirstSendsDataAgrees ==
  ASSUME IInv, config' = config, NEW L \in Ledgers, Agree(L), NEW p \in Participants,
         FirstSendsData(p)
  PROVE  Agree(L)'
<1> DEFINE place == IF Implicit THEN "receiveConvergence" ELSE "receiveData"
           c == scheme[p]
           q == Other(p)
           r == RoundAt("sendData", c)
<1>1. /\ TypeOK /\ config \in Configurations /\ pc[p] = "sendData" /\ p = First
      /\ SendStored(p, written[p]) /\ First # Second
  BY ConfigTypes DEF IInv, TypeOK, FirstSendsData, At
<1>2. pc' = [pc EXCEPT ![p] = place] /\ scheme' = [scheme EXCEPT ![p] = c]
  BY <1>1, Unchanged DEF FirstSendsData, Goto
<1>3. /\ c \in Schemes /\ Joins(L, p, "sendData", c) /\ channel[q] \in Seq(Messages)
      /\ r \in Nat /\ InRound(p, "sendData", c, L[r])
      /\ q \in Participants /\ Other(q) = p /\ Joins(L, q, pc[q], scheme[q])
  BY <1>1, AgreeAt, Others DEF TypeOK
<1>4. /\ "sendData" \notin Leaving /\ place \notin Leaving /\ place \in SerialPlaces(p)
      /\ {"sendData", place} \subseteq ExchangeSteps /\ place # "sendTimeWindowSize"
  BY <1>1 DEF Leaving, SerialPlaces, ExchangeSteps
<1>5. InRound(p, place, c, L[r]) /\ RoundAt(place, c) = r
  BY <1>3, <1>4, ExchangeInRound
<1>6. Joins(L, p, place, c)
  BY <1>1, <1>3, <1>4, <1>5 DEF Joins, Tracks, Told
<1>7. /\ SentAt(p, "sendData", c) = Data(q, r) /\ SentAt(p, place, c) = Header(q, r + 1)
      /\ ReadAt(p, "sendData", c) = Header(p, r)
  BY <1>1, <1>5 DEF SentAt, ReadAt
<1>8. ReadAt(p, place, c) = Header(p, r)
  <2>1. ~Implicit => Data(p, r) = Header(p, r)
    BY <1>1, SerialHeaders DEF Data, Header
  <2> QED
    BY <1>1, <1>5, <2>1 DEF ReadAt
<1> HIDE DEF place, r
<1>9. /\ channel'[p] = channel[p]
      /\ IF HasData(q) THEN \E m \in Messages : m.kind = "data" /\ channel'[q] = Append(channel[q], m)
         ELSE channel'[q] = channel[q]
      /\ channel'[q] \in Seq(Messages)
  BY <1>1, <1>3, SendsData
<1> DEFINE n == ReadAt(q, pc[q], scheme[q])
<1>10. /\ Carries(L, p, channel[p], ReadAt(p, place, c), SentAt(q, pc[q], scheme[q]),
                  Bye(p, pc[p], pc[q]))
       /\ Carries(L, q, channel[q], n, Data(q, r), "nothing")
  BY <1>1, <1>4, <1>7, <1>8, Streams
<1> HIDE DEF n
<1>11. Carries(L, q, channel'[q], n, SentAt(p, place, c), "nothing")
  BY <1>3, <1>7, <1>9, <1>10, DataIsSent
<1> QED
  BY <1>1, <1>2, <1>3, <1>4, <1>6, <1>9, <1>10, <1>11, MidStep DEF n

\* The sizes on their way to Second say nothing of the verdicts.
LEMMA CarriesSizes ==
  ASSUME NEW L, NEW M, NEW s, NEW n, NEW m, NEW bye, Carries(L, Second, s, n, m, bye),
         \A k \in Nat : M[k].start = L[k].start /\ M[k].end = L[k].end
  PROVE  Carries(M, Second, s, n, m, bye)
<1>1. \A x : \A k \in Nat \ {0} : Tells(Second, L[k], x) => Tells(Second, M[k], x)
  BY DEF Tells, Size
<1>2. \A k, x : Fits(L, Second, k, x) => Fits(M, Second, k, x)
  BY <1>1 DEF Fits
<1> QED
  BY <1>2 DEF Carries

\* While Second measures, First is in the same round and waits for the verdict.
LEMMA FirstAwaitsVerdict ==
  ASSUME TypeOK, NEW L \in Ledgers, Agree(L), pc[Second] = "sendConvergence"
  PROVE  /\ Implicit /\ pc[First] = "receiveConvergence" /\ channel[First] = <<>>
         /\ RoundAt(pc[First], scheme[First]) = RoundAt(pc[Second], scheme[Second])
<1> DEFINE r == RoundAt(pc[Second], scheme[Second])
           s == RoundAt(pc[First], scheme[First])
<1>1. /\ config \in Configurations /\ First # Second /\ Other(Second) = First
      /\ Other(First) = Second /\ First \in Participants /\ Second \in Participants
      /\ pc[Second] \notin Leaving
  BY ConfigTypes DEF TypeOK, Other, Participants, Leaving
<1>2. Joins(L, Second, pc[Second], scheme[Second]) /\ Joins(L, First, pc[First], scheme[First])
  BY <1>1 DEF Agree
<1>3. r \in Nat \ {0} /\ s \in Nat \ {0}
  BY <1>2 DEF Joins, Tracks
<1>4. Implicit
  BY <1>1, <1>2 DEF Joins, SerialPlaces, Leaving
<1>5. HasData(First) /\ HasData(Second) /\ HasHeader(First)
  BY <1>1, <1>4, ConfigTypes DEF HasData, HasHeader
<1>6. /\ SentAt(Second, pc[Second], scheme[Second]) = Header(First, r)
      /\ ReadAt(Second, pc[Second], scheme[Second]) = Header(Second, r + 1)
  BY <1>1 DEF SentAt, ReadAt, Receives
<1>7. /\ ReadAt(First, pc[First], scheme[First]) <= Header(First, r)
      /\ Header(Second, r + 1) <= SentAt(First, pc[First], scheme[First])
      /\ Len(channel[First]) = Header(First, r) - ReadAt(First, pc[First], scheme[First])
  <2>1. Carries(L, Second, channel[Second], Header(Second, r + 1),
                SentAt(First, pc[First], scheme[First]), Bye(Second, pc[Second], pc[First]))
    BY <1>1, <1>6, Streams
  <2>2. Carries(L, First, channel[First], ReadAt(First, pc[First], scheme[First]),
                Header(First, r), "nothing")
    BY <1>1, <1>6, Streams
  <2> QED
    BY <2>1, <2>2 DEF Carries
<1>8. /\ SentAt(First, pc[First], scheme[First]) <= Header(Second, s + 1)
      /\ pc[First] \notin ExchangeSteps =>
           SentAt(First, pc[First], scheme[First]) <= Header(Second, s)
      /\ pc[First] \notin Early => ReadAt(First, pc[First], scheme[First]) >= Header(First, s)
      /\ SentAt(First, pc[First], scheme[First]) \in Nat
      /\ ReadAt(First, pc[First], scheme[First]) \in Nat
  BY <1>1, <1>2, Bounds
<1>9. pc[First] \in Early => s = 1 /\ pc[First] \notin ExchangeSteps
  BY <1>2 DEF Joins, Tracks, InRound, Early, InitializeSteps, ExchangeSteps
<1> HIDE DEF r, s
<1>10. r = s /\ pc[First] \in ExchangeSteps
  <2>1. /\ Header(Second, r + 1) \in Nat /\ Header(Second, s + 1) \in Nat
        /\ Header(Second, s) \in Nat /\ Header(First, r) \in Nat /\ Header(First, s) \in Nat
    BY <1>3, Positions
  <2>2. r + 1 <= s + 1
    BY <1>3, <1>5, <1>7, <1>8, <2>1, EarlierRound
  <2>3. pc[First] \notin ExchangeSteps => r + 1 <= s
    BY <1>3, <1>5, <1>7, <1>8, <2>1, EarlierRound
  <2>4. pc[First] \notin Early => s <= r
    BY <1>3, <1>5, <1>7, <1>8, <2>1, EarlierRound
  <2> QED
    BY <1>3, <1>9, <2>2, <2>3, <2>4
<1>11. pc[First] \in {"sendTimeWindowSize", "sendData", "receiveData", "receiveConvergence"}
  BY <1>1, <1>2, <1>10 DEF Joins, SerialPlaces, ExchangeSteps, Leaving
<1>12. /\ Data(Second, r) < Header(Second, r + 1) /\ Header(First, r) < Data(First, r)
       /\ Header(First, r) \in Nat
  <2>1. /\ Header(Second, r + 1) = Data(Second, r) + 1 /\ Data(First, r) = Header(First, r) + 1
        /\ Data(Second, r) \in Nat /\ Header(First, r) \in Nat
    BY <1>3, <1>5, Positions
  <2> QED
    BY <2>1
<1>13. /\ pc[First] = "sendData" => SentAt(First, pc[First], scheme[First]) = Data(Second, s)
       /\ pc[First] = "sendTimeWindowSize" =>
            SentAt(First, pc[First], scheme[First]) = Header(Second, s)
       /\ pc[First] = "receiveData" => ReadAt(First, pc[First], scheme[First]) = Data(First, s)
       /\ pc[First] = "receiveConvergence" =>
            ReadAt(First, pc[First], scheme[First]) = Header(First, s)
  BY <1>1 DEF SentAt, ReadAt, s
<1>14. pc[First] # "sendTimeWindowSize" /\ pc[First] # "sendData" /\ pc[First] # "receiveData"
  <2>1. /\ Data(Second, r) \in Nat /\ Header(Second, r + 1) \in Nat /\ Data(First, r) \in Nat
        /\ Header(Second, r) \in Nat /\ Header(Second, r) <= Data(Second, r)
    BY <1>3, Positions
  <2> QED
    BY <1>7, <1>10, <1>12, <1>13, <2>1
<1>15. pc[First] = "receiveConvergence" /\ Len(channel[First]) = 0
  BY <1>7, <1>10, <1>11, <1>12, <1>13, <1>14
<1>16. channel[First] = <<>>
  BY <1>1, <1>15 DEF TypeOK
<1> QED
  BY <1>4, <1>10, <1>15, <1>16 DEF r, s

\* The verdict is written into the ledger when Second sends it; if a strict
\* measure ends the coupling instead, First waits with nothing to read.
LEMMA SendConvergenceAgrees ==
  ASSUME IInv, config' = config, NEW L \in Ledgers, Agree(L), NEW p \in Participants,
         SendConvergence(p), IInv'
  PROVE  Broken' \/ (pc'[p] # "failed" /\ \E K \in Ledgers : Agree(K)' /\ SameEnds(L, K))
<1> DEFINE r == RoundAt("sendConvergence", scheme[p])
<1>1. /\ TypeOK /\ TypeOK' /\ config \in Configurations /\ pc[p] = "sendConvergence"
      /\ First # Second
  BY ConfigTypes DEF IInv, TypeOK, SendConvergence, At
<1>2. /\ scheme[p] \in Schemes /\ Joins(L, p, "sendConvergence", scheme[p])
      /\ r \in Nat \ {0} /\ InRound(p, "sendConvergence", scheme[p], L[r])
      /\ L[r] \in Entries /\ Proper(L[r]) /\ Kept(L, r)
      /\ channel[p] \in Seq(Messages) /\ channel[First] \in Seq(Messages)
  BY <1>1, AgreeAt DEF TypeOK, Tracks, Participants
<1>3. p = Second /\ Implicit /\ p # First
  BY <1>1, <1>2 DEF Joins, SerialPlaces, Leaving, Participants
<1>4. Other(p) = First /\ Other(First) = p /\ First \in Participants
  BY <1>1, <1>3 DEF Other, Participants
<1>5. /\ pc[First] = "receiveConvergence" /\ channel[First] = <<>>
      /\ RoundAt(pc[First], scheme[First]) = r /\ Joins(L, First, pc[First], scheme[First])
  BY <1>1, <1>3, <1>4, FirstAwaitsVerdict DEF Agree
<1>6. PICK converged \in SUBSET Measuring :
        LET c == DoImplicitStep(scheme[p], converged)
        IN  IF StrictMeasureFails(scheme[p], converged)
            THEN Goto(p, "failed") /\ UNCHANGED <<scheme, channel>>
            ELSE /\ Goto(p, "sendData")
                 /\ scheme' = [scheme EXCEPT ![p] = c]
                 /\ Send(p, [kind |-> "convergence", hasConverged |-> c.hasConverged])
  BY DEF SendConvergence
<1>7. CASE StrictMeasureFails(scheme[p], converged)
  <2>1. pc'[Second] = "failed" /\ pc'[First] = "receiveConvergence" /\ channel'[First] = <<>>
    BY <1>1, <1>3, <1>4, <1>5, <1>6, <1>7 DEF Goto, TypeOK
  <2>2. Implicit'
    BY <1>3 DEF Implicit
  <2> QED
    BY <2>1, <2>2 DEF Broken
<1>8. CASE ~StrictMeasureFails(scheme[p], converged)
  <2> DEFINE c == DoImplicitStep(scheme[p], converged)
             m == [kind |-> "convergence", hasConverged |-> c.hasConverged]
             f == [L[r] EXCEPT !.converged = c.hasConverged]
  <2>0. c = DoImplicitStep(scheme[p], converged)
    OBVIOUS
  <2> HIDE DEF c
  <2>1. /\ c \in Schemes /\ c.time = scheme[p].time /\ c.timeWindows = scheme[p].timeWindows
        /\ c.timeWindowSize = scheme[p].timeWindowSize
        /\ c.nextTimeWindowSize = scheme[p].nextTimeWindowSize
        /\ c.iterations = scheme[p].iterations /\ c.totalIterations = scheme[p].totalIterations
    <3>1. scheme[p] \in Schemes
      BY <1>2
    <3> QED
      BY <2>0, <3>1, DoImplicitStepMembers
  <2>2. /\ f \in Entries /\ Proper(f) /\ Judged(f) /\ f.converged = c.hasConverged
        /\ f.window = L[r].window /\ f.start = L[r].start /\ f.end = L[r].end
        /\ f.iteration = L[r].iteration
    <3>1. L[r].iteration = scheme[p].iterations
      BY <1>2 DEF InRound
    <3> QED
      BY <1>1, <1>2, <2>0, <3>1, VerdictIsJudged
  <2>3. m \in Messages /\ m.kind = "convergence" /\ m.hasConverged = c.hasConverged
    BY <2>1 DEF Messages, Schemes
  <2>4. /\ pc' = [pc EXCEPT ![p] = "sendData"] /\ scheme' = [scheme EXCEPT ![p] = c]
        /\ Send(p, m)
    BY <1>6, <1>8, <2>0 DEF Goto
  <2> HIDE DEF m, f
  <2>5. PICK M \in Ledgers : M[r] = f /\ (\A k \in Nat : k # r => M[k] = L[k]) /\ Kept(M, r)
    <3> DEFINE K == [L EXCEPT ![r] = f]
    <3>1. K \in Ledgers /\ K[r] = f /\ (\A k \in Nat : k # r => K[k] = L[k]) /\ Kept(K, r)
      BY <1>2, <2>2, KeptUpToLast
    <3> HIDE DEF K
    <3> QED
      BY <3>1
  <2> HIDE DEF r
  <2>6. /\ "sendConvergence" \in ExchangeSteps /\ "sendData" \in ExchangeSteps
        /\ "sendData" \notin Leaving /\ "sendConvergence" \notin Leaving
        /\ "sendData" \in SerialPlaces(p)
    BY DEF ExchangeSteps, Leaving, SerialPlaces
  <2>7. /\ InRound(p, "sendConvergence", scheme[p], f)
        /\ InRound(First, pc[First], scheme[First], f)
    <3>1. InRound(First, pc[First], scheme[First], L[r])
      BY <1>5 DEF Joins, Tracks
    <3>2. (Open(f) <=> Open(L[r])) /\ Size(f) = Size(L[r])
      BY <2>2 DEF Open, Size
    <3> QED
      BY <1>2, <2>2, <3>1, <3>2 DEF InRound
  <2>8. InRound(p, "sendData", c, f) /\ RoundAt("sendData", c) = r
    BY <2>1, <2>6, <2>7, ExchangeInRound DEF r
  <2>9. Joins(M, p, "sendData", c)
    <3>1. "sendData" \notin Receives
      BY DEF Receives
    <3> QED
      BY <1>2, <2>2, <2>5, <2>6, <2>8, <3>1 DEF Joins, Tracks, SizeAhead
  <2>10. Joins(M, First, pc[First], scheme[First])
    BY <1>1, <1>2, <1>5, <2>5, <2>7 DEF Joins, Tracks, Told
  <2>11. /\ SentAt(p, "sendConvergence", scheme[p]) = Header(First, r)
         /\ SentAt(p, "sendData", c) = Data(First, r)
         /\ ReadAt(p, "sendConvergence", scheme[p]) = Header(p, r + 1)
         /\ ReadAt(p, "sendData", c) = Header(p, r + 1)
    BY <1>1, <1>3, <1>4, <2>8 DEF SentAt, ReadAt, Receives, r
  <2> DEFINE n == SentAt(First, pc[First], scheme[First])
             k == ReadAt(First, pc[First], scheme[First])
             bye == Bye(p, pc[p], pc[First])
  <2>12. /\ Carries(L, p, channel[p], Header(p, r + 1), n, bye)
         /\ Carries(L, First, channel[First], k, Header(First, r), "nothing")
    BY <1>1, <1>4, <2>6, <2>11, Streams
  <2> HIDE DEF n, k, bye
  <2>13. channel'[p] = channel[p] /\ channel'[First] = Append(channel[First], m)
    BY <1>1, <1>4, <2>3, <2>4, Sends1
  <2>14. Carries(M, p, channel'[p], Header(p, r + 1), n, bye)
    <3>1. \A j \in Nat : M[j].start = L[j].start /\ M[j].end = L[j].end
      BY <1>2, <2>2, <2>5
    <3> QED
      BY <1>3, <2>12, <2>13, <3>1, CarriesSizes
  <2>15. Carries(M, First, channel'[First], k, Data(First, r), "nothing")
    <3>1. r - 1 \in Nat /\ (r - 1) + 1 = r /\ Header(First, r) \in Nat
      BY <1>2, Positions
    <3>2. \A j \in Nat : j <= r - 1 => M[j] = L[j]
      BY <1>2, <2>5
    <3>3. Carries(M, First, channel[First], k, Header(First, r), "nothing")
      <4> DEFINE x == r - 1
      <4>1. x \in Nat /\ Header(First, r) <= Header(First, x + 1)
        BY <3>1
      <4> HIDE DEF x
      <4>2. \A j \in Nat : j <= x => M[j] = L[j]
        BY <3>2 DEF x
      <4> QED
        BY <1>2, <2>12, <4>1, <4>2, CarriesUpTo
    <3>4. HasHeader(First) /\ Tells(First, M[r], m)
      BY <1>1, <1>3, <2>2, <2>3, <2>5 DEF HasHeader, Tells
    <3> QED
      BY <1>2, <2>3, <2>13, <3>3, <3>4, HeaderIsSent
  <2>16. Agree(M)'
    BY <1>1, <1>4, <2>4, <2>5, <2>6, <2>9, <2>10, <2>11, <2>14, <2>15, MidStep DEF n, k, bye
  <2>17. \A j \in Nat : /\ M[j].start = L[j].start /\ M[j].end = L[j].end
                        /\ M[j].iteration = L[j].iteration
    BY <1>2, <2>2, <2>5
  <2>18. pc'[p] # "failed"
    BY <1>1, <2>4 DEF TypeOK
  <2> QED
    BY <2>5, <2>16, <2>17, <2>18 DEF SameEnds
<1> QED
  BY <1>7, <1>8

\* The verdict that First reads is the one on its round.
LEMMA ReceiveConvergenceAgrees ==
  ASSUME IInv, config' = config, NEW L \in Ledgers, Agree(L), NEW p \in Participants,
         ReceiveConvergence(p)
  PROVE  Agree(L)'
<1> DEFINE c == [scheme[p] EXCEPT !.hasConverged = Head(channel[p]).hasConverged]
           q == Other(p)
           r == RoundAt("receiveConvergence", scheme[p])
<1>1. /\ TypeOK /\ config \in Configurations /\ pc[p] = "receiveConvergence"
      /\ HasMessage(p, "convergence") /\ Receive(p) /\ First # Second
  BY ConfigTypes DEF IInv, TypeOK, ReceiveConvergence, At
<1>2. pc' = [pc EXCEPT ![p] = "receiveData"] /\ scheme' = [scheme EXCEPT ![p] = c]
  BY <1>1 DEF ReceiveConvergence, Goto, TypeOK
<1>3. /\ scheme[p] \in Schemes /\ Joins(L, p, "receiveConvergence", scheme[p])
      /\ channel[p] \in Seq(Messages) /\ Kept(L, r)
      /\ r \in Nat \ {0} /\ InRound(p, "receiveConvergence", scheme[p], L[r])
      /\ q \in Participants /\ Other(q) = p /\ Joins(L, q, pc[q], scheme[q])
  BY <1>1, AgreeAt, Others DEF TypeOK, Tracks
<1>4. p = First /\ Implicit
  BY <1>1, <1>3 DEF Joins, SerialPlaces, Leaving, Participants
<1>5. channel[p] # <<>> /\ Head(channel[p]).kind = "convergence"
      /\ Head(channel[p]).hasConverged \in BOOLEAN
  BY <1>1, HeadType DEF HasMessage
<1>6. /\ c.time = scheme[p].time /\ c.timeWindows = scheme[p].timeWindows
      /\ c.timeWindowSize = scheme[p].timeWindowSize
      /\ c.nextTimeWindowSize = scheme[p].nextTimeWindowSize
      /\ c.iterations = scheme[p].iterations /\ c.totalIterations = scheme[p].totalIterations
      /\ c.hasConverged = Head(channel[p]).hasConverged
  BY <1>3 DEF Schemes
<1> HIDE DEF c
<1>7. /\ "receiveConvergence" \in ExchangeSteps /\ "receiveData" \in ExchangeSteps
      /\ "receiveConvergence" \notin Leaving /\ "receiveData" \notin Leaving
      /\ "receiveData" \in SerialPlaces(p)
  BY <1>1, <1>4 DEF ExchangeSteps, Leaving, SerialPlaces
<1>8. InRound(p, "receiveData", c, L[r]) /\ RoundAt("receiveData", c) = r
  <2> DEFINE e == L[r]
  <2>1. InRound(p, "receiveConvergence", scheme[p], e)
    BY <1>3
  <2> HIDE DEF e
  <2>2. /\ InRound(p, "receiveData", c, e)
        /\ RoundAt("receiveData", c) = RoundAt("receiveConvergence", scheme[p])
    BY <1>6, <1>7, <2>1, ExchangeInRound
  <2> QED
    BY <2>2 DEF e
<1>9. /\ ReadAt(p, "receiveConvergence", scheme[p]) = Header(p, r)
      /\ ReadAt(p, "receiveData", c) = Data(p, r)
      /\ SentAt(p, "receiveData", c) = SentAt(p, "receiveConvergence", scheme[p])
  BY <1>1, <1>4, <1>8 DEF ReadAt, SentAt
<1> HIDE DEF r
<1> DEFINE n == SentAt(q, pc[q], scheme[q])
           bye == Bye(p, pc[p], pc[q])
<1>10. /\ Carries(L, p, channel[p], Header(p, r), n, bye)
       /\ Carries(L, q, channel[q], ReadAt(q, pc[q], scheme[q]), SentAt(p, "receiveData", c),
                  "nothing")
  BY <1>1, <1>7, <1>9, Streams
<1> HIDE DEF n, bye
<1>11. Tells(p, L[r], Head(channel[p])) /\ Carries(L, p, Tail(channel[p]), Data(p, r), n, bye)
  <2>1. HasHeader(p)
    BY <1>1, <1>4, SerialHeaders
  <2> QED
    BY <1>3, <1>5, <1>10, <2>1, HeaderIsRead
<1>12. Judged(L[r]) /\ c.hasConverged = L[r].converged
  BY <1>1, <1>4, <1>6, <1>11 DEF Tells
<1>13. Joins(L, p, "receiveData", c)
  BY <1>1, <1>3, <1>4, <1>7, <1>8, <1>12 DEF Joins, Tracks
<1>14. channel'[q] = channel[q] /\ channel'[p] = Tail(channel[p])
  BY <1>1, Reads1
<1> QED
  BY <1>1, <1>2, <1>3, <1>7, <1>9, <1>10, <1>11, <1>13, <1>14, MidStep DEF n, bye

--------------------------------------------------------------------------------
(* secondExchange() goes by the ledger *)

\* In the last exchange of its round Second wants data if the next is open.
LEMMA WantsDataIsOpen ==
  ASSUME config \in Configurations, NEW place \in ExchangeSteps, NEW c \in Schemes,
         NEW e \in Entries, Proper(e), InRound(Second, place, c, e),
         Complete(c) <=> Done(e), NEW f \in Entries, Follows(e, f)
  PROVE  WantsData(c) <=> Open(f)
<1>1. /\ c.timeWindows \in Nat /\ e.window = c.timeWindows - 1 /\ Time!TimeOf(c.time) = e.end
      /\ e.end \in Nat /\ e.start \in Nat /\ Open(e)
  BY DEF InRound, WindowAt, Schemes, Entries
<1>2. MaxTime \in (Nat \ {0}) \cup {-1} /\ Undefined = -1
  BY ConfigTypes
<1>3. CASE Done(e)
  <2>1. f.window = c.timeWindows /\ f.start = e.end
    BY <1>1, <1>3 DEF Follows
  <2>2. Time!ReachedEnd(c.time) <=> MaxTime # Undefined /\ MaxTime = e.end
    BY <1>1, <1>2 DEF Time!ReachedEnd, Time!UntilEnd, Undefined
  <2>3. MaxTime # Undefined => e.end <= MaxTime
    BY DEF Proper
  <2>4. IsCouplingOngoing(c) <=> Open(f)
    BY <1>1, <1>2, <2>1, <2>2, <2>3 DEF IsCouplingOngoing, Open
  <2>5. ~(Implicit /\ ~c.hasConverged)
    BY <1>3 DEF Complete
  <2> QED
    BY <2>4, <2>5 DEF WantsData
<1>4. CASE ~Done(e)
  <2>1. Open(f)
    BY <1>1, <1>4 DEF Follows, Open
  <2>2. Implicit /\ ~c.hasConverged
    BY <1>4 DEF Complete
  <2> QED
    BY <2>1, <2>2 DEF WantsData
<1> QED
  BY <1>3, <1>4

\* A size that has been received, or is on its way, is that of a round which the
\* other side has computed.
LEMMA SizeIsWritten ==
  ASSUME config \in Configurations, First # Second, TimeWindowSize = Undefined,
         NEW L, NEW place, NEW c, NEW M, Joins(L, Second, place, c),
         NEW r \in Nat \ {0}, \A k \in Nat : k <= r \/ k <= RoundAt(place, c) => M[k] = L[k],
         NEW s, NEW bye,
         Carries(L, Second, s, ReadAt(Second, place, c), Header(Second, r + 1), bye)
  PROVE  SizeAhead(M, place, c)
<1> DEFINE j == RoundAt(place, c)
<1>1. j \in Nat \ {0} /\ SizeAhead(L, place, c)
  BY DEF Joins, Tracks
<1>2. CASE place \in {"receiveData", "receiveDataForWindowEnd"}
  <2>1. ReadAt(Second, place, c) = Data(Second, j + 1)
    BY <1>2 DEF ReadAt
  <2>2. Data(Second, j + 1) <= Header(Second, r + 1)
    BY <2>1 DEF Carries
  <2>3. HasHeader(Second)
    BY SerialHeaders
  <2> HIDE DEF j
  <2>4. /\ Data(Second, j + 1) = Header(Second, j + 1) + 1 /\ Header(Second, j + 1) \in Nat
        /\ Header(Second, r + 1) \in Nat
    <3>1. j + 1 \in Nat /\ j + 1 >= 1 /\ r + 1 \in Nat /\ r + 1 >= 1
      BY <1>1
    <3> QED
      BY <2>3, <3>1, Positions
  <2>5. j + 1 <= r + 1 /\ j + 1 # r + 1
    <3>1. j + 1 \in Nat /\ r + 1 \in Nat
      BY <1>1
    <3>2. j + 1 <= r + 1
      BY <2>2, <2>3, <2>4, <3>1, EarlierRound
    <3>3. Header(Second, j + 1) # Header(Second, r + 1)
      BY <2>2, <2>4
    <3> QED
      BY <3>2, <3>3
  <2>6. M[j + 1] = L[j + 1]
    BY <1>1, <2>5
  <2>7. Ahead(place, c) = j + 1
    BY <1>2 DEF Ahead, Early, InitializeSteps, j
  <2> QED
    BY <1>1, <2>6, <2>7 DEF SizeAhead
<1>3. CASE place = "initReceiveDataForWindowEnd"
  <2>1. Ahead(place, c) = j
    BY <1>3 DEF Ahead, Early, InitializeSteps
  <2>2. M[j] = L[j]
    BY <1>1
  <2> QED
    BY <1>1, <2>1, <2>2 DEF SizeAhead
<1>4. CASE place \notin {"initReceiveDataForWindowEnd", "receiveData", "receiveDataForWindowEnd"}
  BY <1>4 DEF SizeAhead
<1> QED
  BY <1>2, <1>3, <1>4

\* secondExchange() goes on to the next round of the ledger, which is what the
\* other has made of it or will have to.
LEMMA FinishAgrees ==
  ASSUME IInv, IInv', config' = config, NEW L \in Ledgers, Agree(L), NEW p \in Participants,
         pc[p] \in Told(p), NEW c \in Schemes, Alike(scheme[p], c),
         p = Second /\ WantsData(c) => pc[p] \in {"receiveData", "receiveDataForWindowEnd"},
         pc' = [pc EXCEPT ![p] = "solving"], scheme' = [scheme EXCEPT ![p] = SecondExchange(c)],
         NEW q, q = Other(p), NEW r, r = RoundAt(pc[p], scheme[p]),
         channel'[p] \in Seq(Messages), channel'[q] \in Seq(Messages),
         NEW n, n = SentAt(q, pc[q], scheme[q]),
         NEW k, k = IF p = Second /\ WantsData(c) THEN Header(p, (r + 1) + 1) ELSE Header(p, r + 1),
         Carries(L, p, channel'[p], k, n, Bye(p, pc[p], pc[q])),
         NEW m, m = ReadAt(q, pc[q], scheme[q]),
         Carries(L, q, channel'[q], m, Header(q, r + 1), "nothing")
  PROVE  \E K \in Ledgers : Agree(K)' /\ SameSoFar(L, K)
<1> DEFINE s == RoundAt(pc[q], scheme[q])
           d == SecondExchange(c)
           bye == Bye(p, pc[p], pc[q])
<1>1. /\ TypeOK /\ config \in Configurations /\ q \in Participants /\ Other(q) = p
      /\ First # Second /\ d \in Schemes /\ p \in {First, Second}
  <2>1. TypeOK /\ config \in Configurations /\ q \in Participants /\ Other(q) = p /\ First # Second
    BY Others, ConfigTypes DEF IInv, TypeOK
  <2>2. scheme'[p] \in Schemes /\ scheme'[p] = d
    BY <2>1 DEF IInv, TypeOK
  <2> QED
    BY <2>1, <2>2 DEF Participants
<1>2. /\ Joins(L, p, pc[p], scheme[p]) /\ r \in Nat \ {0} /\ Kept(L, r)
      /\ L[r] \in Entries /\ Proper(L[r]) /\ InRound(p, pc[p], scheme[p], L[r])
      /\ Joins(L, q, pc[q], scheme[q]) /\ Tracks(L, q, pc[q], scheme[q])
      /\ s \in Nat \ {0} /\ Kept(L, s)
  BY <1>1, AgreeAt DEF Tracks
<1>3. /\ pc[p] \in ExchangeSteps \ {"sendTimeWindowSize"} /\ pc[p] \notin Leaving
      /\ pc[p] \notin Early
      /\ "solving" \notin Leaving /\ "solving" \in SerialPlaces(p) /\ "solving" \notin Told(p)
      /\ "solving" \notin Receives /\ "solving" \notin ExchangeSteps
  BY <1>1 DEF Told, ExchangeSteps, Leaving, SerialPlaces, Receives, Early, InitializeSteps
<1>4. /\ InRound(p, pc[p], c, L[r]) /\ r = RoundAt(pc[p], c)
      /\ SizeIsKnown(pc[p], c)
  <2>1. SizeIsKnown(pc[p], scheme[p])
    BY DEF IInv, Consistent
  <2>2. SizeIsKnown(pc[p], c)
    BY <2>1 DEF SizeIsKnown, Alike
  <2> QED
    BY <1>2, <2>2, InRoundAlike
<1>5. Open(L[r]) /\ L[r].start < L[r].end
  <2>1. /\ Open(L[r]) /\ L[r].start = c.time.start /\ Time!TimeOf(c.time) = L[r].end
        /\ c.time.progress > 0 /\ c.time \in Time!TimeHandlers
    BY <1>3, <1>4 DEF InRound, Schemes
  <2> QED
    BY <2>1 DEF Time!TimeOf, Time!TimeHandlers
<1>6. /\ Implicit => Judged(L[r]) /\ c.hasConverged = L[r].converged
      /\ Complete(c) <=> Done(L[r])
  BY <1>2 DEF Joins, Alike, Complete, Done
<1>7. PICK M \in Ledgers : /\ Kept(M, r + 1)
                           /\ \A j \in Nat : j <= r \/ j <= s => M[j] = L[j]
  BY <1>1, <1>2, <1>5, <1>6, LedgerGoesOn
<1> HIDE DEF s, d, bye
<1>8. /\ M[r] = L[r] /\ M[s] = L[s] /\ r + 1 \in Nat \ {0}
      /\ M[r + 1] \in Entries /\ Proper(M[r + 1]) /\ Follows(L[r], M[r + 1])
  <2>1. r + 1 \in 1 .. r + 1 /\ r \in 1 .. (r + 1) - 1 /\ r + 1 \in Nat /\ r \in Nat /\ s \in Nat
    BY <1>2
  <2>2. M[r] = L[r] /\ M[s] = L[s]
    BY <1>7, <2>1
  <2>3. Proper(M[r + 1]) /\ Follows(M[r], M[r + 1])
    BY <1>7, <2>1 DEF Kept
  <2> QED
    BY <1>7, <2>1, <2>2, <2>3 DEF Ledgers
<1>9. p = Second => (WantsData(c) <=> Open(M[r + 1]))
  BY <1>1, <1>2, <1>3, <1>4, <1>6, <1>8, WantsDataIsOpen
<1>10. n <= Header(p, s + 1) /\ k <= n
  <2>1. n <= Header(p, s + 1)
    BY <1>1, <1>2, Bounds DEF s
  <2>2. k <= n
    BY DEF Carries
  <2> QED
    BY <2>1, <2>2
<1>11. TimeWindowSize = Undefined /\ p = Second /\ Open(M[r + 1]) =>
         c.nextTimeWindowSize = Size(M[r + 1]) /\ M[r + 1].start < M[r + 1].end
  <2> SUFFICES ASSUME TimeWindowSize = Undefined, p = Second, Open(M[r + 1])
               PROVE  c.nextTimeWindowSize = Size(M[r + 1]) /\ M[r + 1].start < M[r + 1].end
    OBVIOUS
  <2>1. /\ k = Header(p, (r + 1) + 1) /\ HasHeader(p)
        /\ pc[p] \in {"receiveData", "receiveDataForWindowEnd"}
    BY <1>1, <1>9, SerialHeaders
  <2>2. r + 1 <= s
    <3>1. /\ (r + 1) + 1 \in Nat /\ s + 1 \in Nat /\ (r + 1) + 1 >= 1 /\ s + 1 >= 1
      BY <1>2
    <3>2. Header(p, (r + 1) + 1) \in Nat /\ Header(p, s + 1) \in Nat /\ n \in Nat
      BY <3>1, Positions DEF Carries
    <3>3. (r + 1) + 1 <= s + 1
      BY <1>10, <2>1, <3>1, <3>2, EarlierRound
    <3> QED
      BY <1>2, <3>3
  <2>3. M[r + 1] = L[r + 1]
    BY <1>7, <1>8, <2>2
  <2>4. Ahead(pc[p], scheme[p]) = r + 1
    BY <1>3 DEF Ahead
  <2>5. scheme[p].nextTimeWindowSize = Size(L[r + 1]) /\ L[r + 1].start < L[r + 1].end
    BY <1>2, <2>1, <2>4 DEF Joins, SizeAhead
  <2> QED
    BY <2>3, <2>5 DEF Alike
<1>12. InRound(p, "solving", d, M[r + 1]) /\ RoundAt("solving", d) = r + 1
  BY <1>1, <1>2, <1>3, <1>4, <1>6, <1>8, <1>11, FinishInRound DEF d
<1>13. Joins(M, p, "solving", d)
  BY <1>3, <1>7, <1>8, <1>12 DEF Joins, Tracks, SizeAhead
<1>14. Joins(M, q, pc[q], scheme[q])
  <2>1. Tracks(M, q, pc[q], scheme[q])
    BY <1>2, <1>7, TracksAlike DEF s
  <2>2. q = Second /\ TimeWindowSize = Undefined => SizeAhead(M, pc[q], scheme[q])
    BY <1>1, <1>2, <1>7, SizeIsWritten DEF s
  <2> QED
    BY <1>2, <1>8, <2>1, <2>2 DEF Joins, s
<1>15. /\ ReadAt(p, "solving", d) = k /\ SentAt(p, "solving", d) = Header(q, r + 1)
  <2>1. IsCouplingOngoing(d) <=> Open(M[r + 1])
    BY <1>1, <1>3, <1>8, <1>12, OngoingIsOpen
  <2> QED
    BY <1>1, <1>9, <1>12, <2>1 DEF ReadAt, SentAt, Receives
<1>16. Carries(M, p, channel'[p], k, n, bye)
  <2>1. s \in Nat /\ \A j \in Nat : j <= s => M[j] = L[j]
    BY <1>2, <1>7
  <2> QED
    BY <1>10, <2>1, CarriesUpTo DEF bye
<1>17. Carries(M, q, channel'[q], m, Header(q, r + 1), "nothing")
  <2>1. r \in Nat /\ (\A j \in Nat : j <= r => M[j] = L[j]) /\ r + 1 >= 1 /\ r + 1 \in Nat
    BY <1>2, <1>7
  <2>2. Header(q, r + 1) <= Header(q, r + 1)
    <3>1. Header(q, r + 1) \in Nat
      BY <2>1, Positions
    <3> QED
      BY <3>1
  <2> QED
    BY <2>1, <2>2, CarriesUpTo
<1>18. /\ Carries(M, p, channel'[p], ReadAt(p, "solving", d), n, Bye(p, pc[p], pc[Other(p)]))
       /\ Carries(M, q, channel'[q], m, SentAt(p, "solving", d), "nothing")
  BY <1>15, <1>16, <1>17 DEF bye
<1>19. pc' = [pc EXCEPT ![p] = "solving"] /\ scheme' = [scheme EXCEPT ![p] = d]
  BY DEF d
<1>20. Agree(M)'
  BY <1>1, <1>3, <1>13, <1>14, <1>18, <1>19, MidStep
<1>21. SameSoFar(L, M)
  BY <1>1, <1>2, <1>7, Others DEF SameSoFar, s
<1> QED
  BY <1>20, <1>21

\* Second sends its data, and that ends its round unless it wants new data.
LEMMA SecondSendsDataAgrees ==
  ASSUME IInv, config' = config, NEW L \in Ledgers, Agree(L), NEW p \in Participants,
         SecondSendsData(p), IInv'
  PROVE  IF WantsData(scheme[p]) THEN Agree(L)'
         ELSE \E K \in Ledgers : Agree(K)' /\ SameSoFar(L, K)
<1> DEFINE c == scheme[p]
           q == Other(p)
           r == RoundAt("sendData", c)
           place == IF FirstParticipantSetsTimeWindowSize THEN "receiveTimeWindowSize"
                    ELSE IF Implicit /\ ~c.hasConverged THEN "receiveData"
                    ELSE "receiveDataForWindowEnd"
<1>1. /\ TypeOK /\ TypeOK' /\ config \in Configurations /\ pc[p] = "sendData" /\ p = Second
      /\ SendStored(p, written[p]) /\ First # Second
      /\ pc[p] \notin Leaving /\ place \notin Leaving /\ "sendData" \in Told(p)
  BY ConfigTypes DEF IInv, TypeOK, SecondSendsData, At, Leaving, Told
<1>2. /\ WantsData(c) => /\ pc' = [pc EXCEPT ![p] = place]
                         /\ scheme' = [scheme EXCEPT ![p] = c]
      /\ ~WantsData(c) => /\ pc' = [pc EXCEPT ![p] = "solving"]
                          /\ scheme' = [scheme EXCEPT ![p] = SecondExchange(c)]
  BY <1>1, Unchanged DEF SecondSendsData, FinishAdvance, Goto
<1>3. /\ c \in Schemes /\ Joins(L, p, "sendData", c) /\ r \in Nat \ {0}
      /\ Tracks(L, p, "sendData", c)
      /\ q \in Participants /\ Other(q) = p /\ Joins(L, q, pc[q], scheme[q])
      /\ channel[p] \in Seq(Messages) /\ channel[q] \in Seq(Messages)
  BY <1>1, AgreeAt, Others DEF TypeOK
<1>4. SentAt(p, "sendData", c) = Data(q, r) /\ ReadAt(p, "sendData", c) = Header(p, r + 1)
  BY <1>1 DEF SentAt, ReadAt
<1>5. /\ channel'[p] = channel[p]
      /\ IF HasData(q) THEN \E m \in Messages : m.kind = "data" /\ channel'[q] = Append(channel[q], m)
         ELSE channel'[q] = channel[q]
      /\ channel'[q] \in Seq(Messages)
  BY <1>1, <1>3, SendsData
<1> DEFINE n == SentAt(q, pc[q], scheme[q])
           m == ReadAt(q, pc[q], scheme[q])
<1>6. /\ Carries(L, p, channel'[p], Header(p, r + 1), n, Bye(p, pc[p], pc[q]))
      /\ Carries(L, q, channel[q], m, Data(q, r), "nothing")
  BY <1>1, <1>4, <1>5, Streams
<1> HIDE DEF m, n
<1>7. Carries(L, q, channel'[q], m, Header(q, r + 1), "nothing")
  BY <1>3, <1>5, <1>6, DataIsSent
<1>8. CASE ~WantsData(c)
  <2>1. Alike(c, c)
    BY DEF Alike
  <2> QED
    BY <1>1, <1>2, <1>3, <1>5, <1>6, <1>7, <1>8, <2>1, FinishAgrees DEF m, n
<1>9. CASE WantsData(c)
  <2>1. /\ {"sendData", place} \subseteq ExchangeSteps /\ place # "sendTimeWindowSize"
        /\ place \in SerialPlaces(p) /\ place \in Receives
        /\ FirstParticipantSetsTimeWindowSize <=> TimeWindowSize = Undefined
    BY <1>1 DEF ExchangeSteps, SerialPlaces, Receives, FirstParticipantSetsTimeWindowSize
  <2>2. InRound(p, place, c, L[r]) /\ RoundAt(place, c) = r
    BY <1>3, <2>1, ExchangeInRound DEF Tracks
  <2>3. TimeWindowSize = Undefined => SizeAhead(L, place, c)
    BY <2>1 DEF SizeAhead
  <2>4. Joins(L, p, place, c)
    BY <1>1, <1>3, <1>9, <2>1, <2>2, <2>3 DEF Joins, Tracks
  <2>5. SentAt(p, place, c) = Header(q, r + 1)
    BY <1>1, <2>1, <2>2 DEF SentAt, Receives
  <2>6. ReadAt(p, place, c) = Header(p, r + 1)
    <3>1. TimeWindowSize # Undefined => Data(p, r + 1) = Header(p, r + 1)
      BY <1>1, SerialHeaders DEF Data, Header
    <3> QED
      BY <1>1, <2>1, <2>2, <3>1 DEF ReadAt
  <2> HIDE DEF place, r
  <2> QED
    BY <1>1, <1>2, <1>3, <1>6, <1>7, <1>9, <2>4, <2>5, <2>6, MidStep DEF m, n
<1> QED
  BY <1>8, <1>9

\* Second reads First's data of the next round as the last of its own.
LEMMA SecondReceivesDataAgrees ==
  ASSUME IInv, config' = config, NEW L \in Ledgers, Agree(L), NEW p \in Participants,
         SecondReceivesData(p), IInv'
  PROVE  \E K \in Ledgers : Agree(K)' /\ SameSoFar(L, K)
<1> DEFINE c == NotifyDataHasBeenReceived(scheme[p])
           q == Other(p)
           r == RoundAt(pc[p], scheme[p])
<1>1. /\ TypeOK /\ TypeOK' /\ config \in Configurations /\ p = Second
      /\ pc[p] \in {"receiveData", "receiveDataForWindowEnd"}
      /\ CanReceiveData(p) /\ ReceiveDataMessage(p) /\ First # Second
  BY ConfigTypes DEF IInv, TypeOK, SecondReceivesData, At
<1>2. /\ pc' = [pc EXCEPT ![p] = "solving"]
      /\ scheme' = [scheme EXCEPT ![p] = SecondExchange(c)]
  BY DEF SecondReceivesData, FinishAdvance, Goto
<1>3. /\ scheme[p] \in Schemes /\ Joins(L, p, pc[p], scheme[p]) /\ r \in Nat \ {0}
      /\ q \in Participants /\ Other(q) = p
      /\ channel[p] \in Seq(Messages) /\ channel[q] \in Seq(Messages)
      /\ channel'[p] \in Seq(Messages)
  BY <1>1, AgreeAt, Others, Types DEF TypeOK
<1>4. c \in Schemes /\ Alike(scheme[p], c)
  BY <1>3, AlikeMembers, NotifyMembers
<1>5. pc[p] \in Told(p) /\ pc[p] \notin Leaving /\ pc[p] \in Receives
  BY <1>1 DEF Told, Leaving, Receives
<1> HIDE DEF c
<1>6. WantsData(c)
  <2>1. WantsData(scheme[p])
    BY <1>1, <1>3, <1>5 DEF Joins
  <2> QED
    BY <1>4, <2>1 DEF WantsData, IsCouplingOngoing, Alike
<1>7. /\ ReadAt(p, pc[p], scheme[p]) = Data(p, r + 1)
      /\ SentAt(p, pc[p], scheme[p]) = Header(q, r + 1)
  BY <1>1, <1>5 DEF SentAt, ReadAt, Receives
<1>8. /\ channel'[q] = channel[q]
      /\ HasData(p) => channel[p] # <<>> /\ Head(channel[p]).kind = "data"
      /\ channel'[p] = IF HasData(p) THEN Tail(channel[p]) ELSE channel[p]
  BY <1>1, ReadsData
<1> HIDE DEF r
<1> DEFINE n == SentAt(q, pc[q], scheme[q])
           m == ReadAt(q, pc[q], scheme[q])
           bye == Bye(p, pc[p], pc[q])
<1>9. /\ Carries(L, p, channel[p], Data(p, r + 1), n, bye)
      /\ Carries(L, q, channel[q], m, Header(q, r + 1), "nothing")
  BY <1>1, <1>5, <1>7, Streams
<1> HIDE DEF m, n, bye
<1>10. Carries(L, p, channel'[p], Header(p, (r + 1) + 1), n, bye)
  <2>1. r + 1 \in Nat
    BY <1>3
  <2> QED
    BY <1>3, <1>8, <1>9, <2>1, DataIsRead
<1> QED
  BY <1>1, <1>2, <1>3, <1>4, <1>5, <1>6, <1>8, <1>9, <1>10, FinishAgrees DEF m, n, bye, r

\* First reads Second's data as the last of its round.
LEMMA FirstReceivesDataAgrees ==
  ASSUME IInv, config' = config, NEW L \in Ledgers, Agree(L), NEW p \in Participants,
         FirstReceivesData(p), IInv'
  PROVE  \E K \in Ledgers : Agree(K)' /\ SameSoFar(L, K)
<1> DEFINE c == NotifyDataHasBeenReceived(scheme[p])
           q == Other(p)
           r == RoundAt("receiveData", scheme[p])
<1>1. /\ TypeOK /\ TypeOK' /\ config \in Configurations /\ pc[p] = "receiveData" /\ p = First
      /\ CanReceiveData(p) /\ ReceiveDataMessage(p) /\ First # Second /\ pc[p] \notin Leaving
  BY ConfigTypes DEF IInv, TypeOK, FirstReceivesData, At, Leaving
<1>2. /\ pc' = [pc EXCEPT ![p] = "solving"]
      /\ scheme' = [scheme EXCEPT ![p] = SecondExchange(c)]
  BY DEF FirstReceivesData, FinishAdvance, Goto
<1>3. /\ scheme[p] \in Schemes /\ Joins(L, p, "receiveData", scheme[p]) /\ r \in Nat
      /\ q \in Participants /\ Other(q) = p
      /\ channel[p] \in Seq(Messages) /\ channel[q] \in Seq(Messages)
      /\ channel'[p] \in Seq(Messages)
  <2>1. channel'[p] \in Seq(Messages)
    BY <1>1, Types DEF TypeOK
  <2>2. q \in Participants /\ Other(q) = p /\ channel[q] \in Seq(Messages)
    BY <1>1, Others DEF TypeOK
  <2> QED
    BY <1>1, <2>1, <2>2, AgreeAt
<1>4. c \in Schemes /\ Alike(scheme[p], c) /\ pc[p] \in Told(p) /\ p # Second
  BY <1>1, <1>3, AlikeMembers, NotifyMembers DEF Told
<1>5. /\ ReadAt(p, "receiveData", scheme[p]) = Data(p, r)
      /\ SentAt(p, "receiveData", scheme[p]) = Header(q, r + 1)
  BY <1>1 DEF SentAt, ReadAt
<1>6. /\ channel'[q] = channel[q]
      /\ HasData(p) => channel[p] # <<>> /\ Head(channel[p]).kind = "data"
      /\ channel'[p] = IF HasData(p) THEN Tail(channel[p]) ELSE channel[p]
  BY <1>1, ReadsData
<1> HIDE DEF c
<1> DEFINE n == SentAt(q, pc[q], scheme[q])
           m == ReadAt(q, pc[q], scheme[q])
           bye == Bye(p, pc[p], pc[q])
<1>7. /\ Carries(L, p, channel[p], Data(p, r), n, bye)
      /\ Carries(L, q, channel[q], m, Header(q, r + 1), "nothing")
  BY <1>1, <1>5, Streams
<1> HIDE DEF m, n, bye
<1>8. Carries(L, p, channel'[p], Header(p, r + 1), n, bye)
  BY <1>3, <1>6, <1>7, DataIsRead
<1> QED
  BY <1>1, <1>2, <1>3, <1>4, <1>6, <1>7, <1>8, FinishAgrees DEF m, n, bye

\* Where a size is waiting for Second at the end of an iteration, First is in the
\* next one and has nothing to read.
LEMMA FirstIsAhead ==
  ASSUME TypeOK, NEW L \in Ledgers, Agree(L), pc[Second] = "receiveTimeWindowSize",
         HasMessage(Second, "size"), Implicit
  PROVE  pc[First] \in {"sendData", "receiveConvergence"} /\ channel[First] = <<>>
<1> DEFINE r == RoundAt(pc[Second], scheme[Second])
           s == RoundAt(pc[First], scheme[First])
           n == SentAt(First, pc[First], scheme[First])
           m == ReadAt(First, pc[First], scheme[First])
<1>1. /\ config \in Configurations /\ First # Second /\ Other(Second) = First
      /\ Other(First) = Second /\ First \in Participants /\ Second \in Participants
      /\ pc[Second] \notin Leaving
  BY ConfigTypes DEF TypeOK, Other, Participants, Leaving
<1>2. /\ Joins(L, Second, pc[Second], scheme[Second]) /\ Joins(L, First, pc[First], scheme[First])
      /\ channel[Second] \in Seq(Messages) /\ channel[First] \in Seq(Messages)
  BY <1>1 DEF Agree, TypeOK
<1>3. r \in Nat \ {0} /\ s \in Nat \ {0}
  BY <1>2 DEF Joins, Tracks
<1>4. HasHeader(Second) /\ HasHeader(First) /\ TimeWindowSize = Undefined
  BY <1>1, <1>2, SerialHeaders DEF Joins, SerialPlaces, Leaving
<1>5. /\ SentAt(Second, pc[Second], scheme[Second]) = Header(First, r + 1)
      /\ ReadAt(Second, pc[Second], scheme[Second]) = Header(Second, r + 1)
  BY <1>1 DEF SentAt, ReadAt, Receives
<1>6. /\ Carries(L, Second, channel[Second], Header(Second, r + 1), n,
                 Bye(Second, pc[Second], pc[First]))
      /\ Carries(L, First, channel[First], m, Header(First, r + 1), "nothing")
  BY <1>1, <1>5, Streams
<1>7. Header(Second, r + 1) < n
  BY <1>2, <1>6, NotAllRead DEF HasMessage
<1>8. m <= Header(First, r + 1) /\ Len(channel[First]) = Header(First, r + 1) - m
  BY <1>6 DEF Carries
<1>9. /\ n <= Header(Second, s + 1) /\ n \in Nat /\ m \in Nat
      /\ pc[First] \notin ExchangeSteps => n <= Header(Second, s)
      /\ pc[First] \notin Early => m >= Header(First, s)
  BY <1>1, <1>2, Bounds
<1>10. /\ pc[First] \in Early => s = 1 /\ pc[First] \notin ExchangeSteps
       /\ pc[First] = "sendTimeWindowSize" => n = Header(Second, s)
       /\ pc[First] \in {"sendData", "receiveConvergence"} => m = Header(First, s)
       /\ pc[First] = "receiveData" => m = Data(First, s)
  BY <1>1, <1>2 DEF Joins, Tracks, InRound, Early, InitializeSteps, ExchangeSteps, SentAt, ReadAt
<1>11. pc[First] \in ExchangeSteps =>
         pc[First] \in {"sendTimeWindowSize", "sendData", "receiveData", "receiveConvergence"}
  BY <1>1, <1>2 DEF Joins, SerialPlaces, ExchangeSteps, Leaving
<1> HIDE DEF r, s, n, m
<1>12. r + 1 \in Nat /\ s + 1 \in Nat /\ r + 1 >= 1 /\ s + 1 >= 1 /\ s \in Nat /\ s >= 1
  BY <1>3
<1>13. /\ Header(Second, r + 1) \in Nat /\ Header(Second, s + 1) \in Nat
       /\ Header(Second, s) \in Nat /\ Header(First, r + 1) \in Nat /\ Header(First, s) \in Nat
       /\ Data(First, s) = Header(First, s) + 1
  BY <1>4, <1>12, Positions
<1>14. r + 1 <= s
  <2>1. r + 1 <= s + 1
    BY <1>4, <1>7, <1>9, <1>12, <1>13, EarlierRound
  <2>2. Header(Second, r + 1) # Header(Second, s + 1)
    BY <1>7, <1>9, <1>13
  <2>3. r + 1 # s + 1
    BY <2>2
  <2> QED
    BY <1>12, <2>1, <2>3
<1>15. pc[First] \notin Early
  BY <1>3, <1>10, <1>14
<1>16. s = r + 1
  <2>1. s <= r + 1
    BY <1>4, <1>8, <1>9, <1>12, <1>13, <1>15, EarlierRound
  <2> QED
    BY <1>12, <1>14, <2>1
<1>17. pc[First] \in {"sendData", "receiveConvergence"}
  <2>1. pc[First] \in ExchangeSteps
    BY <1>7, <1>9, <1>13, <1>16
  <2>2. pc[First] # "sendTimeWindowSize"
    BY <1>7, <1>10, <1>13, <1>16
  <2>3. pc[First] # "receiveData"
    BY <1>8, <1>10, <1>13, <1>16
  <2> QED
    BY <1>11, <2>1, <2>2, <2>3
<1>18. Len(channel[First]) = 0
  BY <1>8, <1>10, <1>13, <1>16, <1>17
<1> QED
  BY <1>2, <1>17, <1>18

\* The size that Second reads is that of its next round; if an iteration of First
\* had another size, the error ends the coupling.
LEMMA ReceiveTimeWindowSizeAgrees ==
  ASSUME IInv, config' = config, NEW L \in Ledgers, Agree(L), NEW p \in Participants,
         ReceiveTimeWindowSize(p), IInv'
  PROVE  Broken' \/ (pc'[p] # "failed" /\ Agree(L)')
<1> DEFINE from == "receiveTimeWindowSize"
           dt == Head(channel[p]).size
           c == [scheme[p] EXCEPT !.nextTimeWindowSize = dt]
           iterating == Implicit /\ ~scheme[p].hasConverged
           place == IF iterating THEN "receiveData" ELSE "receiveDataForWindowEnd"
           q == Other(p)
           r == RoundAt(from, scheme[p])
<1>1. /\ TypeOK /\ TypeOK' /\ config \in Configurations /\ pc[p] = from
      /\ HasMessage(p, "size") /\ Receive(p) /\ First # Second
  BY ConfigTypes DEF IInv, TypeOK, ReceiveTimeWindowSize, At
<1>2. /\ scheme[p] \in Schemes /\ Joins(L, p, from, scheme[p]) /\ Tracks(L, p, from, scheme[p])
      /\ r \in Nat \ {0} /\ InRound(p, from, scheme[p], L[r])
      /\ q \in Participants /\ Other(q) = p /\ Joins(L, q, pc[q], scheme[q])
      /\ channel[p] \in Seq(Messages) /\ channel[q] \in Seq(Messages)
  BY <1>1, AgreeAt, Others DEF TypeOK
<1>3. p = Second /\ q = First /\ TimeWindowSize = Undefined
  BY <1>1, <1>2 DEF Joins, SerialPlaces, Leaving, Participants, Other
<1>4. channel'[q] = channel[q] /\ channel'[p] = Tail(channel[p])
  BY <1>1, Reads1
<1>5. \/ /\ iterating /\ pc' = [pc EXCEPT ![p] = "failed"]
      \/ pc' = [pc EXCEPT ![p] = place] /\ scheme' = [scheme EXCEPT ![p] = c]
  BY <1>1 DEF ReceiveTimeWindowSize, Goto, TypeOK
<1>6. CASE iterating /\ pc' = [pc EXCEPT ![p] = "failed"]
  <2>1. pc[First] \in {"sendData", "receiveConvergence"} /\ channel[First] = <<>>
    BY <1>1, <1>3, <1>6, FirstIsAhead
  <2>2. /\ pc'[Second] = "failed" /\ pc'[First] = pc[First] /\ channel'[First] = <<>>
    BY <1>1, <1>2, <1>3, <1>4, <1>6, <2>1 DEF TypeOK
  <2>3. Implicit'
    BY <1>6 DEF Implicit
  <2> QED
    BY <2>1, <2>2, <2>3 DEF Broken
<1>7. CASE pc' = [pc EXCEPT ![p] = place] /\ scheme' = [scheme EXCEPT ![p] = c]
  <2>1. /\ {from, place} \subseteq ExchangeSteps /\ place # "sendTimeWindowSize"
        /\ from \notin Leaving /\ place \notin Leaving /\ place \in Receives /\ from \in Receives
        /\ place \in {"receiveData", "receiveDataForWindowEnd"} /\ place \notin Early
        /\ place \in SerialPlaces(p)
    BY <1>1, <1>3 DEF ExchangeSteps, SerialPlaces, Receives, Leaving, Early, InitializeSteps
  <2>2. channel[p] # <<>> /\ Head(channel[p]).kind = "size"
    BY <1>1 DEF HasMessage
  <2>3. /\ c.time = scheme[p].time /\ c.timeWindows = scheme[p].timeWindows
        /\ c.timeWindowSize = scheme[p].timeWindowSize /\ c.nextTimeWindowSize = dt
        /\ c.iterations = scheme[p].iterations /\ c.totalIterations = scheme[p].totalIterations
        /\ c.hasConverged = scheme[p].hasConverged
    BY <1>2 DEF Schemes
  <2> HIDE DEF dt, c, place
  <2>4. /\ SentAt(p, from, scheme[p]) = Header(q, r + 1)
        /\ ReadAt(p, from, scheme[p]) = Header(p, r + 1)
    BY <1>1, <1>3 DEF SentAt, ReadAt, Receives
  <2>5. InRound(p, place, c, L[r]) /\ RoundAt(place, c) = r
    <3> DEFINE e == L[r]
    <3>1. InRound(p, from, scheme[p], e)
      BY <1>2
    <3>2. ~SetsSize(p)
      BY <1>1, <1>3 DEF SetsSize
    <3> HIDE DEF e
    <3>3. InRound(p, place, c, e) /\ RoundAt(place, c) = RoundAt(from, scheme[p])
      BY <2>1, <2>3, <3>1, <3>2, ExchangeInRound
    <3> QED
      BY <3>3 DEF e
  <2>6. /\ SentAt(p, place, c) = Header(q, r + 1) /\ ReadAt(p, place, c) = Data(p, r + 1)
    BY <1>1, <1>3, <2>1, <2>5 DEF SentAt, ReadAt
  <2> DEFINE n == SentAt(q, pc[q], scheme[q])
             m == ReadAt(q, pc[q], scheme[q])
             bye == Bye(p, pc[p], pc[q])
  <2>7. /\ Carries(L, p, channel[p], Header(p, r + 1), n, bye)
        /\ Carries(L, q, channel[q], m, Header(q, r + 1), "nothing")
    BY <1>1, <2>1, <2>4, Streams
  <2> HIDE DEF n, m, bye, r
  <2>8. Tells(p, L[r + 1], Head(channel[p])) /\ Carries(L, p, Tail(channel[p]), Data(p, r + 1), n, bye)
    <3>1. HasHeader(p) /\ r + 1 \in Nat \ {0}
      BY <1>1, <1>2, <1>3, SerialHeaders
    <3> QED
      BY <1>2, <2>2, <2>7, <3>1, HeaderIsRead
  <2>9. SizeAhead(L, place, c)
    <3>1. Ahead(place, c) = r + 1
      BY <2>1, <2>5 DEF Ahead
    <3>2. c.nextTimeWindowSize = Size(L[r + 1]) /\ L[r + 1].start < L[r + 1].end
      BY <1>3, <2>3, <2>8 DEF Tells, dt
    <3> QED
      BY <3>1, <3>2 DEF SizeAhead
  <2>10. WantsData(c)
    <3>1. WantsData(scheme[p])
      BY <1>2, <1>3, <2>1 DEF Joins
    <3> QED
      BY <2>3, <3>1 DEF WantsData, IsCouplingOngoing
  <2>11. Joins(L, p, place, c)
    <3>1. from \in Told(p) /\ Kept(L, r)
      BY <1>1, <1>2, <1>3, <2>1 DEF Told, Tracks, r
    <3>2. Implicit => Judged(L[r]) /\ c.hasConverged = L[r].converged
      BY <1>2, <2>3, <3>1 DEF Joins, r
    <3> QED
      BY <1>2, <2>1, <2>5, <2>9, <2>10, <3>1, <3>2 DEF Joins, Tracks
  <2>12. Agree(L)'
    BY <1>1, <1>2, <1>4, <1>7, <2>1, <2>6, <2>7, <2>8, <2>11, MidStep DEF n, m, bye
  <2>13. pc'[p] # "failed"
    BY <1>1, <1>7, <2>1 DEF TypeOK, Receives
  <2> QED
    BY <2>12, <2>13
<1> QED
  BY <1>5, <1>6, <1>7

--------------------------------------------------------------------------------
(* finalize() goes by the ledger *)

\* A participant that is past the last round has all the messages of it.
LEMMA AllIsRead ==
  ASSUME TypeOK, NEW L \in Ledgers, Agree(L), NEW p \in Participants,
         NEW q, q = Other(p), NEW r, r = RoundAt(pc[p], scheme[p]), ~Open(L[r]),
         pc[p] \in Leaving \cup {"solving"}
  PROVE  /\ ReadAt(p, pc[p], scheme[p]) = Header(p, r)
         /\ SentAt(q, pc[q], scheme[q]) = Header(p, r)
<1> DEFINE s == RoundAt(pc[q], scheme[q])
           n == ReadAt(p, pc[p], scheme[p])
           m == SentAt(q, pc[q], scheme[q])
<1>1. /\ config \in Configurations /\ q \in Participants /\ Other(q) = p
      /\ Tracks(L, p, pc[p], scheme[p]) /\ Tracks(L, q, pc[q], scheme[q])
      /\ Joins(L, q, pc[q], scheme[q]) /\ r \in Nat \ {0} /\ s \in Nat \ {0}
      /\ Delivers(L, p, pc[p], scheme[p], pc[q], scheme[q], channel[p])
      /\ scheme[p] \in Schemes /\ L[r] \in Entries /\ Proper(L[r])
      /\ InRound(p, pc[p], scheme[p], L[r])
  BY AgreeAt, Others DEF TypeOK
<1>2. s <= r /\ (pc[q] \in ExchangeSteps => s < r)
  BY <1>1, NobodyIsAhead
<1>3. m <= Header(p, s + 1) /\ (pc[q] \notin ExchangeSteps => m <= Header(p, s)) /\ m \in Nat
  BY <1>1, Bounds
<1>4. n = Header(p, r)
  <2>1. pc[p] \notin ExchangeSteps
    BY DEF ExchangeSteps, Leaving
  <2>2. ~IsCouplingOngoing(scheme[p])
    BY <1>1, <2>1, OngoingIsOpen
  <2> QED
    BY <2>2 DEF ReadAt, Leaving
<1>5. n <= m
  BY <1>1 DEF Delivers, Carries
<1> HIDE DEF s, n, m
<1>6. m <= Header(p, r)
  <2>1. Header(p, s) \in Nat /\ Header(p, s + 1) \in Nat /\ Header(p, r) \in Nat
    BY <1>1, Positions
  <2>2. s < r => Header(p, s + 1) <= Header(p, r)
    <3>1. CASE s + 1 = r
      BY <2>1, <3>1
    <3>2. CASE s + 1 # r
      BY <1>1, <3>2, PositionsInOrder
    <3> QED
      BY <3>1, <3>2
  <2>3. s < r => Header(p, s) <= Header(p, r)
    BY <1>1, PositionsInOrder
  <2> QED
    BY <1>1, <1>2, <1>3, <2>1, <2>2, <2>3
<1>7. Header(p, r) \in Nat
  BY <1>1, Positions
<1> QED
  BY <1>3, <1>4, <1>5, <1>6, <1>7 DEF n, m

\* Who leaves the coupling, or goes on leaving, stays in its last round.
LEMMA LeavingJoins ==
  ASSUME config \in Configurations, NEW L \in Ledgers, NEW p,
         NEW place \in Leaving \cup {"solving"}, NEW c \in Schemes, Joins(L, p, place, c),
         ~Open(L[RoundAt(place, c)]), NEW d, Alike(c, d), NEW to \in Leaving
  PROVE  /\ Joins(L, p, to, d) /\ RoundAt(to, d) = RoundAt(place, c)
         /\ ReadAt(p, to, d) = ReadAt(p, place, c) /\ SentAt(p, to, d) = SentAt(p, place, c)
<1>1. InRound(p, to, d, L[RoundAt(place, c)]) /\ RoundAt(to, d) = RoundAt(place, c)
  BY LeavingInRound DEF Joins, Tracks
<1>2. to \in SerialPlaces(p) /\ to \notin Told(p) /\ to \notin Receives
  BY DEF SerialPlaces, Told, Leaving, Receives
<1>3. Joins(L, p, to, d)
  <2>1. SizeAhead(L, to, d)
    BY DEF SizeAhead, Leaving
  <2> QED
    BY <1>1, <1>2, <2>1 DEF Joins, Tracks
<1>4. ReadAt(p, to, d) = ReadAt(p, place, c) /\ SentAt(p, to, d) = SentAt(p, place, c)
  <2>1. place \notin ExchangeSteps
    BY DEF ExchangeSteps, Leaving
  <2>2. ~IsCouplingOngoing(c)
    <3> DEFINE e == L[RoundAt(place, c)]
    <3>1. e \in Entries /\ Proper(e) /\ InRound(p, place, c, e) /\ ~Open(e)
      BY DEF Joins, Tracks, Ledgers, Kept
    <3> HIDE DEF e
    <3> QED
      BY <2>1, <3>1, OngoingIsOpen
  <2> QED
    BY <1>1, <2>2 DEF ReadAt, SentAt, Leaving, Receives
<1> QED
  BY <1>1, <1>3, <1>4

\* The requesting side sends its ping as the last message of all.
LEMMA FinalizeAgrees ==
  ASSUME IInv, config' = config, NEW L \in Ledgers, Agree(L), NEW p \in Participants, Finalize(p)
  PROVE  Agree(L)'
<1> DEFINE c == ClearActions(scheme[p])
           q == Other(p)
           r == RoundAt("solving", scheme[p])
           place == IF WaitInFinalize
                    THEN IF p = Requesting THEN "receivePong" ELSE "receivePing" ELSE "finalized"
           ping == [kind |-> "ping"]
<1>1. /\ TypeOK /\ config \in Configurations /\ pc[p] = "solving"
      /\ ~IsCouplingOngoing(scheme[p]) /\ scheme' = [scheme EXCEPT ![p] = c]
  BY DEF IInv, TypeOK, Finalize, At
<1>2. /\ scheme[p] \in Schemes /\ Joins(L, p, "solving", scheme[p])
      /\ InRound(p, "solving", scheme[p], L[r]) /\ L[r] \in Entries /\ Proper(L[r])
      /\ q \in Participants /\ q # p /\ Other(q) = p /\ Joins(L, q, pc[q], scheme[q])
      /\ \A x \in Participants : x = p \/ x = q
      /\ channel[q] \in Seq(Messages) /\ Requesting \in Participants
      /\ LeavesInOrder(p, "solving", pc[q]) /\ LeavesInOrder(q, pc[q], "solving")
  BY <1>1, AgreeAt, Others, ConfigTypes
<1>3. ~Open(L[r])
  BY <1>1, <1>2, OngoingIsOpen DEF ExchangeSteps
<1>4. Alike(scheme[p], c)
  BY <1>2, AlikeMembers
<1>5. place \in Leaving /\ "solving" \notin Leaving
  BY DEF Leaving
<1>6. /\ pc' = [pc EXCEPT ![p] = place]
      /\ IF WaitInFinalize /\ p = Requesting THEN Send(p, ping) ELSE UNCHANGED channel
  BY DEF Finalize, CloseCommunicationChannels, Goto
<1> HIDE DEF c
<1>7. /\ Joins(L, p, place, c) /\ ReadAt(p, place, c) = ReadAt(p, "solving", scheme[p])
      /\ SentAt(p, place, c) = SentAt(p, "solving", scheme[p])
  <2>1. "solving" \in Leaving \cup {"solving"} /\ ~Open(L[RoundAt("solving", scheme[p])])
    BY <1>3
  <2>2. Joins(L, p, "solving", scheme[p]) /\ scheme[p] \in Schemes /\ config \in Configurations
    BY <1>1, <1>2
  <2> HIDE DEF place
  <2> QED
    BY <1>4, <1>5, <2>1, <2>2, LeavingJoins
<1>8. LeavesInOrder(p, place, pc[q]) /\ LeavesInOrder(q, pc[q], place)
  BY <1>2 DEF LeavesInOrder
<1>9. Bye(p, place, pc[q]) = Bye(p, "solving", pc[q])
  BY <1>2 DEF Bye, LeavesInOrder
<1>10. Bye(q, pc[q], place) = IF WaitInFinalize /\ p = Requesting THEN "ping" ELSE "nothing"
  BY <1>2 DEF Bye, LeavesInOrder
<1> DEFINE n == ReadAt(q, pc[q], scheme[q])
           m == SentAt(p, "solving", scheme[p])
<1>11. /\ Carries(L, p, channel[p], ReadAt(p, "solving", scheme[p]),
                  SentAt(q, pc[q], scheme[q]), Bye(p, "solving", pc[q]))
       /\ Carries(L, q, channel[q], n, m, "nothing")
  BY <1>1, <1>5, Streams
<1>12. Delivers(L, p, place, c, pc[q], scheme[q], channel'[p])
  <2>1. channel'[p] = channel[p]
    <3>1. ping \in Messages
      BY DEF Messages
    <3> QED
      BY <1>1, <1>6, <3>1, Sends1
  <2> QED
    BY <1>7, <1>9, <1>11, <2>1 DEF Delivers
<1> HIDE DEF n, m, ping
<1>13. Carries(L, q, channel'[q], n, m, Bye(q, pc[q], place))
  <2>1. CASE WaitInFinalize /\ p = Requesting
    <3>1. ping \in Messages /\ ping.kind = "ping"
      BY DEF Messages, ping
    <3>2. channel'[q] = Append(channel[q], ping)
      BY <1>1, <1>6, <2>1, <3>1, Sends1
    <3> QED
      BY <1>2, <1>10, <1>11, <2>1, <3>1, <3>2, GoodbyeIsSent
  <2>2. CASE ~(WaitInFinalize /\ p = Requesting)
    BY <1>6, <1>10, <1>11, <2>2
  <2> QED
    BY <2>1, <2>2
<1> HIDE DEF place
<1>14. Delivers(L, q, pc[q], scheme[q], place, c, channel'[q])
  BY <1>2, <1>7, <1>13 DEF Delivers, n, m
<1> QED
  BY <1>1, <1>2, <1>6, <1>7, <1>8, <1>12, <1>14, StepAgrees

\* The answer to the ping is the last message to the requesting side.
LEMMA ReceivePingAgrees ==
  ASSUME IInv, config' = config, NEW L \in Ledgers, Agree(L), NEW p \in Participants, ReceivePing(p)
  PROVE  Agree(L)'
<1> DEFINE c == scheme[p]
           q == Other(p)
           r == RoundAt("receivePing", c)
           pong == [kind |-> "pong"]
<1>1. /\ TypeOK /\ config \in Configurations /\ pc[p] = "receivePing"
      /\ channel[p] # <<>> /\ Head(channel[p]).kind = "ping"
  BY DEF IInv, TypeOK, ReceivePing, At, HasMessage
<1>2. pc' = [pc EXCEPT ![p] = "finalized"] /\ scheme' = [scheme EXCEPT ![p] = c]
  BY <1>1, Unchanged DEF ReceivePing, Goto
<1>3. /\ c \in Schemes /\ Joins(L, p, "receivePing", c) /\ InRound(p, "receivePing", c, L[r])
      /\ q \in Participants /\ q # p /\ Other(q) = p /\ Joins(L, q, pc[q], scheme[q])
      /\ \A x \in Participants : x = p \/ x = q
      /\ channel[q] \in Seq(Messages) /\ channel[p] \in Seq(Messages)
      /\ Requesting \in Participants /\ Alike(c, c)
      /\ LeavesInOrder(p, "receivePing", pc[q]) /\ LeavesInOrder(q, pc[q], "receivePing")
      /\ Delivers(L, p, "receivePing", c, pc[q], scheme[q], channel[p])
      /\ Delivers(L, q, pc[q], scheme[q], "receivePing", c, channel[q])
  BY <1>1, AgreeAt, Others, ConfigTypes DEF Alike
<1>4. ~Open(L[r]) /\ "receivePing" \in Leaving /\ "finalized" \in Leaving
  BY <1>3 DEF InRound, Leaving
<1>5. /\ Joins(L, p, "finalized", c) /\ ReadAt(p, "finalized", c) = ReadAt(p, "receivePing", c)
      /\ SentAt(p, "finalized", c) = SentAt(p, "receivePing", c)
  <2>1. "receivePing" \in Leaving \cup {"solving"} /\ ~Open(L[RoundAt("receivePing", c)])
    BY <1>4
  <2>2. Joins(L, p, "receivePing", c) /\ c \in Schemes /\ Alike(c, c) /\ config \in Configurations
    BY <1>1, <1>3
  <2> QED
    BY <1>4, <2>1, <2>2, LeavingJoins
<1> DEFINE n == Header(p, r)
           bye == Bye(p, "receivePing", pc[q])
<1>6. Carries(L, p, channel[p], n, n, bye) /\ ReadAt(p, "receivePing", c) = n
      /\ SentAt(q, pc[q], scheme[q]) = n
  <2>1. ReadAt(p, "receivePing", c) = n /\ SentAt(q, pc[q], scheme[q]) = n
    BY <1>1, <1>4, AllIsRead
  <2> QED
    BY <1>3, <2>1 DEF Delivers
<1>7. WaitInFinalize /\ p # Requesting /\ q = Requesting
  BY <1>3 DEF LeavesInOrder
<1> HIDE DEF n, bye
<1>8. bye = "ping" /\ Carries(L, p, Tail(channel[p]), n, n, "nothing")
  BY <1>1, <1>3, <1>6, GoodbyeIsRead
<1>9. pc[q] = "receivePong"
  BY <1>3, <1>7, <1>8 DEF Bye, LeavesInOrder, bye
<1>10. /\ LeavesInOrder(p, "finalized", pc[q]) /\ LeavesInOrder(q, pc[q], "finalized")
       /\ Bye(p, "finalized", pc[q]) = "nothing" /\ Bye(q, pc[q], "finalized") = "pong"
       /\ Bye(q, pc[q], "receivePing") = "nothing"
  BY <1>3, <1>7, <1>9 DEF LeavesInOrder, Bye
<1>11. channel'[p] = Tail(channel[p]) /\ channel'[q] = Append(channel[q], pong)
  BY <1>1, <1>3 DEF ReceivePing, TypeOK
<1>12. pong \in Messages /\ pong.kind = "pong"
  BY DEF Messages
<1> HIDE DEF pong
<1>13. Delivers(L, p, "finalized", c, pc[q], scheme[q], channel'[p])
  BY <1>5, <1>6, <1>8, <1>10, <1>11 DEF Delivers
<1>14. Delivers(L, q, pc[q], scheme[q], "finalized", c, channel'[q])
  <2> DEFINE m == ReadAt(q, pc[q], scheme[q])
             k == SentAt(p, "receivePing", c)
  <2>1. Carries(L, q, channel[q], m, k, "nothing")
    BY <1>3, <1>10 DEF Delivers
  <2> HIDE DEF m, k
  <2>2. Carries(L, q, Append(channel[q], pong), m, k, "pong")
    BY <1>3, <1>12, <2>1, GoodbyeIsSent
  <2> QED
    BY <1>3, <1>5, <1>10, <1>11, <2>2 DEF Delivers, m, k
<1> QED
  BY <1>1, <1>2, <1>3, <1>5, <1>10, <1>13, <1>14, StepAgrees

\* The answer to the ping ends the coupling for the requesting side.
LEMMA ReceivePongAgrees ==
  ASSUME IInv, config' = config, NEW L \in Ledgers, Agree(L), NEW p \in Participants, ReceivePong(p)
  PROVE  Agree(L)'
<1> DEFINE c == scheme[p]
           q == Other(p)
           r == RoundAt("receivePong", c)
<1>1. /\ TypeOK /\ config \in Configurations /\ pc[p] = "receivePong"
      /\ channel[p] # <<>> /\ Head(channel[p]).kind = "pong" /\ Receive(p)
  BY DEF IInv, TypeOK, ReceivePong, At, HasMessage
<1>2. pc' = [pc EXCEPT ![p] = "finalized"] /\ scheme' = [scheme EXCEPT ![p] = c]
  BY <1>1, Unchanged DEF ReceivePong, Goto
<1>3. /\ c \in Schemes /\ Joins(L, p, "receivePong", c) /\ InRound(p, "receivePong", c, L[r])
      /\ q \in Participants /\ q # p /\ Other(q) = p /\ Joins(L, q, pc[q], scheme[q])
      /\ \A x \in Participants : x = p \/ x = q
      /\ channel[p] \in Seq(Messages)
      /\ Requesting \in Participants /\ Alike(c, c)
      /\ LeavesInOrder(p, "receivePong", pc[q]) /\ LeavesInOrder(q, pc[q], "receivePong")
      /\ Delivers(L, p, "receivePong", c, pc[q], scheme[q], channel[p])
      /\ Delivers(L, q, pc[q], scheme[q], "receivePong", c, channel[q])
  BY <1>1, AgreeAt, Others, ConfigTypes DEF Alike
<1>4. ~Open(L[r]) /\ "receivePong" \in Leaving /\ "finalized" \in Leaving
  BY <1>3 DEF InRound, Leaving
<1>5. /\ Joins(L, p, "finalized", c) /\ ReadAt(p, "finalized", c) = ReadAt(p, "receivePong", c)
      /\ SentAt(p, "finalized", c) = SentAt(p, "receivePong", c)
  <2>1. "receivePong" \in Leaving \cup {"solving"} /\ ~Open(L[RoundAt("receivePong", c)])
    BY <1>4
  <2>2. Joins(L, p, "receivePong", c) /\ c \in Schemes /\ Alike(c, c) /\ config \in Configurations
    BY <1>1, <1>3
  <2> QED
    BY <1>4, <2>1, <2>2, LeavingJoins
<1> DEFINE n == Header(p, r)
           bye == Bye(p, "receivePong", pc[q])
<1>6. Carries(L, p, channel[p], n, n, bye) /\ ReadAt(p, "receivePong", c) = n
      /\ SentAt(q, pc[q], scheme[q]) = n
  <2>1. ReadAt(p, "receivePong", c) = n /\ SentAt(q, pc[q], scheme[q]) = n
    BY <1>1, <1>4, AllIsRead
  <2> QED
    BY <1>3, <2>1 DEF Delivers
<1>7. WaitInFinalize /\ p = Requesting /\ q # Requesting
  BY <1>3 DEF LeavesInOrder
<1> HIDE DEF n, bye
<1>8. bye = "pong" /\ Carries(L, p, Tail(channel[p]), n, n, "nothing")
  BY <1>1, <1>3, <1>6, GoodbyeIsRead
<1>9. pc[q] = "finalized"
  BY <1>7, <1>8 DEF Bye, bye
<1>10. /\ LeavesInOrder(p, "finalized", pc[q]) /\ LeavesInOrder(q, pc[q], "finalized")
       /\ Bye(p, "finalized", pc[q]) = "nothing"
       /\ Bye(q, pc[q], "finalized") = Bye(q, pc[q], "receivePong")
  BY <1>3, <1>7, <1>9 DEF LeavesInOrder, Bye
<1>11. channel'[p] = Tail(channel[p]) /\ channel'[q] = channel[q]
  BY <1>1, Reads1
<1>12. Delivers(L, p, "finalized", c, pc[q], scheme[q], channel'[p])
  BY <1>5, <1>6, <1>8, <1>10, <1>11 DEF Delivers
<1>13. Delivers(L, q, pc[q], scheme[q], "finalized", c, channel'[q])
  BY <1>3, <1>5, <1>10, <1>11 DEF Delivers
<1> QED
  BY <1>1, <1>2, <1>3, <1>5, <1>10, <1>12, <1>13, StepAgrees

\* A participant that goes by the ledger does not lose its partner.
LEMMA NobodyIsLost ==
  ASSUME TypeOK, NEW L \in Ledgers, Agree(L), NEW p \in Participants
  PROVE  ~LosePartner(p)
<1>1. Other(p) \in Participants
  BY Others DEF TypeOK
<1>2. pc[Other(p)] # "failed"
  BY <1>1, AgreeAt DEF InRound
<1> QED
  BY <1>2 DEF LosePartner

--------------------------------------------------------------------------------
(* The agreement is kept *)

\* Every step of a participant keeps the agreement, or ends it with an error.
LEMMA AgreementStep ==
  ASSUME IInv, NEW L \in Ledgers, Agree(L), NEW p \in Participants, Participant(p)
  PROVE  Broken' \/ \E K \in Ledgers : Agree(K)'
<1>1. config' = config /\ TypeOK
  BY DEF Participant, IInv
<1>2. IInv'
  BY ParticipantStep
<1>3. CASE Initialize(p, InitialExchange(p))
  BY <1>1, <1>2, <1>3, InitializeAgrees
<1>4. CASE InitSend(p) \/ InitReceive(p)
  BY <1>1, <1>4, InitSendAgrees, InitReceiveAgrees
<1>5. CASE Advance(p, ExchangeFirstData(p))
  BY <1>1, <1>5, AdvanceAgrees
<1>6. CASE FirstSendsData(p) \/ SecondReceivesData(p)
  BY <1>1, <1>2, <1>6, FirstSendsDataAgrees, SecondReceivesDataAgrees
<1>7. CASE SendConvergence(p) \/ SecondSendsData(p)
  BY <1>1, <1>2, <1>7, SendConvergenceAgrees, SecondSendsDataAgrees
<1>8. CASE ReceiveConvergence(p) \/ FirstReceivesData(p)
  BY <1>1, <1>2, <1>8, ReceiveConvergenceAgrees, FirstReceivesDataAgrees
<1>9. CASE ApiCall(p)
  <2>1. ~LosePartner(p)
    BY <1>1, NobodyIsLost
  <2>2. CASE RequiresWritingCheckpoint(p) \/ RequiresReadingCheckpoint(p)
    BY <1>1, <2>2, CheckpointAgrees
  <2>3. CASE Finalize(p)
    BY <1>1, <2>3, FinalizeAgrees
  <2>4. CASE ReceivePing(p)
    BY <1>1, <2>4, ReceivePingAgrees
  <2>5. CASE ReceivePong(p)
    BY <1>1, <2>5, ReceivePongAgrees
  <2> QED
    BY <1>9, <2>1, <2>2, <2>3, <2>4, <2>5 DEF ApiCall
<1>10. CASE InitReceiveTimeWindowSize(p) \/ InitReceiveDataForWindowEnd(p)
  BY <1>1, <1>2, <1>10, InitReceiveTimeWindowSizeAgrees, InitReceiveDataForWindowEndAgrees
<1>11. CASE SendTimeWindowSize(p) \/ ReceiveTimeWindowSize(p)
  BY <1>1, <1>2, <1>11, SendTimeWindowSizeAgrees, ReceiveTimeWindowSizeAgrees
<1> QED
  BY <1>3, <1>4, <1>5, <1>6, <1>7, <1>8, <1>9, <1>10, <1>11 DEF Participant

\* After an error of Second, First sends at most the data of its round, and
\* then waits for an answer until it has the error as well.
LEMMA BrokenStep ==
  ASSUME TypeOK, Broken, NEW p \in Participants, Participant(p)
  PROVE  /\ Broken' /\ p = First /\ UNCHANGED <<config, scheme, written, received>>
         /\ pc'[p] # "solving"
<1>1. /\ First # Second /\ config' = config /\ UNCHANGED Implicit
      /\ Other(First) = Second /\ First \in Participants
  BY ConfigTypes DEF TypeOK, Participant, Implicit, Other, Participants
<1>2. CASE p = Second
  <2>1. pc[p] = "failed"
    BY <1>2 DEF Broken
  <2> QED
    BY <2>1 DEF Participant, Initialize, InitSend, InitSendData, InitReceive, InitReceiveData,
       InitReceiveTimeWindowSize, InitReceiveDataForWindowEnd, SendTimeWindowSize,
       ReceiveTimeWindowSize, Advance, FirstSendsData, SecondReceivesData, SendConvergence, SecondSendsData,
       ReceiveConvergence, FirstReceivesData, ApiCall, RequiresWritingCheckpoint,
       RequiresReadingCheckpoint, Finalize, ReceivePing, ReceivePong, LosePartner, At,
       ExchangeSteps
<1>3. CASE p = First
  <2>1. /\ pc[First] \in {"sendData", "receiveConvergence", "failed"} /\ channel[First] = <<>>
        /\ pc[Second] = "failed" /\ Implicit
    BY DEF Broken
  <2>2. FirstSendsData(First) \/ LosePartner(First)
    BY <1>1, <1>3, <2>1 DEF Participant, Initialize, InitSend, InitSendData, InitReceive,
       InitReceiveData, InitReceiveTimeWindowSize, InitReceiveDataForWindowEnd,
       SendTimeWindowSize, ReceiveTimeWindowSize, Advance, SecondReceivesData, SendConvergence, SecondSendsData,
       ReceiveConvergence, FirstReceivesData, ApiCall, RequiresWritingCheckpoint,
       RequiresReadingCheckpoint, Finalize, ReceivePing, ReceivePong, At, HasMessage
  <2>3. CASE FirstSendsData(First)
    <3>1. /\ SendStored(First, written[First]) /\ UNCHANGED <<scheme, written, received>>
          /\ pc' = [pc EXCEPT ![First] = "receiveConvergence"]
      BY <2>1, <2>3 DEF FirstSendsData, Goto
    <3>2. channel'[First] = <<>>
      BY <1>1, <2>1, <3>1, SendsData
    <3> QED
      BY <1>1, <1>3, <2>1, <3>1, <3>2 DEF Broken, TypeOK
  <2>4. CASE LosePartner(First)
    <3>1. /\ UNCHANGED <<scheme, written, received>> /\ channel' = channel
          /\ pc' = [pc EXCEPT ![First] = "failed"]
      BY <2>4 DEF LosePartner, Goto
    <3> QED
      BY <1>1, <1>3, <2>1, <3>1 DEF Broken, TypeOK
  <2> QED
    BY <2>2, <2>3, <2>4
<1> QED
  BY <1>2, <1>3 DEF Participants

\* The first round is agreed on before anything is sent.
LEMMA InitAgrees ==
  ASSUME Init
  PROVE  \E L \in Ledgers : Agree(L)
<1>1. TypeOK /\ config \in Configurations
  BY InitConsistent DEF IInv, TypeOK
<1>2. PICK L \in Ledgers :
        Kept(L, 1) /\ \A p \in Participants : Tracks(L, p, "constructed", Constructed(p))
  BY <1>1, FirstRound
<1>3. ASSUME NEW p \in Participants
      PROVE  /\ Joins(L, p, pc[p], scheme[p])
             /\ LeavesInOrder(p, pc[p], pc[Other(p)])
             /\ Delivers(L, p, pc[p], scheme[p], pc[Other(p)], scheme[Other(p)], channel[p])
  <2>1. Other(p) \in Participants /\ Other(Other(p)) = p
    BY <1>1, Others
  <2>2. /\ pc[p] = "constructed" /\ scheme[p] = Constructed(p) /\ channel[p] = <<>>
        /\ pc[Other(p)] = "constructed"
    BY <2>1 DEF Init
  <2>3. Joins(L, p, pc[p], scheme[p])
    BY <1>2, <2>2 DEF Joins, SerialPlaces, Told, Receives, SizeAhead
  <2>4. Beginning(p) \in Nat
    <3>1. 0 \in Nat /\ 1 \in Nat /\ 1 >= 1
      OBVIOUS
    <3>2. Data(p, 0) \in Nat /\ Header(p, 1) \in Nat
      BY <3>1, Positions
    <3> QED
      BY <3>2 DEF Beginning
  <2>5. LeavesInOrder(p, pc[p], pc[Other(p)]) /\ Bye(p, pc[p], pc[Other(p)]) = "nothing"
    BY <2>2 DEF LeavesInOrder, Bye
  <2>6. \A d : ReadAt(p, "constructed", d) = Beginning(p)
               /\ SentAt(Other(p), "constructed", d) = Beginning(p)
    BY <2>1 DEF ReadAt, SentAt
  <2>7. Carries(L, p, <<>>, Beginning(p), Beginning(p), "nothing")
    BY <2>4 DEF Carries
  <2> QED
    BY <2>2, <2>3, <2>5, <2>6, <2>7 DEF Delivers
<1> QED
  BY <1>3 DEF Agree

\* What changes nothing keeps the agreement.
LEMMA StutterAgrees ==
  ASSUME NEW L \in Ledgers, Agree(L), UNCHANGED vars
  PROVE  Agree(L)'
<1>1. UNCHANGED <<config, pc, scheme, channel>>
  BY DEF vars
<1> SUFFICES ASSUME NEW p \in Participants
             PROVE  /\ Joins(L, p, pc[p], scheme[p])'
                    /\ LeavesInOrder(p, pc[p], pc[Other(p)])'
                    /\ Delivers(L, p, pc[p], scheme[p], pc[Other(p)], scheme[Other(p)],
                                channel[p])'
  BY DEF Agree, Participants
<1>2. /\ Joins(L, p, pc[p], scheme[p])
      /\ LeavesInOrder(p, pc[p], pc[Other(p)])
      /\ Delivers(L, p, pc[p], scheme[p], pc[Other(p)], scheme[Other(p)], channel[p])
  BY DEF Agree
<1> QED
  BY <1>1, <1>2, JoinsNext

\* In every reachable state there is one ledger of rounds that both participants
\* go by and that all messages on their way tell of, unless an error of Second has
\* ended the coupling.
LEMMA SerialAgreement == Init /\ [][Next]_vars => []Agreement
<1>1. Init => Agreement
  BY InitConsistent, InitAgrees DEF Agreement
<1>2. Agreement /\ [Next]_vars => Agreement'
  <2> SUFFICES ASSUME Agreement, [Next]_vars PROVE Agreement'
    OBVIOUS
  <2>1. CASE UNCHANGED vars
    <3>1. IInv' /\ (Broken => Broken')
      BY <2>1, StutterStep DEF Agreement, Broken, Implicit, vars
    <3>2. ASSUME NEW L \in Ledgers, Agree(L) PROVE \E K \in Ledgers : Agree(K)'
      BY <2>1, <3>2, StutterAgrees
    <3> QED
      BY <3>1, <3>2 DEF Agreement, Ledgers, Entries
  <2>2. ASSUME NEW p \in Participants, Participant(p) PROVE Agreement'
    <3>1. IInv /\ IInv' /\ TypeOK
      BY <2>2, ParticipantStep DEF Agreement, IInv
    <3>2. Broken => Broken'
      BY <2>2, <3>1, BrokenStep
    <3>3. ASSUME NEW L \in Ledgers, Agree(L)
          PROVE  Broken' \/ \E K \in Ledgers : Agree(K)'
      BY <2>2, <3>1, <3>3, AgreementStep
    <3> QED
      BY <3>1, <3>2, <3>3 DEF Agreement, Ledgers, Entries
  <2> QED
    BY <2>1, <2>2 DEF Next
<1> QED
  BY <1>1, <1>2, PTL


--------------------------------------------------------------------------------
(* What the agreement gives *)

WaitsForData == {"receiveData", "initReceiveData",
                 "initReceiveDataForWindowEnd", "receiveDataForWindowEnd"}
WaitsForHeader == {"receiveTimeWindowSize", "initReceiveTimeWindowSize", "receiveConvergence"}

\* The round whose messages p waits for at a place
Due(p, place, c) ==
  IF p = Second /\ place \in Receives THEN RoundAt(place, c) + 1 ELSE RoundAt(place, c)

\* Whoever waits has read all that comes before the message it waits for.
LEMMA WaitsWhere ==
  ASSUME config \in Configurations, NEW L, NEW p \in Participants, NEW place, NEW c,
         Joins(L, p, place, c), NEW j, j = Due(p, place, c)
  PROVE  /\ place \in WaitsForData =>
              IF place = "initReceiveData" THEN j = 1 /\ ReadAt(p, place, c) = Data(p, 0)
              ELSE ReadAt(p, place, c) = Data(p, j)
         /\ place \in WaitsForHeader =>
              /\ HasHeader(p) /\ ReadAt(p, place, c) = Header(p, j)
              /\ p = First <=> place = "receiveConvergence"
         /\ j \in Nat \ {0}
<1>1. /\ First # Second /\ p \in {First, Second} /\ RoundAt(place, c) \in Nat \ {0}
      /\ place \in SerialPlaces(p)
  BY ConfigTypes DEF Participants, Joins, Tracks
<1>2. j \in Nat \ {0}
  BY <1>1 DEF Due
<1>3. ASSUME place \in WaitsForData
      PROVE  IF place = "initReceiveData" THEN j = 1 /\ ReadAt(p, place, c) = Data(p, 0)
             ELSE ReadAt(p, place, c) = Data(p, j)
  <2>1. place = "initReceiveData" => RoundAt(place, c) = 1
    BY DEF Joins, Tracks, InRound, Early, InitializeSteps
  <2>2. p = First => place \in {"receiveData", "initReceiveData"}
    BY <1>1, <1>3 DEF SerialPlaces, WaitsForData, Leaving
  <2> QED
    BY <1>1, <1>3, <2>1, <2>2 DEF ReadAt, Due, WaitsForData, Receives
<1>4. ASSUME place \in WaitsForHeader
      PROVE  /\ HasHeader(p) /\ ReadAt(p, place, c) = Header(p, j)
             /\ p = First <=> place = "receiveConvergence"
  <2>1. CASE p = First
    <3>1. place = "receiveConvergence" /\ Implicit
      BY <1>1, <1>4, <2>1 DEF SerialPlaces, WaitsForHeader, Leaving
    <3> QED
      BY <1>1, <2>1, <3>1, SerialHeaders DEF ReadAt, Due
  <2>2. CASE p = Second
    <3>1. /\ place \in {"initReceiveTimeWindowSize", "receiveTimeWindowSize"}
          /\ TimeWindowSize = Undefined
      BY <1>1, <1>4, <2>2 DEF SerialPlaces, WaitsForHeader, Leaving
    <3> QED
      BY <1>1, <2>2, <3>1, SerialHeaders DEF ReadAt, Due, Receives
  <2> QED
    BY <1>1, <2>1, <2>2
<1> QED
  BY <1>2, <1>3, <1>4

\* If the other has left the coupling, it did so after the round that p waits for.
LEMMA DueBeforeLast ==
  ASSUME TypeOK, NEW L \in Ledgers, Agree(L), NEW p \in Participants,
         pc[p] \in WaitsForData \cup WaitsForHeader, NEW q, q = Other(p), pc[q] \in Leaving
  PROVE  Due(p, pc[p], scheme[p]) < RoundAt(pc[q], scheme[q])
<1> DEFINE r == RoundAt(pc[p], scheme[p])
           s == RoundAt(pc[q], scheme[q])
           c == scheme[p]
<1>1. /\ config \in Configurations /\ q \in Participants
      /\ Tracks(L, p, pc[p], c) /\ Tracks(L, q, pc[q], scheme[q])
      /\ Joins(L, p, pc[p], c) /\ c \in Schemes /\ r \in Nat \ {0} /\ s \in Nat \ {0}
      /\ L[r] \in Entries /\ Proper(L[r]) /\ InRound(p, pc[p], c, L[r])
      /\ InRound(q, pc[q], scheme[q], L[s])
  BY AgreeAt, Others DEF TypeOK
<1>2. pc[p] \in ExchangeSteps \cup Early
  BY DEF WaitsForData, WaitsForHeader, ExchangeSteps, Early, InitializeSteps
<1>3. r < s
  BY <1>1, <1>2, LeftLast
<1>4. CASE p = Second /\ pc[p] \in Receives
  <2>1. Kept(L, s) /\ ~Open(L[s])
    BY <1>1 DEF Tracks, InRound
  <2>2. r \in 1 .. s - 1 /\ r + 1 \in Nat
    BY <1>1, <1>3
  <2>3. Follows(L[r], L[r + 1]) /\ L[r + 1] \in Entries
    BY <2>1, <2>2 DEF Kept, Ledgers
  <2>4. WantsData(c) /\ (Complete(c) <=> Done(L[r])) /\ pc[p] \in ExchangeSteps
    <3>1. pc[p] \in Told(p) /\ pc[p] \in ExchangeSteps
      BY <1>1, <1>4, ConfigTypes DEF Told, Receives, ExchangeSteps
    <3>2. WantsData(c)
      BY <1>1, <1>4 DEF Joins
    <3>3. Implicit => c.hasConverged = L[r].converged
      BY <1>1, <3>1 DEF Joins
    <3> QED
      BY <3>1, <3>2, <3>3 DEF Complete, Done
  <2> HIDE DEF c, r, s
  <2>5. Open(L[r + 1])
    BY <1>1, <1>4, <2>3, <2>4, WantsDataIsOpen
  <2>6. r + 1 # s
    BY <2>1, <2>5
  <2> QED
    BY <1>1, <1>3, <1>4, <2>6 DEF Due, r, s, c
<1>5. CASE ~(p = Second /\ pc[p] \in Receives)
  BY <1>3, <1>5 DEF Due
<1> QED
  BY <1>4, <1>5

\* Whoever waits in an exchange has not read all that is sent to it, once there
\* is something.
LEMMA WaitsForMessage ==
  ASSUME TypeOK, NEW L \in Ledgers, Agree(L), NEW p \in Participants, channel[p] # <<>>,
         pc[p] \in WaitsForData \cup WaitsForHeader, pc[p] \in WaitsForData => HasData(p)
  PROVE  Fits(L, p, ReadAt(p, pc[p], scheme[p]), Head(channel[p]))
<1> DEFINE q == Other(p)
           s == RoundAt(pc[q], scheme[q])
           n == ReadAt(p, pc[p], scheme[p])
           m == SentAt(q, pc[q], scheme[q])
           j == Due(p, pc[p], scheme[p])
<1>1. /\ config \in Configurations /\ q \in Participants /\ Other(q) = p
      /\ Joins(L, p, pc[p], scheme[p]) /\ Joins(L, q, pc[q], scheme[q])
      /\ s \in Nat \ {0} /\ channel[p] \in Seq(Messages)
  BY Others, AgreeAt DEF TypeOK
<1>2. pc[p] \notin Leaving /\ pc[p] # "receivePong"
  BY DEF WaitsForData, WaitsForHeader, Leaving
<1>3. Carries(L, p, channel[p], n, m, Bye(p, pc[p], pc[q]))
  BY <1>1, <1>2, Streams
<1>4. /\ pc[p] \in WaitsForData =>
           IF pc[p] = "initReceiveData" THEN j = 1 /\ n = Data(p, 0) ELSE n = Data(p, j)
      /\ pc[p] \in WaitsForHeader => HasHeader(p) /\ n = Header(p, j)
      /\ j \in Nat \ {0}
  BY <1>1, WaitsWhere
<1>5. n < m
  <2>1. CASE Bye(p, pc[p], pc[q]) = "nothing"
    <3>1. Len(channel[p]) = m - n /\ m \in Nat /\ n \in Nat /\ n <= m
      BY <1>3, <2>1 DEF Carries
    <3>2. Len(channel[p]) # 0
      BY <1>1
    <3> QED
      BY <3>1, <3>2
  <2>2. CASE Bye(p, pc[p], pc[q]) # "nothing"
    <3>1. pc[q] \in Leaving
      BY <1>2, <2>2 DEF Bye, Leaving
    <3>2. j < s
      BY <3>1, DueBeforeLast
    <3>3. m = Header(p, s)
      BY <1>1, <3>1, Bounds
    <3> HIDE DEF j, s, n, m, q
    <3>4. Header(p, j + 1) <= Header(p, s)
      BY <1>1, <1>4, <3>2, PositionsInOrder
    <3>5. /\ Header(p, j + 1) = Data(p, j) + (IF HasData(p) THEN 1 ELSE 0)
          /\ Data(p, j) = Header(p, j) + (IF HasHeader(p) THEN 1 ELSE 0)
          /\ Data(p, j) \in Nat /\ Header(p, j) \in Nat /\ Header(p, s) \in Nat
      <4>1. j \in Nat /\ j >= 1 /\ s \in Nat /\ s >= 1
        BY <1>1, <1>4
      <4> QED
        BY <4>1, Positions
    <3>6. /\ Header(p, 1) = Data(p, 0) + (IF HasData(p) THEN 1 ELSE 0) /\ Data(p, 0) \in Nat
      <4>1. 0 \in Nat /\ 0 + 1 = 1
        OBVIOUS
      <4> QED
        BY <4>1, Positions
    <3>7. CASE pc[p] \in WaitsForData
      BY <1>4, <3>3, <3>4, <3>5, <3>6, <3>7
    <3>8. CASE pc[p] \in WaitsForHeader
      BY <1>4, <3>3, <3>4, <3>5, <3>8
    <3> QED
      BY <3>7, <3>8
  <2> QED
    BY <2>1, <2>2
<1> QED
  BY <1>1, <1>3, <1>5, NextMessage

\* What comes next is what the receive at hand is meant for.
LEMMA AgreedExpectedMessage ==
  ASSUME Agreement
  PROVE  ExpectedMessage
<1>1. TypeOK /\ config \in Configurations /\ First # Second
  BY ConfigTypes DEF Agreement, IInv, TypeOK
<1> SUFFICES ASSUME NEW p \in Participants, channel[p] # <<>>, Awaits(pc[p]) # "nothing",
                    Awaits(pc[p]) = "data" => HasData(p)
             PROVE  Head(channel[p]).kind = Awaits(pc[p])
  BY DEF ExpectedMessage, HasData
<1>2. CASE Broken
  <2>1. p = Second
    BY <1>2 DEF Broken, Participants
  <2>2. pc[p] = "failed"
    BY <1>2, <2>1 DEF Broken
  <2> QED
    BY <2>2 DEF Awaits
<1>3. ASSUME NEW L \in Ledgers, Agree(L)
      PROVE  Head(channel[p]).kind = Awaits(pc[p])
  <2> DEFINE q == Other(p)
             r == RoundAt(pc[p], scheme[p])
  <2>1. /\ q \in Participants /\ Other(q) = p /\ channel[p] \in Seq(Messages)
        /\ Joins(L, p, pc[p], scheme[p]) /\ Tracks(L, p, pc[p], scheme[p])
        /\ r \in Nat \ {0} /\ LeavesInOrder(p, pc[p], pc[q])
        /\ Delivers(L, p, pc[p], scheme[p], pc[q], scheme[q], channel[p])
    BY <1>1, <1>3, Others, AgreeAt
  <2>2. pc[p] \in WaitsForData \cup WaitsForHeader \cup {"receivePing", "receivePong"}
    BY DEF Awaits, WaitsForData, WaitsForHeader
  <2>3. CASE pc[p] \in WaitsForData
    <3>1. HasData(p) /\ Awaits(pc[p]) = "data"
      BY <2>3 DEF Awaits, WaitsForData
    <3>2. Fits(L, p, ReadAt(p, pc[p], scheme[p]), Head(channel[p]))
      BY <1>1, <1>3, <2>3, <3>1, WaitsForMessage
    <3>3. \E k \in Nat : ReadAt(p, pc[p], scheme[p]) = Data(p, k)
      BY <1>1, <2>1, <2>3, WaitsWhere
    <3> QED
      BY <3>1, <3>2, <3>3 DEF Fits
  <2>4. CASE pc[p] \in WaitsForHeader
    <3>1. PICK k \in Nat \ {0} :
            HasHeader(p) /\ ReadAt(p, pc[p], scheme[p]) = Header(p, k)
      BY <1>1, <2>1, <2>4, WaitsWhere
    <3>2. Awaits(pc[p]) # "data"
      BY <2>4 DEF Awaits, WaitsForHeader
    <3>3. Fits(L, p, ReadAt(p, pc[p], scheme[p]), Head(channel[p]))
      <4>1. pc[p] \notin WaitsForData
        BY <2>4 DEF WaitsForData, WaitsForHeader
      <4> QED
        BY <1>1, <1>3, <2>4, <4>1, WaitsForMessage
    <3>4. Tells(p, L[k], Head(channel[p]))
      BY <3>1, <3>3 DEF Fits
    <3>5. Head(channel[p]).kind = IF p = First THEN "convergence" ELSE "size"
      BY <1>1, <3>4 DEF Tells, Participants
    <3>6. p = First <=> pc[p] = "receiveConvergence"
      BY <1>1, <2>1, <2>4, WaitsWhere
    <3> QED
      BY <2>4, <3>5, <3>6 DEF Awaits, WaitsForHeader
  <2>5. CASE pc[p] \in {"receivePing", "receivePong"}
    <3>1. ~Open(L[r]) /\ pc[p] \in Leaving
      BY <2>1, <2>5 DEF Tracks, InRound, Leaving
    <3>2. /\ ReadAt(p, pc[p], scheme[p]) = Header(p, r)
          /\ SentAt(q, pc[q], scheme[q]) = Header(p, r)
      BY <1>1, <1>3, <3>1, AllIsRead
    <3>3. Carries(L, p, channel[p], Header(p, r), Header(p, r), Bye(p, pc[p], pc[q]))
      BY <2>1, <3>2 DEF Delivers
    <3>4. Head(channel[p]).kind = Bye(p, pc[p], pc[q]) /\ Bye(p, pc[p], pc[q]) # "nothing"
      BY <2>1, <3>3, GoodbyeIsRead
    <3> QED
      BY <2>1, <2>5, <3>4 DEF LeavesInOrder, Bye, Awaits
  <2> QED
    BY <2>2, <2>3, <2>4, <2>5
<1> QED
  BY <1>2, <1>3 DEF Agreement

\* Who is finalized has done the windows of the last round and no more.
LEMMA AgreedEndTogether ==
  ASSUME Agreement
  PROVE  EndTogether
<1> SUFFICES ASSUME \A p \in Participants : pc[p] = "finalized"
             PROVE  /\ scheme[First].timeWindows = scheme[Second].timeWindows
                    /\ Time!TimeOf(scheme[First].time) = Time!TimeOf(scheme[Second].time)
                    /\ \A p \in Participants : channel[p] = <<>>
  BY DEF EndTogether
<1>1. /\ TypeOK /\ config \in Configurations /\ First \in Participants /\ Second \in Participants
      /\ First # Second
  BY ConfigTypes DEF Agreement, IInv, TypeOK, Participants
<1>2. PICK L \in Ledgers : Agree(L)
  BY <1>1 DEF Agreement, Broken
<1> DEFINE r(p) == RoundAt(pc[p], scheme[p])
<1>3. "finalized" \in Leaving /\ "finalized" \notin ExchangeSteps
  BY DEF Leaving, ExchangeSteps
<1>4. ASSUME NEW p \in Participants
      PROVE  /\ Tracks(L, p, pc[p], scheme[p]) /\ r(p) \in Nat \ {0} /\ ~Open(L[r(p)])
             /\ scheme[p].time.progress = 0 /\ scheme[p].timeWindows = L[r(p)].window
             /\ Time!TimeOf(scheme[p].time) = L[r(p)].start /\ channel[p] = <<>>
  <2>1. /\ Other(p) \in Participants /\ Tracks(L, p, pc[p], scheme[p]) /\ r(p) \in Nat \ {0}
        /\ scheme[p] \in Schemes /\ channel[p] \in Seq(Messages)
        /\ pc[p] = "finalized" /\ pc[Other(p)] = "finalized"
        /\ Delivers(L, p, pc[p], scheme[p], pc[Other(p)], scheme[Other(p)], channel[p])
    BY <1>1, <1>2, AgreeAt
  <2>2. /\ ~Open(L[r(p)]) /\ scheme[p].time.progress = 0
        /\ scheme[p].timeWindows = L[r(p)].window /\ scheme[p].time.start = L[r(p)].start
    BY <1>3, <2>1 DEF Tracks, InRound, WindowAt
  <2>3. Time!TimeOf(scheme[p].time) = L[r(p)].start
    BY <2>1, <2>2 DEF Time!TimeOf, Schemes, Time!TimeHandlers
  <2>4. /\ ReadAt(p, pc[p], scheme[p]) = Header(p, r(p))
        /\ SentAt(Other(p), pc[Other(p)], scheme[Other(p)]) = Header(p, r(p))
    BY <1>1, <1>2, <1>3, <2>1, <2>2, AllIsRead
  <2>5. Bye(p, pc[p], pc[Other(p)]) = "nothing"
    BY <2>1 DEF Bye
  <2>6. channel[p] = <<>>
    BY <2>1, <2>4, <2>5, GoodbyeIsRead DEF Delivers
  <2> QED
    BY <2>1, <2>2, <2>3, <2>6
<1>5. r(First) <= r(Second) /\ r(Second) <= r(First)
  BY <1>1, <1>4, NobodyIsAhead
<1>6. r(First) = r(Second)
  BY <1>1, <1>4, <1>5
<1> QED
  BY <1>1, <1>4, <1>6

\* The step of a participant that ends its round is its secondExchange().
LEMMA FinishStep ==
  ASSUME TypeOK, NEW L \in Ledgers, Agree(L), NEW p \in Participants, Participant(p),
         NEW x \in Participants, pc[x] \in ExchangeSteps, pc'[x] = "solving"
  PROVE  /\ x = p /\ pc[p] \in Told(p) /\ scheme'[Other(p)] = scheme[Other(p)]
         /\ p = First => CanReceiveData(p)
         /\ \E c \in Schemes : Alike(scheme[p], c) /\ scheme'[p] = SecondExchange(c)
<1>1. /\ scheme[p] \in Schemes /\ Other(p) \in Participants /\ Other(p) # p
      /\ config \in Configurations /\ "solving" \notin ExchangeSteps /\ First # Second
      /\ \A y \in Participants : y = p \/ y = Other(p)
  BY Others, Types, ConfigTypes DEF TypeOK, ExchangeSteps
<1>2. \E place : pc' = [pc EXCEPT ![p] = place]
  BY Unchanged DEF Participant, Initialize, InitSend, InitSendData, InitReceive, InitReceiveData,
     InitReceiveTimeWindowSize, InitReceiveDataForWindowEnd, SendTimeWindowSize,
     ReceiveTimeWindowSize, Advance, FirstSendsData, SecondReceivesData, SendConvergence, SecondSendsData,
     ReceiveConvergence, FirstReceivesData, FinishAdvance, ApiCall, RequiresWritingCheckpoint,
     RequiresReadingCheckpoint, Finalize, CloseCommunicationChannels, ReceivePing, ReceivePong,
     LosePartner, Goto
<1>3. x = p /\ pc[p] \in ExchangeSteps /\ pc'[p] = "solving"
  BY <1>1, <1>2 DEF TypeOK
<1>4. SecondSendsData(p) \/ SecondReceivesData(p) \/ FirstReceivesData(p)
  <2>1. pc[p] \notin {"constructed", "initSendData", "initReceiveData", "solving",
                      "initReceiveTimeWindowSize", "initReceiveDataForWindowEnd",
                      "receivePing", "receivePong"}
    BY <1>3 DEF ExchangeSteps
  <2>2. ~(Initialize(p, InitialExchange(p)) \/ InitSend(p) \/ InitReceive(p)
          \/ Advance(p, ExchangeFirstData(p)) \/ RequiresWritingCheckpoint(p)
          \/ RequiresReadingCheckpoint(p) \/ Finalize(p) \/ ReceivePing(p) \/ ReceivePong(p)
          \/ InitReceiveTimeWindowSize(p) \/ InitReceiveDataForWindowEnd(p))
    BY <2>1 DEF InitReceiveTimeWindowSize, InitReceiveDataForWindowEnd,
       Initialize, InitSend, InitSendData, InitReceive, InitReceiveData, Advance,
       RequiresWritingCheckpoint, RequiresReadingCheckpoint, Finalize, ReceivePing, ReceivePong, At
  <2>3. ~(FirstSendsData(p) \/ SendConvergence(p) \/ ReceiveConvergence(p) \/ LosePartner(p)
          \/ SendTimeWindowSize(p) \/ ReceiveTimeWindowSize(p))
    BY <1>3 DEF FirstSendsData, SendConvergence, ReceiveConvergence, SendTimeWindowSize,
       ReceiveTimeWindowSize, LosePartner, Goto, TypeOK
  <2> QED
    BY <2>2, <2>3 DEF Participant, ApiCall
<1>5. CASE SecondSendsData(p)
  <2>1. p = Second /\ pc[p] = "sendData"
    BY <1>5 DEF SecondSendsData, At
  <2> DEFINE to == IF FirstParticipantSetsTimeWindowSize THEN "receiveTimeWindowSize"
                   ELSE IF Implicit /\ ~scheme[p].hasConverged THEN "receiveData"
                   ELSE "receiveDataForWindowEnd"
  <2>3. ~WantsData(scheme[p])
    <3>1. ASSUME WantsData(scheme[p]) PROVE pc' = [pc EXCEPT ![p] = to]
      BY <1>5, <3>1 DEF SecondSendsData, Goto
    <3>2. to # "solving"
      OBVIOUS
    <3> HIDE DEF to
    <3> QED
      BY <1>3, <3>1, <3>2 DEF TypeOK
  <2>4. scheme' = [scheme EXCEPT ![p] = SecondExchange(scheme[p])]
    BY <1>5, <2>3 DEF SecondSendsData, FinishAdvance
  <2>2. Alike(scheme[p], scheme[p])
    BY DEF Alike
  <2> QED
    BY <1>1, <1>3, <2>1, <2>2, <2>4 DEF Told, TypeOK
<1>6. CASE FirstReceivesData(p)
  <2> DEFINE c == NotifyDataHasBeenReceived(scheme[p])
  <2>1. /\ p = First /\ pc[p] = "receiveData" /\ CanReceiveData(p)
        /\ scheme' = [scheme EXCEPT ![p] = SecondExchange(c)]
    BY <1>6 DEF FirstReceivesData, At, FinishAdvance
  <2>2. c \in Schemes /\ Alike(scheme[p], c)
    BY <1>1, AlikeMembers, NotifyMembers
  <2> HIDE DEF c
  <2> QED
    BY <1>1, <1>3, <2>1, <2>2 DEF Told, TypeOK
<1>7. CASE SecondReceivesData(p)
  <2> DEFINE c == NotifyDataHasBeenReceived(scheme[p])
  <2>1. /\ p = Second /\ pc[p] \in {"receiveData", "receiveDataForWindowEnd"}
        /\ scheme' = [scheme EXCEPT ![p] = SecondExchange(c)]
    BY <1>7 DEF SecondReceivesData, At, FinishAdvance
  <2>2. c \in Schemes /\ Alike(scheme[p], c)
    BY <1>1, AlikeMembers, NotifyMembers
  <2> HIDE DEF c
  <2> QED
    BY <1>1, <1>3, <2>1, <2>2 DEF Told, Receives, TypeOK
<1> QED
  BY <1>4, <1>5, <1>6, <1>7

\* Who ends its round has done all of it, with the verdict of the ledger.
LEMMA FinishKnows ==
  ASSUME TypeOK, NEW L \in Ledgers, Agree(L), NEW p \in Participants, pc[p] \in Told(p),
         NEW c, Alike(scheme[p], c), NEW e, e = L[RoundAt(pc[p], scheme[p])]
  PROVE  /\ pc[p] \in ExchangeSteps /\ e \in Entries /\ Proper(e)
         /\ InRound(p, pc[p], c, e) /\ RoundAt(pc[p], c) = RoundAt(pc[p], scheme[p])
         /\ Complete(c) <=> Done(e)
         /\ Implicit => Judged(e) /\ c.hasConverged = e.converged
<1>1. /\ Joins(L, p, pc[p], scheme[p]) /\ InRound(p, pc[p], scheme[p], e)
      /\ e \in Entries /\ Proper(e)
  BY AgreeAt
<1>2. InRound(p, pc[p], c, e) /\ RoundAt(pc[p], c) = RoundAt(pc[p], scheme[p])
  BY <1>1, InRoundAlike
<1>3. Implicit => Judged(e) /\ c.hasConverged = e.converged
  BY <1>1 DEF Joins, Alike
<1>4. Complete(c) <=> Done(e)
  BY <1>3 DEF Complete, Done
<1>5. pc[p] \in ExchangeSteps
  BY DEF Told, Receives, ExchangeSteps
<1> QED
  BY <1>1, <1>2, <1>3, <1>4, <1>5

\* A time window of an implicit scheme is complete within the iteration limits.
LEMMA AgreedIterations ==
  ASSUME Agreement, [Next]_vars
  PROVE  \A p \in Participants :
           Implicit /\ pc[p] \in ExchangeSteps /\ pc'[p] = "solving"
                    /\ scheme'[p].isTimeWindowComplete =>
             /\ scheme[p].iterations >= MinIterations
             /\ MaxIterations # Undefined => scheme[p].iterations <= MaxIterations
<1> SUFFICES ASSUME NEW p \in Participants, Implicit, pc[p] \in ExchangeSteps,
                    pc'[p] = "solving", scheme'[p].isTimeWindowComplete
             PROVE  /\ scheme[p].iterations >= MinIterations
                    /\ MaxIterations # Undefined => scheme[p].iterations <= MaxIterations
  OBVIOUS
<1>1. TypeOK /\ "solving" \notin ExchangeSteps
  BY DEF Agreement, IInv, ExchangeSteps
<1>2. PICK x \in Participants : Participant(x)
  BY <1>1 DEF Next, vars
<1>3. ~Broken
  <2> SUFFICES ASSUME Broken PROVE FALSE
    OBVIOUS
  <2>1. pc'[x] # "solving" /\ x = First /\ Broken'
    BY <1>1, <1>2, BrokenStep
  <2> QED
    BY <2>1 DEF Broken, Participants
<1>4. PICK L \in Ledgers : Agree(L)
  BY <1>3 DEF Agreement
<1>5. p = x /\ pc[p] \in Told(p) /\ \E c \in Schemes : Alike(scheme[p], c) /\ scheme'[p] = SecondExchange(c)
  BY <1>1, <1>2, <1>4, FinishStep
<1>6. PICK c \in Schemes : Alike(scheme[p], c) /\ scheme'[p] = SecondExchange(c)
  BY <1>5
<1> DEFINE e == L[RoundAt(pc[p], scheme[p])]
<1>7. /\ InRound(p, pc[p], c, e) /\ Judged(e) /\ c.hasConverged = e.converged /\ Proper(e)
  BY <1>1, <1>4, <1>5, <1>6, FinishKnows
<1>8. Complete(c)
  BY <1>6, SecondExchangeMembers
<1>9. e.converged /\ e.iteration = scheme[p].iterations
  BY <1>6, <1>7, <1>8 DEF Complete, InRound, Alike
<1> QED
  BY <1>7, <1>9 DEF Judged, Proper

\* Where a participant is, before a step
LEMMA PositionBefore ==
  ASSUME TypeOK, NEW L \in Ledgers, Agree(L), NEW p \in Participants,
         NEW r, r = RoundAt(pc[p], scheme[p])
  PROVE  Position(p) = [round |-> r, window |-> L[r].window]
         /\ WindowAt(pc[p], scheme[p]) = L[r].window
<1>1. /\ scheme[p] \in Schemes /\ L[r] \in Entries /\ Proper(L[r])
      /\ InRound(p, pc[p], scheme[p], L[r]) /\ config \in Configurations
  BY AgreeAt DEF TypeOK
<1>2. PositionOf(scheme[p]) = [round |-> r, window |-> WindowAt(pc[p], scheme[p])]
  BY <1>1, PositionInRound
<1>3. Position(p) = PositionOf(scheme[p])
  BY DEF Position, PositionOf
<1> QED
  BY <1>1, <1>2, <1>3 DEF InRound

\* Where it is after the step
LEMMA PositionAfter ==
  ASSUME Agreement', config' = config, NEW p \in Participants, pc'[p] # "failed",
         pc'[Second] # "failed"
  PROVE  Position(p)' = [round |-> RoundAt(pc'[p], scheme'[p]),
                         window |-> WindowAt(pc'[p], scheme'[p])]
<1>1. scheme'[p] \in Schemes /\ config \in Configurations /\ ~Broken'
  BY DEF Agreement, IInv, TypeOK, Broken
<1>2. PICK K \in Ledgers : Agree(K)'
  BY <1>1 DEF Agreement, Ledgers, Entries
<1>3. Joins(K, p, pc[p], scheme[p])'
  BY <1>2 DEF Agree, Participants
<1>4. Joins(K, p, pc'[p], scheme'[p])
  BY <1>3, JoinsNext
<1> DEFINE e == K[RoundAt(pc'[p], scheme'[p])]
<1>5. InRound(p, pc'[p], scheme'[p], e) /\ Proper(e) /\ e \in Entries
  BY <1>4 DEF Joins, Tracks, Kept, Ledgers
<1> HIDE DEF e
<1>6. PositionOf(scheme'[p]) = [round |-> RoundAt(pc'[p], scheme'[p]),
                                window |-> WindowAt(pc'[p], scheme'[p])]
  BY <1>1, <1>5, PositionInRound
<1> QED
  BY <1>6, PositionNext

\* Who ends a round and reads data ends none that the other has not come to.
LEMMA NotAhead ==
  ASSUME TypeOK, NEW L \in Ledgers, Agree(L), NEW p \in Participants, pc[p] \in Told(p),
         p = First => CanReceiveData(p), HasData(p), NEW q, q = Other(p),
         NEW r, r = RoundAt(pc[p], scheme[p]), NEW s, s = RoundAt(pc[q], scheme[q])
  PROVE  r <= s
<1> DEFINE n == ReadAt(p, pc[p], scheme[p])
           m == SentAt(q, pc[q], scheme[q])
<1>1. /\ config \in Configurations /\ q \in Participants /\ Other(q) = p /\ First # Second
      /\ Joins(L, q, pc[q], scheme[q]) /\ r \in Nat \ {0} /\ s \in Nat \ {0}
      /\ channel[p] \in Seq(Messages) /\ pc[p] \notin Leaving
  BY Others, AgreeAt, ConfigTypes DEF TypeOK, Told, Receives, Leaving
<1>2. Carries(L, p, channel[p], n, m, Bye(p, pc[p], pc[q]))
  BY <1>1, Streams
<1>3. m <= Header(p, s + 1) /\ m \in Nat
  BY <1>1, Bounds
<1>4. /\ Header(p, r + 1) \in Nat /\ Header(p, s + 1) \in Nat
      /\ Header(p, r + 1) = Data(p, r) + 1 /\ Data(p, r) \in Nat
  <2>1. r + 1 \in Nat /\ r + 1 >= 1 /\ s + 1 \in Nat /\ s + 1 >= 1 /\ r \in Nat
    BY <1>1
  <2> QED
    BY <2>1, Positions
<1>5. Header(p, r + 1) <= m
  <2>1. CASE p = Second
    <3>1. n = Header(p, r + 1) \/ n = Data(p, r + 1)
      BY <1>1, <2>1 DEF ReadAt, Told, Receives
    <3>2. Header(p, r + 1) <= Data(p, r + 1) /\ Data(p, r + 1) \in Nat
      <4>1. r + 1 \in Nat
        BY <1>1
      <4>2. Data(p, r + 1) = Header(p, r + 1) + (IF HasHeader(p) THEN 1 ELSE 0)
        BY <4>1, Positions
      <4> QED
        BY <1>4, <4>2
    <3>3. n <= m /\ n \in Nat
      BY <1>2 DEF Carries
    <3> QED
      BY <1>3, <1>4, <3>1, <3>2, <3>3
  <2>2. CASE p = First
    <3>1. n = Data(p, r)
      BY <1>1, <2>2 DEF ReadAt, Told
    <3>2. channel[p] # <<>> /\ Head(channel[p]).kind = "data"
      BY <2>2 DEF CanReceiveData, HasMessage, HasData
    <3>3. n < m
      BY <1>1, <1>2, <3>2, NotAllRead
    <3> QED
      BY <1>3, <1>4, <3>1, <3>3
  <2> QED
    BY <2>1, <2>2 DEF Participants
<1>6. Header(p, r + 1) <= Header(p, s + 1)
  BY <1>3, <1>4, <1>5
<1>7. r + 1 <= s + 1
  BY <1>1, <1>6, EarlierRound
<1> QED
  BY <1>1, <1>7

\* All other steps leave the participant in its round and its window.
LEMMA GoesOn ==
  ASSUME TypeOK, NEW L \in Ledgers, Agree(L), NEW p \in Participants, Participant(p),
         ~(pc[p] \in ExchangeSteps /\ pc'[p] = "solving")
  PROVE  \/ scheme' = scheme
         \/ /\ scheme'[Other(p)] = scheme[Other(p)] /\ pc'[p] # "failed"
            /\ pc'[Other(p)] = pc[Other(p)]
            /\ RoundAt(pc'[p], scheme'[p]) = RoundAt(pc[p], scheme[p])
            /\ WindowAt(pc'[p], scheme'[p]) = WindowAt(pc[p], scheme[p])
<1> DEFINE Stays(place, c) ==
             /\ pc' = [pc EXCEPT ![p] = place] /\ scheme' = [scheme EXCEPT ![p] = c]
             /\ place # "failed" /\ (place \in ExchangeSteps <=> pc[p] \in ExchangeSteps)
             /\ c.timeWindows = scheme[p].timeWindows
             /\ c.totalIterations = scheme[p].totalIterations
<1>1. /\ scheme[p] \in Schemes /\ Other(p) \in Participants /\ Other(p) # p
      /\ config \in Configurations
  BY Others, Types DEF TypeOK
<1>2. ASSUME NEW place, NEW c, Stays(place, c)
      PROVE  /\ scheme'[Other(p)] = scheme[Other(p)] /\ pc'[p] # "failed"
             /\ pc'[Other(p)] = pc[Other(p)]
             /\ RoundAt(pc'[p], scheme'[p]) = RoundAt(pc[p], scheme[p])
             /\ WindowAt(pc'[p], scheme'[p]) = WindowAt(pc[p], scheme[p])
  <2>1. /\ scheme'[p] = c /\ pc'[p] = place /\ scheme'[Other(p)] = scheme[Other(p)]
        /\ pc'[Other(p)] = pc[Other(p)]
    BY <1>1, <1>2 DEF TypeOK
  <2> QED
    BY <1>2, <2>1 DEF RoundAt, WindowAt
<1>3. CASE Initialize(p, InitialExchange(p))
  <2> DEFINE c == [scheme[p] EXCEPT
               !.fulfilledActions = @ \cup scheme[p].requiredActions,
               !.requiredActions = @ \cup (IF Implicit THEN {"WriteCheckpoint"} ELSE {})]
  <2>1. /\ pc[p] = "constructed" /\ scheme' = [scheme EXCEPT ![p] = c]
        /\ pc' = [pc EXCEPT ![p] = InitialExchange(p)]
    BY <1>1, <1>3 DEF Initialize, Goto, TypeOK
  <2>2. /\ c.timeWindows = scheme[p].timeWindows
        /\ c.totalIterations = scheme[p].totalIterations
    BY <1>1 DEF Schemes
  <2>3. /\ InitialExchange(p) # "failed" /\ InitialExchange(p) \notin ExchangeSteps
        /\ pc[p] \notin ExchangeSteps
    BY <2>1 DEF InitialExchange, ExchangeSteps
  <2> QED
    BY <1>2, <2>1, <2>2, <2>3
<1>4. CASE InitReceive(p)
  <2>1. PICK c, place :
          /\ Alike(scheme[p], c) /\ scheme' = [scheme EXCEPT ![p] = c]
          /\ pc' = [pc EXCEPT ![p] = place] /\ pc[p] = "initReceiveData"
          /\ place \notin ExchangeSteps /\ place # "failed"
    <3> DEFINE c == IF p = First THEN NotifyDataHasBeenReceived(scheme[p]) ELSE scheme[p]
               place == IF p = First
                        THEN IF First \in Initializes THEN "initSendData" ELSE "solving"
                        ELSE IF FirstParticipantSetsTimeWindowSize
                             THEN "initReceiveTimeWindowSize"
                             ELSE "initReceiveDataForWindowEnd"
    <3>1. /\ pc[p] = "initReceiveData" /\ scheme' = [scheme EXCEPT ![p] = c]
          /\ pc' = [pc EXCEPT ![p] = place]
      BY <1>4 DEF InitReceive, InitReceiveData, At, Goto
    <3>2. Alike(scheme[p], c)
      BY <1>1, AlikeMembers
    <3>3. place \notin ExchangeSteps /\ place # "failed"
      BY DEF ExchangeSteps
    <3> QED
      BY <3>1, <3>2, <3>3
  <2>2. Stays(place, c)
    BY <2>1 DEF Alike, ExchangeSteps
  <2> QED
    BY <1>2, <2>2
<1>5. CASE Advance(p, ExchangeFirstData(p))
  <2>1. PICK dt \in 1 .. StepBound :
          LET a == AddComputedTime(scheme[p], dt)
          IN  /\ scheme' = [scheme EXCEPT ![p] = FirstExchange(a)]
              /\ Goto(p, IF ReachedEndOfTimeWindow(a) THEN ExchangeFirstData(p) ELSE "solving")
    BY <1>5 DEF Advance
  <2> DEFINE a == AddComputedTime(scheme[p], dt)
             d == FirstExchange(a)
             place == IF ReachedEndOfTimeWindow(a) THEN ExchangeFirstData(p) ELSE "solving"
  <2>2. dt \in Nat
    BY ConfigAssumption
  <2>3. /\ scheme'[p] = d /\ scheme'[Other(p)] = scheme[Other(p)]
        /\ pc'[p] = place /\ pc'[Other(p)] = pc[Other(p)] /\ pc[p] = "solving"
    BY <1>1, <1>5, <2>1 DEF Goto, TypeOK, Advance, At
  <2>4. /\ d.timeWindows = IF ReachedEndOfTimeWindow(a) THEN scheme[p].timeWindows + 1
                           ELSE scheme[p].timeWindows
        /\ d.totalIterations = scheme[p].totalIterations
    BY <1>1, <2>2, AdvanceMembers
  <2>5. place \in ExchangeSteps <=> ReachedEndOfTimeWindow(a)
    BY DEF ExchangeFirstData, ExchangeSteps
  <2>6. place # "failed" /\ "solving" \notin ExchangeSteps
    BY DEF ExchangeFirstData, ExchangeSteps
  <2> HIDE DEF a, d, place
  <2>7. WindowAt(place, d) = WindowAt("solving", scheme[p])
    BY <1>1, <2>4, <2>5, <2>6 DEF WindowAt, Schemes
  <2> QED
    BY <2>3, <2>4, <2>6, <2>7 DEF RoundAt
<1>6. CASE InitSend(p) \/ FirstSendsData(p) \/ ReceivePing(p) \/ ReceivePong(p) \/ LosePartner(p)
  BY <1>6 DEF InitSend, InitSendData, FirstSendsData, ReceivePing, ReceivePong, LosePartner
<1>7. CASE InitReceiveTimeWindowSize(p)
  <2> DEFINE c == [scheme[p] EXCEPT !.nextTimeWindowSize = Head(channel[p]).size]
  <2>1. /\ pc[p] = "initReceiveTimeWindowSize" /\ scheme' = [scheme EXCEPT ![p] = c]
        /\ pc' = [pc EXCEPT ![p] = "initReceiveDataForWindowEnd"]
    BY <1>7 DEF InitReceiveTimeWindowSize, At, Goto, TypeOK
  <2>2. /\ c.timeWindows = scheme[p].timeWindows
        /\ c.totalIterations = scheme[p].totalIterations
    BY <1>1 DEF Schemes
  <2>3. Stays("initReceiveDataForWindowEnd", c)
    BY <2>1, <2>2 DEF ExchangeSteps
  <2> QED
    BY <1>2, <2>3
<1>8. CASE SendConvergence(p)
  <2>1. PICK converged \in SUBSET Measuring :
          LET c == DoImplicitStep(scheme[p], converged)
          IN  IF StrictMeasureFails(scheme[p], converged)
              THEN UNCHANGED scheme
              ELSE /\ Goto(p, "sendData") /\ scheme' = [scheme EXCEPT ![p] = c]
    BY <1>8 DEF SendConvergence
  <2> DEFINE c == DoImplicitStep(scheme[p], converged)
  <2>2. /\ c.timeWindows = scheme[p].timeWindows
        /\ c.totalIterations = scheme[p].totalIterations
    BY <1>1, DoImplicitStepMembers
  <2>3. pc[p] = "sendConvergence"
    BY <1>8 DEF SendConvergence, At
  <2> HIDE DEF c
  <2>4. scheme' = scheme \/ Stays("sendData", c)
    BY <2>1, <2>2, <2>3 DEF c, Goto, ExchangeSteps
  <2> QED
    BY <1>2, <2>4
<1>9. CASE ReceiveConvergence(p)
  <2> DEFINE c == [scheme[p] EXCEPT !.hasConverged = Head(channel[p]).hasConverged]
  <2>1. /\ pc[p] = "receiveConvergence" /\ scheme' = [scheme EXCEPT ![p] = c]
        /\ pc' = [pc EXCEPT ![p] = "receiveData"]
    BY <1>9 DEF ReceiveConvergence, At, Goto, TypeOK
  <2>2. /\ c.timeWindows = scheme[p].timeWindows
        /\ c.totalIterations = scheme[p].totalIterations
    BY <1>1 DEF Schemes
  <2>3. Stays("receiveData", c)
    BY <2>1, <2>2 DEF ExchangeSteps
  <2> QED
    BY <1>2, <2>3
<1>10. CASE RequiresWritingCheckpoint(p) \/ RequiresReadingCheckpoint(p)
  <2>1. PICK fulfilled :
          scheme' = [scheme EXCEPT ![p] = [scheme[p] EXCEPT !.fulfilledActions = fulfilled]]
    BY <1>10 DEF RequiresWritingCheckpoint, RequiresReadingCheckpoint, TypeOK
  <2> DEFINE c == [scheme[p] EXCEPT !.fulfilledActions = fulfilled]
  <2>2. pc' = [pc EXCEPT ![p] = "solving"] /\ pc[p] = "solving"
    BY <1>10 DEF RequiresWritingCheckpoint, RequiresReadingCheckpoint, TypeOK
  <2>3. Alike(scheme[p], c)
    BY <1>1, AlikeMembers
  <2>4. Stays("solving", c)
    BY <2>1, <2>2, <2>3 DEF Alike
  <2> QED
    BY <1>2, <2>4
<1>11. CASE Finalize(p)
  <2> DEFINE c == ClearActions(scheme[p])
  <2>1. pc[p] = "solving" /\ scheme' = [scheme EXCEPT ![p] = c]
    BY <1>11 DEF Finalize, At, TypeOK
  <2>2. PICK place \in Leaving : pc' = [pc EXCEPT ![p] = place]
    BY <1>11 DEF Finalize, CloseCommunicationChannels, Goto, Leaving
  <2>3. Alike(scheme[p], c)
    BY <1>1, AlikeMembers
  <2>4. place \notin ExchangeSteps /\ "solving" \notin ExchangeSteps /\ place # "failed"
    BY DEF Leaving, ExchangeSteps
  <2>5. Stays(place, c)
    BY <2>1, <2>2, <2>3, <2>4 DEF Alike
  <2> QED
    BY <1>2, <2>5
<1>12. CASE InitReceiveDataForWindowEnd(p)
  <2> DEFINE a == [scheme[p] EXCEPT !.timeWindowSize = scheme[p].nextTimeWindowSize]
             c == NotifyDataHasBeenReceived(a)
  <2>1. /\ pc[p] = "initReceiveDataForWindowEnd" /\ scheme' = [scheme EXCEPT ![p] = c]
        /\ pc' = [pc EXCEPT ![p] = "solving"]
    BY <1>12 DEF InitReceiveDataForWindowEnd, At, Goto
  <2>2. /\ c.timeWindows = scheme[p].timeWindows
        /\ c.totalIterations = scheme[p].totalIterations
    BY <1>1 DEF Schemes, NotifyDataHasBeenReceived
  <2>3. Stays("solving", c)
    BY <2>1, <2>2 DEF ExchangeSteps
  <2> QED
    BY <1>2, <2>3
<1>13. CASE SendTimeWindowSize(p)
  <2> DEFINE size == Time!TimeOf(scheme[p].time) - scheme[p].time.start
             c == [scheme[p] EXCEPT !.timeWindowSize = size, !.nextTimeWindowSize = Undefined]
  <2>1. /\ pc[p] = "sendTimeWindowSize" /\ scheme' = [scheme EXCEPT ![p] = c]
        /\ pc' = [pc EXCEPT ![p] = "sendData"]
    BY <1>1, <1>13 DEF SendTimeWindowSize, At, Goto, TypeOK
  <2>2. /\ c.timeWindows = scheme[p].timeWindows
        /\ c.totalIterations = scheme[p].totalIterations
    BY <1>1 DEF Schemes
  <2>3. Stays("sendData", c)
    BY <2>1, <2>2 DEF ExchangeSteps
  <2> QED
    BY <1>2, <2>3
<1>14. CASE ReceiveTimeWindowSize(p)
  <2> DEFINE c == [scheme[p] EXCEPT !.nextTimeWindowSize = Head(channel[p]).size]
  <2>1. \/ scheme' = scheme
        \/ /\ scheme' = [scheme EXCEPT ![p] = c]
           /\ \E place \in {"receiveData", "receiveDataForWindowEnd"} :
                pc' = [pc EXCEPT ![p] = place]
    BY <1>14 DEF ReceiveTimeWindowSize, Goto, TypeOK
  <2>2. /\ c.timeWindows = scheme[p].timeWindows
        /\ c.totalIterations = scheme[p].totalIterations
    BY <1>1 DEF Schemes
  <2>3. pc[p] = "receiveTimeWindowSize"
    BY <1>14 DEF ReceiveTimeWindowSize, At
  <2> HIDE DEF c
  <2>4. scheme' = scheme \/ \E place : Stays(place, c)
    BY <2>1, <2>2, <2>3 DEF ExchangeSteps
  <2> QED
    BY <1>2, <2>4
<1>15. CASE SecondSendsData(p)
  <2>1. CASE WantsData(scheme[p])
    BY <1>15, <2>1 DEF SecondSendsData
  <2>2. CASE ~WantsData(scheme[p])
    BY <1>15, <2>2 DEF SecondSendsData, At, FinishAdvance, Goto, ExchangeSteps, TypeOK
  <2> QED
    BY <2>1, <2>2
<1>16. CASE SecondReceivesData(p) \/ FirstReceivesData(p)
  BY <1>16 DEF SecondReceivesData, FirstReceivesData, At, FinishAdvance, Goto, ExchangeSteps, TypeOK
<1> QED
  BY <1>3, <1>4, <1>5, <1>6, <1>7, <1>8, <1>9, <1>10, <1>11, <1>12, <1>13, <1>14, <1>15, <1>16
     DEF Participant, ApiCall

\* A step of the coupling is a step of Lockstep, or nothing to it.
LEMMA AgreedLockstep ==
  ASSUME Agreement, Agreement', [Next]_vars
  PROVE  [Promise!Next]_<<[p \in Participants |-> Position(p)],
                          {p \in Participants : Other(p) \notin Sends}>>
<1>1. TypeOK /\ TypeOK' /\ config \in Configurations
  BY DEF Agreement, IInv, TypeOK
<1>2. CASE UNCHANGED vars
  BY <1>2, SchemesStay DEF vars
<1>3. ASSUME NEW x \in Participants, Participant(x)
      PROVE  [Promise!Next]_<<[p \in Participants |-> Position(p)],
                              {p \in Participants : Other(p) \notin Sends}>>
  <2>1. config' = config
    BY <1>3 DEF Participant
  <2>2. CASE Broken
    BY <1>1, <1>3, <2>1, <2>2, BrokenStep, SchemesStay
  <2>3. ASSUME NEW L \in Ledgers, Agree(L)
        PROVE  [Promise!Next]_<<[p \in Participants |-> Position(p)],
                                {p \in Participants : Other(p) \notin Sends}>>
    <3> DEFINE q == Other(x)
               r == RoundAt(pc[x], scheme[x])
               s == RoundAt(pc[q], scheme[q])
               e == L[r]
    <3>1. /\ q \in Participants /\ q # x /\ \A p \in Participants : p = x \/ p = q
          /\ r \in Nat \ {0} /\ s \in Nat \ {0} /\ Kept(L, r) /\ Kept(L, s)
          /\ pc[q] # "failed" /\ pc[x] # "failed" /\ Second \in Participants
      BY <1>1, <1>3, <2>3, Others, AgreeAt DEF Tracks, InRound, Participants
    <3>2. /\ Position(x) = [round |-> r, window |-> e.window]
          /\ Position(q) = [round |-> s, window |-> L[s].window]
          /\ WindowAt(pc[x], scheme[x]) = e.window
      BY <1>1, <1>3, <2>3, <3>1, PositionBefore
    <3>3. CASE pc[x] \in ExchangeSteps /\ pc'[x] = "solving"
      <4>1. /\ pc[x] \in Told(x) /\ scheme'[q] = scheme[q] /\ (x = First => CanReceiveData(x))
            /\ \E c \in Schemes : Alike(scheme[x], c) /\ scheme'[x] = SecondExchange(c)
        BY <1>1, <1>3, <2>3, <3>3, FinishStep
      <4>2. PICK c \in Schemes : Alike(scheme[x], c) /\ scheme'[x] = SecondExchange(c)
        BY <4>1
      <4>3. /\ InRound(x, pc[x], c, e) /\ RoundAt(pc[x], c) = r /\ e \in Entries
            /\ Complete(c) <=> Done(e)
        BY <1>1, <1>3, <2>3, <4>1, <4>2, FinishKnows
      <4> DEFINE d == scheme'[x]
                 step == IF Done(e) THEN 1 ELSE 0
      <4>4. RoundAt("solving", d) = r + 1 /\ WindowAt("solving", d) = e.window + step
        BY <1>1, <3>3, <4>2, <4>3, FinishPosition
      <4>5. pc'[Second] # "failed"
        <5>1. CASE x = Second
          BY <3>3, <5>1
        <5>2. CASE x # Second
          <6>1. q = Second /\ pc[Second] # "failed"
            BY <3>1, <5>2
          <6>2. Agreement /\ ~LosePartner(x) /\ x = First
            BY <1>1, <1>3, <2>3, <5>2, NobodyIsLost DEF Participants, Agreement
          <6>3. ~Broken'
            BY <3>3, <6>2 DEF Broken
          <6>4. PICK K \in Ledgers : Agree(K)'
            BY <6>3 DEF Agreement, Ledgers, Entries
          <6>5. Joins(K, Second, pc[Second], scheme[Second])'
            BY <6>4 DEF Agree, Participants
          <6>6. Joins(K, Second, pc'[Second], scheme'[Second])
            BY <2>1, <6>5, JoinsNext
          <6> QED
            BY <6>6 DEF Joins, Tracks, InRound
        <5> QED
          BY <5>1, <5>2
      <4>6. Position(x)' = [round |-> r + 1, window |-> e.window + step]
        BY <2>1, <3>3, <4>4, <4>5, PositionAfter
      <4>7. Position(q)' = Position(q)
        BY <2>1, <4>1, PositionNext
      <4>8. HasData(x) => r <= s
        BY <1>1, <1>3, <2>3, <4>1, NotAhead
      <4> HIDE DEF q, r, s, e, step
      <4> QED
        BY <1>1, <1>3, <2>1, <2>3, <3>1, <3>2, <4>6, <4>7, <4>8, MovesInLockstep
           DEF q, e, step
    <3>4. CASE ~(pc[x] \in ExchangeSteps /\ pc'[x] = "solving")
      <4>1. CASE scheme' = scheme
        BY <2>1, <4>1, SchemesStay
      <4>2. CASE scheme' # scheme
        <5>1. /\ scheme'[q] = scheme[q] /\ pc'[x] # "failed" /\ pc'[q] = pc[q]
              /\ RoundAt(pc'[x], scheme'[x]) = r
              /\ WindowAt(pc'[x], scheme'[x]) = e.window
          BY <1>1, <1>3, <2>3, <3>2, <3>4, <4>2, GoesOn
        <5>2. pc'[Second] # "failed"
          BY <3>1, <5>1
        <5>3. Position(x)' = Position(x)
          BY <2>1, <3>2, <5>1, <5>2, PositionAfter
        <5>4. Position(q)' = Position(q)
          BY <2>1, <5>1, PositionNext
        <5> QED
          BY <2>1, <3>1, <5>3, <5>4, PositionsStay
      <4> QED
        BY <4>1, <4>2
    <3> QED
      BY <3>3, <3>4
  <2> QED
    BY <2>2, <2>3 DEF Agreement
<1> QED
  BY <1>2, <1>3 DEF Next

--------------------------------------------------------------------------------
(* The samples of the two participants *)

\* Where Second has sent its data, and keeps its samples for the round that follows
Late(p, place) ==
  p = Second /\ place \in {"receiveTimeWindowSize", "receiveData", "receiveDataForWindowEnd"}

\* The root of the round that follows: a complete window leaves its last sample.
NextRoot(place, c) ==
  IF Complete(c) THEN RootOf(Time!TimeOf(c.time), RoundAt(place, c)) ELSE OwnRoot(place, c)

RootAt(p, place, c) == IF Late(p, place) THEN NextRoot(place, c) ELSE OwnRoot(place, c)

\* What p has written (w) and received (r) starts from a root.
Starts(p, root, w, r) ==
  /\ p \in Sends => Rooted(w, root)
  /\ HasData(p) => Rooted(r, root)

\* What p has written (w) and received (r) in its round
Holds(L, p, place, c, w, r) ==
  LET now == Time!TimeOf(c.time)
  IN  /\ Timely(w, now)
      /\ p \in Sends /\ place \in InitializeSteps => EndsIn(w, 0, 0)
      /\ place \in ExchangeSteps => EndsIn(w, RoundAt(place, c), now)
      /\ IF place = "constructed" THEN r = {}
         ELSE Got(L, p, RoundRead(p, place, c), r) /\ Starts(p, RootAt(p, place, c), w, r)

\* First sends one sample for a window of a configured size: Second stores it at
\* the end that the configured size gives the window.
Fitted == First \in Sends \ Substeps /\ TimeWindowSize # Undefined

\* ... which is the end of the window unless max-time truncates it.
WindowsFit == Fitted /\ MaxTime # Undefined => \E n \in Nat : MaxTime = n * TimeWindowSize

\* What Second knows of the window to come when it receives the data for it: a
\* window that is repeated keeps its size.
Settled(place, c) ==
  /\ place = "receiveData" => ~Complete(c) /\ c.nextTimeWindowSize = c.timeWindowSize
  /\ place = "receiveDataForWindowEnd" => Complete(c)

\* Second repeats the windows that it repeats with the size that they have.
Steady(L, place, c) ==
  /\ \A k \in 1 .. RoundRead(Second, place, c) - 1 :
       L[k + 1].iteration > 1 => L[k + 1].end = L[k].end
  /\ Settled(place, c)
  /\ Fitted => \E n \in Nat : c.time.start = n * TimeWindowSize

Sampled(L) ==
  /\ \A p \in Participants :
       /\ Holds(L, p, pc[p], scheme[p], written[p], received[p])
       /\ Parcels(L, p, channel[p], ReadAt(p, pc[p], scheme[p]))
  /\ Steady(L, pc[Second], scheme[Second])

\* The configuration is all that these definitions read of the state.
LEMMA HoldsNext ==
  ASSUME config' = config, NEW L, NEW p, NEW place, NEW c, NEW w, NEW r, NEW s
  PROVE  /\ Holds(L, p, place, c, w, r)' <=> Holds(L, p, place, c, w, r)
         /\ Parcels(L, p, s, ReadAt(p, place, c))' <=> Parcels(L, p, s, ReadAt(p, place, c))
         /\ Steady(L, place, c)' <=> Steady(L, place, c)
<1>1. UNCHANGED <<Implicit, Sends, Substeps, MaxTime, MaxTimeWindows, TimeWindowSize>>
  BY DEF Implicit, Sends, Substeps, MaxTime, MaxTimeWindows, TimeWindowSize
<1>2. IsCouplingOngoing(c)' <=> IsCouplingOngoing(c)
  BY <1>1 DEF IsCouplingOngoing, Time!ReachedEnd, Time!UntilEnd, Time!TimeOf, Undefined,
     Time!Undefined
<1>3. /\ RoundAt(place, c)' = RoundAt(place, c) /\ ReadAt(p, place, c)' = ReadAt(p, place, c)
      /\ \A q, k : Data(q, k)' = Data(q, k)
  <2>1. /\ RoundAt(place, c)' = RoundAt(place, c) /\ Beginning(p)' = Beginning(p)
        /\ \A q, k : Data(q, k)' = Data(q, k) /\ Header(q, k)' = Header(q, k)
    BY KeptNext, CarriesNext
  <2> QED
    BY <1>2, <2>1 DEF ReadAt
<1>4. /\ \A q : RoundRead(q, place, c)' = RoundRead(q, place, c)
      /\ \A k : Got(L, p, k, r)' <=> Got(L, p, k, r)
      /\ \A k, x : Parcel(L, p, k, x)' <=> Parcel(L, p, k, x)
      /\ HasData(p)' <=> HasData(p)
      /\ RootAt(p, place, c)' = RootAt(p, place, c)
  BY <1>1, <1>2, <1>3 DEF RoundRead, Got, Parcel, HasData, Other, RootAt, Late, NextRoot, OwnRoot,
     Complete, Time!TimeOf
<1>5. Holds(L, p, place, c, w, r)' <=> Holds(L, p, place, c, w, r)
  BY <1>1, <1>3, <1>4 DEF Holds, Starts, Time!TimeOf
<1>6. Parcels(L, p, s, ReadAt(p, place, c))' <=> Parcels(L, p, s, ReadAt(p, place, c))
  BY <1>3, <1>4 DEF Parcels
<1>7. Steady(L, place, c)' <=> Steady(L, place, c)
  BY <1>1, <1>4 DEF Steady, Settled, Complete, Fitted, Undefined, Time!Undefined
<1> QED
  BY <1>5, <1>6, <1>7

\* A step of p that moves the samples of p alone
LEMMA SampledStep ==
  ASSUME TypeOK, config' = config, NEW L \in Ledgers, Sampled(L), NEW p \in Participants,
         NEW place, NEW c, pc' = [pc EXCEPT ![p] = place], scheme' = [scheme EXCEPT ![p] = c],
         NEW q, q = Other(p), written'[q] = written[q], received'[q] = received[q],
         Holds(L, p, place, c, written'[p], received'[p]),
         p = Second => Steady(L, place, c),
         Parcels(L, p, channel'[p], ReadAt(p, place, c)),
         Parcels(L, q, channel'[q], ReadAt(q, pc[q], scheme[q]))
  PROVE  Sampled(L)'
<1>1. q \in Participants /\ q # p /\ \A x \in Participants : x = p \/ x = q
  BY Others DEF TypeOK
<1>2. /\ pc'[p] = place /\ scheme'[p] = c /\ pc'[q] = pc[q] /\ scheme'[q] = scheme[q]
  BY <1>1 DEF TypeOK
<1>3. ASSUME NEW x \in Participants
      PROVE  /\ Holds(L, x, pc'[x], scheme'[x], written'[x], received'[x])
             /\ Parcels(L, x, channel'[x], ReadAt(x, pc'[x], scheme'[x]))
  <2>1. CASE x = p
    BY <1>2, <2>1
  <2>2. CASE x = q
    BY <1>1, <1>2, <2>2 DEF Sampled
  <2> QED
    BY <1>1, <2>1, <2>2
<1>4. Steady(L, pc'[Second], scheme'[Second])
  <2>1. Second \in Participants
    BY DEF Participants
  <2>2. CASE Second = p
    BY <1>2, <2>2
  <2>3. CASE Second # p
    BY <1>1, <1>2, <2>1, <2>3 DEF Sampled
  <2> QED
    BY <2>2, <2>3
<1>5. Steady(L, pc[Second], scheme[Second])'
  BY <1>4, HoldsNext
<1> SUFFICES ASSUME NEW x \in Participants
             PROVE  /\ Holds(L, x, pc[x], scheme[x], written[x], received[x])'
                    /\ Parcels(L, x, channel[x], ReadAt(x, pc[x], scheme[x]))'
  BY <1>5 DEF Sampled, Participants
<1> QED
  BY <1>3, HoldsNext

\* Second stays at the start of its window and receives nothing.
LEMMA SteadyOn ==
  ASSUME NEW L, NEW place, NEW c, Steady(L, place, c), NEW to, NEW d,
         d.time.start = c.time.start, Settled(to, d),
         NEW k \in Int, k = RoundRead(Second, place, c),
         NEW j \in Int, j = RoundRead(Second, to, d), j <= k \/ j <= 1
  PROVE  Steady(L, to, d)
<1>1. \A i \in 1 .. j - 1 : i \in 1 .. k - 1
  OBVIOUS
<1> QED
  BY <1>1 DEF Steady

\* A step of p that leaves its samples alone and receives none
LEMMA QuietSampled ==
  ASSUME TypeOK, config' = config, NEW L \in Ledgers, Sampled(L), NEW p \in Participants,
         NEW place, NEW c, pc' = [pc EXCEPT ![p] = place], scheme' = [scheme EXCEPT ![p] = c],
         c.time = scheme[p].time, c.iterations = scheme[p].iterations,
         UNCHANGED <<written, received>>,
         pc[p] # "constructed", place # "constructed",
         place \in InitializeSteps => pc[p] \in InitializeSteps,
         place \in ExchangeSteps => pc[p] \in ExchangeSteps,
         Late(p, place) <=> Late(p, pc[p]),
         Late(p, place) => c.hasConverged = scheme[p].hasConverged,
         p = Second => Settled(place, c),
         RoundAt(place, c) = RoundAt(pc[p], scheme[p]),
         RoundRead(p, place, c) = RoundRead(p, pc[p], scheme[p]),
         NEW q, q = Other(p),
         Parcels(L, p, channel'[p], ReadAt(p, place, c)),
         Parcels(L, q, channel'[q], ReadAt(q, pc[q], scheme[q]))
  PROVE  Sampled(L)'
<1>1. Holds(L, p, pc[p], scheme[p], written[p], received[p])
  BY DEF Sampled
<1>2. RootAt(p, place, c) = RootAt(p, pc[p], scheme[p])
  BY DEF RootAt, NextRoot, OwnRoot, Complete
<1>3. Holds(L, p, place, c, written'[p], received'[p])
  BY <1>1, <1>2 DEF Holds
<1>4. p = Second => Steady(L, place, c)
  BY DEF Sampled, Steady
<1> QED
  BY <1>3, <1>4, SampledStep

\* Second has not fallen behind a round whose data First receives.
LEMMA SecondHasRead ==
  ASSUME TypeOK, NEW L \in Ledgers, Agree(L), pc[First] = "receiveData", Implicit,
         NEW r, r = RoundAt(pc[First], scheme[First])
  PROVE  RoundRead(Second, pc[Second], scheme[Second]) >= r
<1> DEFINE place == pc[Second]
           d == scheme[Second]
           s == RoundAt(place, d)
<1>1. /\ config \in Configurations /\ First # Second /\ Other(Second) = First
      /\ Other(First) = Second /\ First \in Participants /\ Second \in Participants
      /\ HasHeader(First) /\ HasData(First)
  <2>1. config \in Configurations
    BY DEF TypeOK
  <2>2. First # Second /\ Sends = Participants /\ HasHeader(First)
    BY <2>1, ConfigTypes, SerialHeaders
  <2> QED
    BY <2>1, <2>2 DEF Other, Participants, HasData
<1>2. /\ Joins(L, Second, place, d) /\ s \in Nat \ {0} /\ r \in Nat \ {0}
      /\ Delivers(L, First, pc[First], scheme[First], place, d, channel[First])
  BY <1>1, AgreeAt
<1>3. ReadAt(First, pc[First], scheme[First]) = Data(First, r)
  BY <1>1 DEF ReadAt
<1>4. Data(First, r) <= SentAt(Second, place, d)
  BY <1>1, <1>2, <1>3 DEF Delivers, Carries
<1>5. /\ SentAt(Second, place, d) \in Nat /\ SentAt(Second, place, d) <= Header(First, s + 1)
      /\ place \notin ExchangeSteps => SentAt(Second, place, d) <= Header(First, s)
  BY <1>1, <1>2, Bounds
<1> HIDE DEF s, place, d
<1>6. /\ Data(First, r) = 2 * r /\ Header(First, s + 1) = 2 * s + 1
      /\ Header(First, s) = 2 * s - 1
  BY <1>1, <1>2 DEF Data, Header
<1>7. r <= s /\ (r = s => place \in ExchangeSteps)
  BY <1>2, <1>4, <1>5, <1>6
<1>8. RoundRead(Second, place, d) >= r
  BY <1>2, <1>7 DEF RoundRead, s
<1> QED
  BY <1>8 DEF place, d

\* At the end of its round p is at the stamp of the round.
LEMMA ExchangeStamps ==
  ASSUME TypeOK, NEW L \in Ledgers, Agree(L), Sampled(L), NEW p \in Participants,
         pc[p] \in ExchangeSteps, NEW r, r = RoundAt(pc[p], scheme[p])
  PROVE  /\ r \in Nat \ {0} /\ Stamp(L, r) \in Nat /\ Stamp(L, r) = Time!TimeOf(scheme[p].time)
         /\ p = Second \/ pc[p] = "receiveData" =>
              Stamp(L, r - 1) \in Nat /\ Stamp(L, r - 1) <= Stamp(L, r)
<1>1. /\ config \in Configurations /\ r \in Nat \ {0} /\ scheme[p] \in Schemes
      /\ InRound(p, pc[p], scheme[p], L[r]) /\ Kept(L, r) /\ L[r] \in Entries
      /\ p \in {First, Second}
  BY AgreeAt DEF TypeOK, Tracks, Participants
<1>2. /\ Time!TimeOf(scheme[p].time) = L[r].end /\ L[r].start = scheme[p].time.start
      /\ scheme[p].time \in Time!TimeHandlers
  BY <1>1 DEF InRound, Schemes
<1>3. L[r].start <= L[r].end /\ Stamp(L, r) = L[r].end /\ L[r].end \in Nat
  BY <1>1, <1>2 DEF Time!TimeOf, Time!TimeHandlers, Stamp, Entries
<1>4. ASSUME RoundRead(Second, pc[Second], scheme[Second]) >= r, r > 1, L[r].iteration > 1
      PROVE  L[r].end = L[r - 1].end
  <2> DEFINE n == RoundRead(Second, pc[Second], scheme[Second])
             k == r - 1
  <2>1. n \in Int
    <3>1. RoundAt(pc[Second], scheme[Second]) \in Nat
      BY AgreeAt DEF Participants
    <3> QED
      BY <3>1 DEF RoundRead
  <2>2. Steady(L, pc[Second], scheme[Second])
    BY DEF Sampled
  <2> HIDE DEF n
  <2>3. k \in 1 .. n - 1 /\ k + 1 = r
    BY <1>1, <1>4, <2>1 DEF n
  <2>4. L[k + 1].iteration > 1 => L[k + 1].end = L[k].end
    BY <2>2, <2>3 DEF Steady, n
  <2> QED
    BY <1>4, <2>3, <2>4
<1>5. ASSUME p = Second \/ pc[p] = "receiveData", r > 1, L[r].iteration > 1
      PROVE  L[r].end = L[r - 1].end
  <2>1. CASE p = Second
    <3>1. RoundRead(Second, pc[Second], scheme[Second]) = r
      BY <2>1 DEF RoundRead
    <3> QED
      BY <1>1, <1>4, <1>5, <3>1
  <2>2. CASE p = First /\ Implicit
    <3>1. First # Second
      BY <1>1, ConfigTypes
    <3> QED
      BY <1>4, <1>5, <2>2, <3>1, SecondHasRead
  <2>3. CASE ~Implicit
    <3>1. r - 1 \in 1 .. r - 1 /\ (r - 1) + 1 = r
      BY <1>1, <1>5
    <3>2. Follows(L[r - 1], L[r])
      BY <1>1, <3>1 DEF Kept
    <3>3. L[r].iteration = 1
      BY <2>3, <3>2 DEF Follows, Done
    <3> QED
      BY <1>5, <3>3
  <2> QED
    BY <1>1, <2>1, <2>2, <2>3
<1>6. ASSUME p = Second \/ pc[p] = "receiveData"
      PROVE  Stamp(L, r - 1) \in Nat /\ Stamp(L, r - 1) <= Stamp(L, r)
  BY <1>1, <1>3, <1>5, <1>6, StampsGrow
<1> QED
  BY <1>1, <1>2, <1>3, <1>6

\* The root that p knows of is that of the ledger: before the first step, the initial
\* data, and at the end of a round a sample before it.
LEMMA RootAgrees ==
  ASSUME TypeOK, NEW L \in Ledgers, Agree(L), NEW p \in Participants,
         NEW r, r = RoundAt(pc[p], scheme[p])
  PROVE  /\ OwnRoot(pc[p], scheme[p]) = Root(L, r)
         /\ pc[p] \in Early => Root(L, r) = RootOf(0, 0) /\ Time!TimeOf(scheme[p].time) = 0
         /\ Root(L, r).t <= Time!TimeOf(scheme[p].time)
         /\ pc[p] \in ExchangeSteps => Root(L, r).t < Stamp(L, r)
<1>1. /\ r \in Nat \ {0} /\ scheme[p] \in Schemes /\ Kept(L, r)
      /\ InRound(p, pc[p], scheme[p], L[r])
  BY AgreeAt DEF Tracks
<1>2. /\ L[r].start = scheme[p].time.start /\ L[r].iteration = scheme[p].iterations
      /\ pc[p] \in Early => r = 1 /\ scheme[p].time.progress = 0
      /\ pc[p] \in ExchangeSteps =>
           Time!TimeOf(scheme[p].time) = L[r].end /\ scheme[p].time.progress > 0
  BY <1>1 DEF InRound
<1>3. scheme[p].time.start \in Nat /\ scheme[p].time.progress \in Nat
  BY <1>1 DEF Schemes, Time!TimeHandlers
<1>4. Root(L, r) = RootOf(L[r].start, r - L[r].iteration)
  BY <1>1 DEF Root
<1>5. r = 1 => L[r].start = 0 /\ L[r].iteration = 1
  BY <1>1 DEF Kept, First1
<1> QED
  BY <1>1, <1>2, <1>3, <1>4, <1>5 DEF OwnRoot, RootOf, Stamp, Time!TimeOf

\* Ledgers with the same stamps and roots are the same to the samples.
LEMMA SampledAlike ==
  ASSUME TypeOK, NEW L \in Ledgers, Agree(L), Sampled(L), NEW K, Keeps(L, K)
  PROVE  Sampled(K)
<1>1. ASSUME NEW p \in Participants
      PROVE  /\ Holds(K, p, pc[p], scheme[p], written[p], received[p])
             /\ Parcels(K, p, channel[p], ReadAt(p, pc[p], scheme[p]))
  <2> DEFINE k == RoundRead(p, pc[p], scheme[p])
             n == ReadAt(p, pc[p], scheme[p])
             m == SentAt(Other(p), pc[Other(p)], scheme[Other(p)])
             bye == Bye(p, pc[p], pc[Other(p)])
  <2>1. /\ Holds(L, p, pc[p], scheme[p], written[p], received[p])
        /\ Parcels(L, p, channel[p], n)
    BY DEF Sampled
  <2>2. channel[p] \in Seq(Messages) /\ Carries(L, p, channel[p], n, m, bye) /\ k \in Nat
    BY AgreeAt DEF Delivers, RoundRead
  <2>3. Stamp(K, k) = Stamp(L, k)
    <3>1. k <= k
      BY <2>2
    <3> QED
      BY <2>2, <3>1 DEF Keeps
  <2>4. \A j \in Nat : HasData(p) /\ Data(p, j) < m =>
          Stamp(K, j) = Stamp(L, j) /\ Root(K, j) = Root(L, j)
    BY DEF Keeps
  <2> HIDE DEF k, n, m, bye
  <2>5. Parcels(K, p, channel[p], n)
    BY <2>1, <2>2, <2>4, ParcelsAlike
  <2>6. Got(L, p, k, received[p]) => Got(K, p, k, received[p])
    BY <2>3 DEF Got
  <2> QED
    BY <2>1, <2>5, <2>6 DEF Holds, k, n
<1>2. Steady(K, pc[Second], scheme[Second])
  <2> DEFINE n == RoundRead(Second, pc[Second], scheme[Second])
  <2>1. n \in Nat /\ Second \in Participants
    BY AgreeAt DEF RoundRead, Participants
  <2>2. Steady(L, pc[Second], scheme[Second])
    BY DEF Sampled
  <2> HIDE DEF n
  <2>3. ASSUME NEW k \in 1 .. n
        PROVE  K[k].end = L[k].end /\ K[k].iteration = L[k].iteration
    <3>1. k \in Nat /\ k <= n /\ k # 0
      BY <2>1
    <3> QED
      BY <2>1, <3>1 DEF Keeps, Stamp, n
  <2>4. ASSUME NEW k \in 1 .. n - 1, K[k + 1].iteration > 1
        PROVE  K[k + 1].end = K[k].end
    <3>1. k \in 1 .. n /\ k + 1 \in 1 .. n
      BY <2>1
    <3>2. L[k + 1].iteration > 1 => L[k + 1].end = L[k].end
      BY <2>2 DEF Steady, n
    <3> QED
      BY <2>3, <2>4, <3>1, <3>2
  <2> QED
    BY <2>2, <2>4 DEF Steady, n
<1> QED
  BY <1>1, <1>2 DEF Sampled

\* Rounds that nobody has come to have no data yet.
LEMMA SameSoFarKeeps ==
  ASSUME TypeOK, NEW L \in Ledgers, Agree(L), NEW K, SameSoFar(L, K)
  PROVE  Keeps(L, K)
<1>1. ASSUME NEW p \in Participants, NEW k \in Nat, k <= RoundRead(p, pc[p], scheme[p])
      PROVE  K[k] = L[k]
  <2>1. RoundAt(pc[p], scheme[p]) \in Nat
    BY AgreeAt
  <2>2. k <= RoundAt(pc[p], scheme[p])
    BY <1>1, <2>1 DEF RoundRead
  <2> QED
    BY <2>2 DEF SameSoFar
<1>2. ASSUME NEW p \in Participants, NEW k \in Nat,
             Data(p, k) < SentAt(Other(p), pc[Other(p)], scheme[Other(p)])
      PROVE  K[k] = L[k]
  <2> DEFINE q == Other(p)
             s == RoundAt(pc[q], scheme[q])
             m == SentAt(q, pc[q], scheme[q])
  <2>1. /\ config \in Configurations /\ q \in Participants /\ Other(q) = p /\ s \in Nat \ {0}
        /\ Joins(L, q, pc[q], scheme[q])
    BY AgreeAt, Others DEF TypeOK
  <2>2. m \in Nat /\ m <= Header(p, s + 1) /\ Data(p, k) < m
    BY <1>2, <2>1, Bounds
  <2> HIDE DEF m
  <2>3. k <= s
    <3> SUFFICES ASSUME s < k PROVE FALSE
      BY <2>1
    <3>1. Header(p, s + 1) <= Header(p, k) /\ Header(p, k) <= Data(p, k)
      BY <2>1, PositionsInOrder
    <3>2. Header(p, s + 1) \in Nat /\ Header(p, k) \in Nat /\ Data(p, k) \in Nat
      <4>1. k >= 1 /\ s + 1 >= 1 /\ s + 1 \in Nat
        BY <2>1
      <4> QED
        BY <4>1, Positions
    <3> QED
      BY <2>2, <3>1, <3>2
  <2> QED
    BY <2>1, <2>3 DEF SameSoFar
<1> QED
  BY <1>1, <1>2 DEF Keeps, Stamp, Root, Participants

\* A ledger with the same ends of its rounds keeps them.
LEMMA SameEndsKeep ==
  ASSUME NEW L, NEW K, SameEnds(L, K)
  PROVE  Keeps(L, K)
BY DEF SameEnds, Keeps, Stamp, Root

\* initialize() has the initial data of both sides.
LEMMA InitializeSampled ==
  ASSUME IInv, config' = config, NEW L \in Ledgers, Agree(L), Sampled(L),
         NEW p \in Participants, Initialize(p, InitialExchange(p)), IInv'
  PROVE  Sampled(L)'
<1> DEFINE fulfilled == scheme[p].fulfilledActions \cup scheme[p].requiredActions
           required == scheme[p].requiredActions
                         \cup (IF Implicit THEN {"WriteCheckpoint"} ELSE {})
           c == [scheme[p] EXCEPT !.fulfilledActions = fulfilled, !.requiredActions = required]
           place == InitialExchange(p)
           q == Other(p)
           now == Time!TimeOf(c.time)
<1>1. TypeOK /\ config \in Configurations /\ pc[p] = "constructed" /\ First # Second
  BY ConfigTypes DEF IInv, TypeOK, Initialize
<1>2. /\ pc' = [pc EXCEPT ![p] = place] /\ scheme' = [scheme EXCEPT ![p] = c]
      /\ channel' = channel
  BY <1>1 DEF Initialize, Goto, TypeOK
<1>3. /\ scheme[p] \in Schemes /\ RoundAt("constructed", scheme[p]) = 1
      /\ q \in Participants /\ q # p
  BY <1>1, AgreeAt, Others DEF InRound, Early
<1>4. c.time = scheme[p].time /\ now \in Nat
  BY <1>3, TimeOfType DEF Schemes
<1>5. /\ place \in InitializeSteps \cup {"solving"} /\ place # "constructed"
      /\ place \notin ExchangeSteps /\ ~Late(p, place)
      /\ p = Second => place # "solving"
  BY <1>1 DEF InitialExchange, InitializeSteps, Late, ExchangeSteps
<1>6. RoundAt(place, c) = 1
  <2>1. Alike(scheme[p], c)
    BY <1>3, AlikeMembers
  <2>2. "constructed" \notin ExchangeSteps
    BY DEF ExchangeSteps
  <2> HIDE DEF c, place
  <2> QED
    BY <1>3, <1>5, <2>1, <2>2 DEF RoundAt, WindowAt, Alike
<1>7. /\ RoundRead(p, place, c) = 0 /\ RoundRead(p, "constructed", scheme[p]) = 0
      /\ place \notin {"receiveData", "receiveDataForWindowEnd"}
      /\ RootAt(p, place, c) = RootOf(0, 0)
  <2>1. OwnRoot(pc[p], scheme[p]) = RootOf(0, 0)
    BY <1>1, RootAgrees DEF Early
  <2>2. Alike(scheme[p], c)
    BY <1>3, AlikeMembers
  <2> HIDE DEF c, place
  <2>3. RootAt(p, place, c) = OwnRoot(pc[p], scheme[p])
    BY <1>1, <1>3, <1>5, <1>6, <2>2 DEF RootAt, OwnRoot, Alike
  <2> QED
    BY <1>3, <1>5, <1>6, <2>1, <2>3 DEF RoundRead, ExchangeSteps
<1> HIDE DEF c, place
<1>8. /\ Timely(written'[p], now) /\ (p \in Sends => EndsIn(written'[p], 0, 0))
      /\ Got(L, p, 0, received'[p]) /\ Starts(p, RootOf(0, 0), written'[p], received'[p])
  BY <1>1, <1>4, InitialSamples DEF Starts
<1>9. written'[q] = written[q] /\ received'[q] = received[q]
  BY <1>3 DEF Initialize
<1>10. Holds(L, p, place, c, written'[p], received'[p])
  BY <1>5, <1>7, <1>8 DEF Holds
<1>11. p = Second => Steady(L, place, c)
  <2>1. Settled(place, c) /\ 0 \in Int /\ 0 <= 1 /\ c.time.start = scheme[p].time.start
    BY <1>4, <1>7 DEF Settled
  <2> QED
    BY <1>1, <1>7, <2>1, SteadyOn DEF Sampled
<1>12. ReadAt(p, place, c) = ReadAt(p, pc[p], scheme[p])
  BY <1>1, <1>6, InitializePositions DEF place
<1>13. /\ Parcels(L, p, channel'[p], ReadAt(p, place, c))
       /\ Parcels(L, q, channel'[q], ReadAt(q, pc[q], scheme[q]))
  BY <1>2, <1>3, <1>12 DEF Sampled
<1> QED
  BY <1>1, <1>2, <1>9, <1>10, <1>11, <1>13, SampledStep

\* The initial data that is sent is that of the start.
LEMMA InitSendSampled ==
  ASSUME IInv, config' = config, NEW L \in Ledgers, Agree(L), Sampled(L),
         NEW p \in Participants, InitSend(p)
  PROVE  Sampled(L)'
<1> DEFINE place == IF p = First THEN "solving"
                    ELSE IF First \in Initializes THEN "initReceiveData"
                    ELSE IF FirstParticipantSetsTimeWindowSize THEN "initReceiveTimeWindowSize"
                    ELSE "initReceiveDataForWindowEnd"
           c == scheme[p]
           q == Other(p)
           n == ReadAt(q, pc[q], scheme[q])
<1>1. /\ TypeOK /\ config \in Configurations /\ pc[p] = "initSendData" /\ p \in {First, Second}
      /\ SendStored(p, written[p]) /\ UNCHANGED <<written, received>> /\ First # Second
  BY ConfigTypes DEF IInv, TypeOK, InitSend, InitSendData, At, Participants
<1>2. pc' = [pc EXCEPT ![p] = place] /\ scheme' = [scheme EXCEPT ![p] = c]
  BY <1>1, Unchanged DEF InitSend, InitSendData, Goto
<1>3. /\ channel[q] \in Seq(Messages) /\ q \in Participants /\ Other(q) = p
      /\ RoundAt("initSendData", c) = 1 /\ Joins(L, p, "initSendData", c)
  BY <1>1, AgreeAt, Others DEF InRound, Early, InitializeSteps, TypeOK
<1>4. /\ Carries(L, q, channel[q], n, Data(q, 0), "nothing")
      /\ Parcels(L, q, channel[q], n)
  <2>1. pc[p] \notin Leaving /\ SentAt(p, pc[p], c) = Data(q, 0)
    BY <1>1 DEF Leaving, SentAt
  <2> QED
    BY <1>1, <1>3, <2>1, Streams DEF Sampled
<1>5. RoundAt(place, c) = 1 /\ place \notin ExchangeSteps /\ "initSendData" \notin ExchangeSteps
  BY <1>3 DEF RoundAt, WindowAt, ExchangeSteps
<1>6. ReadAt(p, place, c) = ReadAt(p, "initSendData", c)
  <2>1. TimeWindowSize # Undefined => Data(Second, 1) = Header(Second, 1)
    BY <1>1, SerialHeaders DEF Data, Header
  <2>2. p = Second => Beginning(p) = IF First \in Initializes THEN Data(p, 0) ELSE Header(p, 1)
    BY <1>1 DEF Beginning, Other
  <2>3. ReadAt(p, "initSendData", c) = IF p = Second THEN Beginning(p) ELSE Header(p, 1)
    BY <1>1, <1>3 DEF ReadAt
  <2> QED
    BY <1>1, <1>5, <2>1, <2>2, <2>3 DEF ReadAt, FirstParticipantSetsTimeWindowSize
<1>7. /\ place # "constructed" /\ ~Late(p, place) /\ ~Late(p, "initSendData")
      /\ RoundRead(p, place, c) = RoundRead(p, "initSendData", c)
      /\ "initSendData" \in InitializeSteps
      /\ place \notin {"receiveData", "receiveDataForWindowEnd"}
  BY <1>1, <1>3, <1>5 DEF Late, RoundRead, InitializeSteps
<1> HIDE DEF place, n
<1>8. Parcels(L, q, channel'[q], n)
  <2>1. Holds(L, p, pc[p], scheme[p], written[p], received[p])
    BY DEF Sampled
  <2>2. p \in Sends => /\ Stamped(written[p]) /\ EndsIn(written[p], 0, Stamp(L, 0))
                       /\ Rooted(written[p], Root(L, 0))
    <3>1. RootAt(p, pc[p], scheme[p]) = Root(L, 0)
      BY <1>1, <1>7, RootAgrees DEF Early, Root, RootAt
    <3> QED
      BY <1>1, <1>7, <2>1, <3>1 DEF Holds, Starts, Timely, Stamp
  <2>3. n \in Nat /\ (HasData(q) => n + Len(channel[q]) = Data(q, 0))
    BY <1>3, <1>4, Positions DEF Carries
  <2> QED
    BY <1>1, <1>4, <2>2, <2>3, SendsParcel
<1>9. Parcels(L, p, channel'[p], ReadAt(p, place, c))
  <2>1. channel'[p] = channel[p]
    BY <1>1, SendsData
  <2> QED
    BY <1>1, <1>6, <2>1 DEF Sampled
<1>10. Settled(place, c)
  BY <1>7 DEF Settled
<1> QED
  BY <1>1, <1>2, <1>3, <1>5, <1>7, <1>8, <1>9, <1>10, QuietSampled DEF n

\* The initial data that is received is that of the start.
LEMMA InitReceiveSampled ==
  ASSUME IInv, config' = config, NEW L \in Ledgers, Agree(L), Sampled(L),
         NEW p \in Participants, InitReceive(p)
  PROVE  Sampled(L)'
<1> DEFINE place == IF p = First THEN IF First \in Initializes THEN "initSendData" ELSE "solving"
                    ELSE IF FirstParticipantSetsTimeWindowSize THEN "initReceiveTimeWindowSize"
                    ELSE "initReceiveDataForWindowEnd"
           c == IF p = First THEN NotifyDataHasBeenReceived(scheme[p]) ELSE scheme[p]
           q == Other(p)
           now == Time!TimeOf(scheme[p].time)
<1>1. /\ TypeOK /\ config \in Configurations /\ pc[p] = "initReceiveData" /\ p \in {First, Second}
      /\ CanReceiveData(p) /\ ReceiveDataMessage(p) /\ First # Second /\ written' = written
      /\ received' = [received EXCEPT ![p] = ReceivedAt(p, now)]
  BY ConfigTypes DEF IInv, TypeOK, InitReceive, InitReceiveData, At, Participants
<1>2. pc' = [pc EXCEPT ![p] = place] /\ scheme' = [scheme EXCEPT ![p] = c]
  BY <1>1 DEF InitReceive, InitReceiveData, Goto
<1>3. /\ q \in Participants /\ q # p /\ RoundAt("initReceiveData", scheme[p]) = 1
      /\ scheme[p] \in Schemes /\ now = 0
  <2>1. /\ RoundAt(pc[p], scheme[p]) = 1 /\ scheme[p].time.progress = 0
        /\ scheme[p].time.start = L[1].start /\ Kept(L, 1)
    BY <1>1, AgreeAt DEF InRound, Early, InitializeSteps, Tracks
  <2>2. scheme[p].time.start = 0
    BY <2>1 DEF Kept, First1
  <2> QED
    BY <1>1, <2>1, <2>2, AgreeAt, Others DEF Time!TimeOf
<1>4. Alike(scheme[p], c)
  BY <1>3, AlikeMembers
<1> HIDE DEF c
<1>5. /\ RoundAt(place, c) = 1 /\ place \notin ExchangeSteps
      /\ place # "constructed" /\ ~Late(p, place) /\ ~Late(p, "initReceiveData")
      /\ RoundRead(p, place, c) = 0 /\ RoundRead(p, "initReceiveData", scheme[p]) = 0
      /\ "initReceiveData" \in InitializeSteps
      /\ place \notin {"receiveData", "receiveDataForWindowEnd"}
  <2>1. place \notin ExchangeSteps /\ "initReceiveData" \notin ExchangeSteps
    BY DEF ExchangeSteps
  <2>2. RoundAt(place, c) = 1
    BY <1>3, <1>4, <2>1 DEF RoundAt, WindowAt, Alike
  <2> QED
    BY <1>1, <1>3, <2>1, <2>2 DEF Late, RoundRead, InitializeSteps
<1>6. /\ ReadAt(p, "initReceiveData", scheme[p]) = Data(p, 0)
      /\ ReadAt(p, place, c) = Header(p, 0 + 1)
  <2>1. TimeWindowSize # Undefined => Data(Second, 1) = Header(Second, 1)
    BY <1>1, SerialHeaders DEF Data, Header
  <2> QED
    BY <1>1, <1>5, <2>1 DEF ReadAt, FirstParticipantSetsTimeWindowSize
<1>7. channel'[q] = channel[q]
  BY <1>1, ReadsData
<1>8. /\ Holds(L, p, pc[p], scheme[p], written[p], received[p])
      /\ Parcels(L, p, channel[p], Data(p, 0))
      /\ Parcels(L, q, channel'[q], ReadAt(q, pc[q], scheme[q]))
  BY <1>1, <1>3, <1>6, <1>7 DEF Sampled
<1>9. /\ Got(L, p, 0, received[p])
      /\ Starts(p, RootAt(p, "initReceiveData", scheme[p]), written[p], received[p])
  BY <1>1, <1>5, <1>8 DEF Holds
<1>10. /\ Got(L, p, 0, ReceivedAt(p, now))
       /\ Parcels(L, p, channel'[p], Header(p, 0 + 1))
  <2>1. Stamp(L, 0) = now /\ Stamp(L, 0) <= now /\ 0 \in Nat /\ now \in Nat
    BY <1>3 DEF Stamp
  <2> QED
    BY <1>1, <1>8, <1>9, <2>1, ReceivesParcel
<1>11. received'[p] = ReceivedAt(p, now) /\ received'[q] = received[q] /\ written'[q] = written[q]
  BY <1>1, <1>3 DEF TypeOK
<1> HIDE DEF place
<1>12. Starts(p, RootAt(p, place, c), written'[p], received'[p])
  <2>1. RootAt(p, "initReceiveData", scheme[p]) = Root(L, 0)
    BY <1>1, <1>5, RootAgrees DEF Early, Root, RootAt
  <2>2. RootAt(p, place, c) = Root(L, 0)
    BY <1>3, <1>4, <1>5, <2>1 DEF RootAt, OwnRoot, Alike
  <2>3. HasData(p) => Rooted(ReceivedAt(p, now), Root(L, 0))
    <3>1. 0 \in Nat /\ now \in Nat /\ Stamp(L, 0) = now
      BY <1>3 DEF Stamp
    <3>2. HasData(p) => Rooted(received[p], Root(L, 0))
      BY <1>9, <2>1 DEF Starts
    <3>3. Root(L, 0) \in Samples /\ now = 0
      BY <1>3 DEF Root, RootOf, Samples
    <3> HIDE DEF now
    <3> QED
      BY <1>1, <1>8, <3>1, <3>2, <3>3, ReceivesRoot
  <2> QED
    BY <1>1, <1>9, <1>11, <2>1, <2>2, <2>3 DEF Starts
<1> HIDE DEF now
<1>13. Holds(L, p, place, c, written'[p], received'[p])
  <2>1. Timely(written[p], now) /\ (p \in Sends => EndsIn(written[p], 0, 0))
    BY <1>1, <1>5, <1>8 DEF Holds, now
  <2>2. Time!TimeOf(c.time) = now
    BY <1>4 DEF Alike, now
  <2>3. Got(L, p, RoundRead(p, place, c), received'[p])
    BY <1>5, <1>10, <1>11
  <2>4. written'[p] = written[p]
    BY <1>1
  <2> QED
    BY <1>5, <1>12, <2>1, <2>2, <2>3, <2>4 DEF Holds
<1>14. Parcels(L, p, channel'[p], ReadAt(p, place, c))
  BY <1>6, <1>10
<1>15. p = Second => Steady(L, place, c)
  <2>1. Settled(place, c) /\ 0 \in Int /\ 0 <= 1 /\ c.time.start = scheme[p].time.start
    BY <1>4, <1>5 DEF Settled, Alike
  <2> QED
    BY <1>1, <1>5, <2>1, SteadyOn DEF Sampled
<1>16. TypeOK /\ pc' = [pc EXCEPT ![p] = place] /\ scheme' = [scheme EXCEPT ![p] = c]
  BY <1>1, <1>2
<1> HIDE DEF q
<1> QED
  BY <1>8, <1>11, <1>13, <1>14, <1>15, <1>16, SampledStep DEF q

\* The first size that Second receives is no data.
LEMMA InitReceiveTimeWindowSizeSampled ==
  ASSUME IInv, config' = config, NEW L \in Ledgers, Agree(L), Sampled(L),
         NEW p \in Participants, InitReceiveTimeWindowSize(p)
  PROVE  Sampled(L)'
<1> DEFINE from == "initReceiveTimeWindowSize"
           place == "initReceiveDataForWindowEnd"
           c == [scheme[p] EXCEPT !.nextTimeWindowSize = Head(channel[p]).size]
           q == Other(p)
           r == RoundAt(from, scheme[p])
<1>1. /\ TypeOK /\ config \in Configurations /\ pc[p] = from /\ channel[p] # <<>>
      /\ Receive(p) /\ First # Second /\ UNCHANGED <<written, received>>
  BY ConfigTypes DEF IInv, TypeOK, InitReceiveTimeWindowSize, At, HasMessage
<1>2. pc' = [pc EXCEPT ![p] = place] /\ scheme' = [scheme EXCEPT ![p] = c]
  BY <1>1 DEF InitReceiveTimeWindowSize, Goto, TypeOK
<1>3. /\ scheme[p] \in Schemes /\ Joins(L, p, from, scheme[p])
      /\ channel[p] \in Seq(Messages) /\ r \in Nat \ {0} /\ q \in Participants
  BY <1>1, AgreeAt, Others DEF TypeOK
<1>4. p = Second /\ HasHeader(p)
  <2>1. TimeWindowSize = Undefined
    BY <1>1 DEF IInv, Consistent, SizeIsKnown
  <2>2. p # First
    BY <1>3 DEF Joins, SerialPlaces, Leaving
  <2> QED
    BY <1>1, <2>1, <2>2, SerialHeaders DEF Participants
<1>5. /\ c.time = scheme[p].time /\ c.timeWindows = scheme[p].timeWindows
      /\ c.totalIterations = scheme[p].totalIterations /\ c.iterations = scheme[p].iterations
  BY <1>3 DEF Schemes
<1> HIDE DEF c
<1>6. /\ RoundAt(place, c) = r /\ place \notin ExchangeSteps /\ from \in InitializeSteps
      /\ RoundRead(p, place, c) = RoundRead(p, from, scheme[p]) /\ Settled(place, c)
      /\ ~Late(p, place) /\ ~Late(p, from)
  BY <1>5 DEF RoundAt, WindowAt, ExchangeSteps, Late, InitializeSteps, RoundRead, Settled
<1>7. /\ ReadAt(p, from, scheme[p]) = Header(p, r)
      /\ ReadAt(p, place, c) = Header(p, r) + 1 /\ Header(p, r) \in Nat
  <2>1. Data(p, r) = Header(p, r) + 1 /\ Header(p, r) \in Nat
    BY <1>3, <1>4, Positions
  <2> QED
    BY <1>1, <1>4, <1>6, <2>1 DEF ReadAt
<1> HIDE DEF r
<1>8. channel'[q] = channel[q] /\ channel'[p] = Tail(channel[p])
  BY <1>1, Reads1
<1>9. /\ Parcels(L, p, channel'[p], ReadAt(p, place, c))
      /\ Parcels(L, q, channel'[q], ReadAt(q, pc[q], scheme[q]))
  <2>1. /\ Parcels(L, p, channel[p], Header(p, r))
        /\ Parcels(L, q, channel[q], ReadAt(q, pc[q], scheme[q]))
    BY <1>1, <1>3, <1>7 DEF Sampled
  <2> QED
    BY <1>1, <1>3, <1>7, <1>8, <2>1, NextParcels
<1> QED
  BY <1>1, <1>2, <1>5, <1>6, <1>9, QuietSampled DEF r

\* Reading and writing a checkpoint moves no samples.
LEMMA CheckpointSampled ==
  ASSUME IInv, config' = config, NEW L \in Ledgers, Agree(L), Sampled(L),
         NEW p \in Participants,
         RequiresWritingCheckpoint(p) \/ RequiresReadingCheckpoint(p)
  PROVE  Sampled(L)'
<1> DEFINE q == Other(p)
<1>1. /\ TypeOK /\ config \in Configurations /\ pc[p] = "solving"
      /\ UNCHANGED <<written, received, channel>>
  BY DEF IInv, TypeOK, RequiresWritingCheckpoint, RequiresReadingCheckpoint
<1>2. PICK fulfilled :
        scheme' = [scheme EXCEPT ![p] = [scheme[p] EXCEPT !.fulfilledActions = fulfilled]]
  BY <1>1 DEF RequiresWritingCheckpoint, RequiresReadingCheckpoint, TypeOK
<1> DEFINE c == [scheme[p] EXCEPT !.fulfilledActions = fulfilled]
<1>3. pc' = [pc EXCEPT ![p] = "solving"]
  BY <1>1 DEF RequiresWritingCheckpoint, RequiresReadingCheckpoint, TypeOK
<1>4. scheme[p] \in Schemes /\ q \in Participants
  BY <1>1, AgreeAt, Others
<1>5. Alike(scheme[p], c)
  BY <1>4, AlikeMembers
<1>6. scheme' = [scheme EXCEPT ![p] = c]
  BY <1>2
<1> HIDE DEF c
<1>7. /\ RoundAt("solving", c) = RoundAt("solving", scheme[p]) /\ c.time = scheme[p].time
      /\ c.iterations = scheme[p].iterations /\ ~Late(p, "solving")
      /\ "solving" \notin InitializeSteps /\ "solving" \notin ExchangeSteps
      /\ Settled("solving", c) /\ IsCouplingOngoing(c) = IsCouplingOngoing(scheme[p])
  <2>1. c.time = scheme[p].time /\ c.timeWindows = scheme[p].timeWindows
    BY <1>5 DEF Alike
  <2>2. IsCouplingOngoing(c) = IsCouplingOngoing(scheme[p])
    BY <2>1 DEF IsCouplingOngoing
  <2> QED
    BY <1>5, <2>2 DEF Alike, RoundAt, WindowAt, InitializeSteps, ExchangeSteps, Late, Settled
<1>8. /\ ReadAt(p, "solving", c) = ReadAt(p, "solving", scheme[p])
      /\ RoundRead(p, "solving", c) = RoundRead(p, "solving", scheme[p])
  BY <1>7 DEF ReadAt, RoundRead
<1>9. /\ Parcels(L, p, channel'[p], ReadAt(p, "solving", c))
      /\ Parcels(L, q, channel'[q], ReadAt(q, pc[q], scheme[q]))
  BY <1>1, <1>4, <1>8 DEF Sampled
<1> QED
  BY <1>1, <1>3, <1>6, <1>7, <1>8, <1>9, QuietSampled

\* Who leaves sends at most its ping.
LEMMA FinalizeSampled ==
  ASSUME IInv, config' = config, NEW L \in Ledgers, Agree(L), Sampled(L),
         NEW p \in Participants, Finalize(p)
  PROVE  Sampled(L)'
<1> DEFINE c == ClearActions(scheme[p])
           q == Other(p)
           place == IF WaitInFinalize
                    THEN IF p = Requesting THEN "receivePong" ELSE "receivePing" ELSE "finalized"
           ping == [kind |-> "ping"]
           n == ReadAt(q, pc[q], scheme[q])
<1>1. /\ TypeOK /\ config \in Configurations /\ pc[p] = "solving"
      /\ ~IsCouplingOngoing(scheme[p])
      /\ scheme' = [scheme EXCEPT ![p] = c] /\ UNCHANGED <<written, received>>
  BY DEF IInv, TypeOK, Finalize, At
<1>2. /\ scheme[p] \in Schemes /\ q \in Participants /\ Other(q) = p
      /\ channel[q] \in Seq(Messages) /\ channel[p] \in Seq(Messages)
      /\ Joins(L, q, pc[q], scheme[q])
  BY <1>1, AgreeAt, Others DEF TypeOK
<1>3. Alike(scheme[p], c)
  BY <1>2, AlikeMembers
<1>4. place \in Leaving
  BY DEF Leaving
<1>5. /\ pc' = [pc EXCEPT ![p] = place]
      /\ IF WaitInFinalize /\ p = Requesting THEN Send(p, ping) ELSE UNCHANGED channel
  BY DEF Finalize, CloseCommunicationChannels, Goto
<1>6. n \in Nat
  BY <1>1, <1>2, Bounds
<1>7. ping \in Messages /\ ping.kind # "data"
  BY DEF Messages
<1> HIDE DEF c, n, place, ping
<1>8. /\ RoundAt(place, c) = RoundAt("solving", scheme[p]) /\ c.time = scheme[p].time
      /\ c.iterations = scheme[p].iterations /\ ~Late(p, place) /\ ~Late(p, "solving")
      /\ place \notin InitializeSteps
      /\ place # "constructed" /\ place \notin ExchangeSteps /\ Settled(place, c)
  BY <1>3, <1>4 DEF Alike, RoundAt, WindowAt, InitializeSteps, ExchangeSteps, Late, Leaving,
     Settled
<1>9. /\ ReadAt(p, place, c) = ReadAt(p, "solving", scheme[p])
      /\ RoundRead(p, place, c) = RoundRead(p, "solving", scheme[p])
  BY <1>1, <1>4, <1>8 DEF ReadAt, RoundRead, Leaving, ExchangeSteps
<1>10. /\ Parcels(L, p, channel[p], ReadAt(p, place, c))
       /\ Parcels(L, q, channel[q], n)
  BY <1>1, <1>2, <1>9 DEF Sampled, n
<1>11. Parcels(L, p, channel'[p], ReadAt(p, place, c)) /\ Parcels(L, q, channel'[q], n)
  <2>1. CASE WaitInFinalize /\ p = Requesting
    <3>1. channel'[p] = channel[p] /\ channel'[q] = Append(channel[q], ping)
      BY <1>1, <1>5, <1>7, <2>1, Sends1
    <3>2. Parcels(L, q, Append(channel[q], ping), n)
      BY <1>2, <1>6, <1>7, <1>10, MoreParcels
    <3> QED
      BY <1>10, <3>1, <3>2
  <2>2. CASE ~(WaitInFinalize /\ p = Requesting)
    BY <1>5, <1>10, <2>2
  <2> QED
    BY <2>1, <2>2
<1> QED
  BY <1>1, <1>5, <1>8, <1>9, <1>11, QuietSampled DEF n

\* A participant that leaves and reads the goodbye has nothing more to read.
LEMMA GoodbyeSampled ==
  ASSUME IInv, config' = config, NEW L \in Ledgers, Agree(L), Sampled(L),
         NEW p \in Participants, pc[p] \in {"receivePing", "receivePong"},
         channel[p] # <<>>, channel'[p] = Tail(channel[p]),
         pc' = [pc EXCEPT ![p] = "finalized"], UNCHANGED <<scheme, written, received>>,
         NEW q, q = Other(p), Parcels(L, q, channel'[q], ReadAt(q, pc[q], scheme[q]))
  PROVE  Sampled(L)'
<1> DEFINE r == RoundAt(pc[p], scheme[p])
<1>1. /\ TypeOK /\ channel[p] \in Seq(Messages) /\ InRound(p, pc[p], scheme[p], L[r])
      /\ Delivers(L, p, pc[p], scheme[p], pc[q], scheme[q], channel[p])
      /\ pc[p] \in Leaving /\ "finalized" \in Leaving
  BY AgreeAt DEF IInv, Leaving
<1>2. ~Open(L[r])
  BY <1>1 DEF InRound
<1>3. Carries(L, p, channel[p], Header(p, r), Header(p, r), Bye(p, pc[p], pc[q]))
  <2>1. ReadAt(p, pc[p], scheme[p]) = Header(p, r) /\ SentAt(q, pc[q], scheme[q]) = Header(p, r)
    BY <1>1, <1>2, AllIsRead
  <2> QED
    BY <1>1, <2>1 DEF Delivers
<1>4. channel'[p] = <<>>
  <2> DEFINE s == Tail(channel[p])
             n == Header(p, r)
  <2>1. s \in Seq(Messages)
    BY <1>1
  <2>2. Carries(L, p, s, n, n, "nothing")
    BY <1>1, <1>3, GoodbyeIsRead
  <2> HIDE DEF s, n
  <2>3. s = <<>>
    BY <2>1, <2>2, GoodbyeIsRead
  <2> QED
    BY <2>3 DEF s
<1>5. Parcels(L, p, channel'[p], ReadAt(p, "finalized", scheme[p]))
  <2>1. \A n : Parcels(L, p, <<>>, n)
    BY DEF Parcels
  <2> QED
    BY <1>4, <2>1
<1>6. /\ RoundAt("finalized", scheme[p]) = RoundAt(pc[p], scheme[p])
      /\ RoundRead(p, "finalized", scheme[p]) = RoundRead(p, pc[p], scheme[p])
      /\ "finalized" \notin InitializeSteps /\ "finalized" \notin ExchangeSteps
      /\ ~Late(p, "finalized") /\ ~Late(p, pc[p]) /\ Settled("finalized", scheme[p])
  BY DEF RoundAt, WindowAt, RoundRead, ExchangeSteps, InitializeSteps, Late, Settled
<1>7. scheme' = [scheme EXCEPT ![p] = scheme[p]]
  BY <1>1, Unchanged
<1> QED
  BY <1>1, <1>5, <1>6, <1>7, QuietSampled

\* The answer to the ping is no data.
LEMMA ReceivePingSampled ==
  ASSUME IInv, config' = config, NEW L \in Ledgers, Agree(L), Sampled(L),
         NEW p \in Participants, ReceivePing(p)
  PROVE  Sampled(L)'
<1> DEFINE q == Other(p)
           pong == [kind |-> "pong"]
           n == ReadAt(q, pc[q], scheme[q])
<1>1. /\ TypeOK /\ config \in Configurations /\ pc[p] = "receivePing"
      /\ channel[p] # <<>> /\ UNCHANGED <<scheme, written, received>>
      /\ pc' = [pc EXCEPT ![p] = "finalized"]
  BY DEF IInv, TypeOK, ReceivePing, At, HasMessage, Goto
<1>2. /\ q \in Participants /\ q # p /\ Other(q) = p /\ Joins(L, q, pc[q], scheme[q])
      /\ channel[q] \in Seq(Messages)
  BY <1>1, AgreeAt, Others
<1>3. channel'[p] = Tail(channel[p]) /\ channel'[q] = Append(channel[q], pong)
  BY <1>1, <1>2 DEF ReceivePing, TypeOK
<1>4. pong \in Messages /\ pong.kind # "data"
  BY DEF Messages
<1>5. n \in Nat /\ Parcels(L, q, channel[q], n)
  BY <1>1, <1>2, Bounds DEF Sampled
<1> HIDE DEF n, pong
<1>6. Parcels(L, q, channel'[q], n)
  BY <1>2, <1>3, <1>4, <1>5, MoreParcels
<1> QED
  BY <1>1, <1>3, <1>6, GoodbyeSampled DEF n

\* Nor does the pong.
LEMMA ReceivePongSampled ==
  ASSUME IInv, config' = config, NEW L \in Ledgers, Agree(L), Sampled(L),
         NEW p \in Participants, ReceivePong(p)
  PROVE  Sampled(L)'
<1> DEFINE q == Other(p)
<1>1. /\ TypeOK /\ config \in Configurations /\ pc[p] = "receivePong"
      /\ channel[p] # <<>> /\ UNCHANGED <<scheme, written, received>>
      /\ pc' = [pc EXCEPT ![p] = "finalized"] /\ Receive(p)
  BY DEF IInv, TypeOK, ReceivePong, At, HasMessage, Goto
<1>2. q \in Participants
  BY <1>1, Others
<1>3. channel'[p] = Tail(channel[p]) /\ channel'[q] = channel[q]
  BY <1>1, Reads1
<1>4. Parcels(L, q, channel'[q], ReadAt(q, pc[q], scheme[q]))
  BY <1>2, <1>3 DEF Sampled
<1> QED
  BY <1>1, <1>3, <1>4, GoodbyeSampled

\* Between the verdict and the data there is nothing.
LEMMA ReceiveConvergenceSampled ==
  ASSUME IInv, config' = config, NEW L \in Ledgers, Agree(L), Sampled(L),
         NEW p \in Participants, ReceiveConvergence(p)
  PROVE  Sampled(L)'
<1> DEFINE c == [scheme[p] EXCEPT !.hasConverged = Head(channel[p]).hasConverged]
           q == Other(p)
           r == RoundAt("receiveConvergence", scheme[p])
<1>1. /\ TypeOK /\ config \in Configurations /\ pc[p] = "receiveConvergence"
      /\ channel[p] # <<>> /\ Receive(p) /\ First # Second
      /\ UNCHANGED <<written, received>>
  BY ConfigTypes DEF IInv, TypeOK, ReceiveConvergence, At, HasMessage
<1>2. pc' = [pc EXCEPT ![p] = "receiveData"] /\ scheme' = [scheme EXCEPT ![p] = c]
  BY <1>1 DEF ReceiveConvergence, Goto, TypeOK
<1>3. /\ scheme[p] \in Schemes /\ Joins(L, p, "receiveConvergence", scheme[p])
      /\ channel[p] \in Seq(Messages) /\ r \in Nat \ {0} /\ q \in Participants
  BY <1>1, AgreeAt, Others DEF TypeOK
<1>4. p = First /\ HasHeader(p)
  <2>1. p = First /\ Implicit
    BY <1>3 DEF Joins, SerialPlaces, Leaving
  <2> QED
    BY <1>1, <2>1, SerialHeaders
<1>5. /\ c.time = scheme[p].time /\ c.timeWindows = scheme[p].timeWindows
      /\ c.totalIterations = scheme[p].totalIterations /\ c.iterations = scheme[p].iterations
  BY <1>3 DEF Schemes
<1> HIDE DEF c
<1>6. /\ RoundAt("receiveData", c) = r /\ "receiveConvergence" \in ExchangeSteps
      /\ "receiveData" \notin InitializeSteps /\ \A place : ~Late(p, place)
  BY <1>1, <1>4, <1>5 DEF RoundAt, WindowAt, ExchangeSteps, Late, InitializeSteps
<1>7. /\ ReadAt(p, "receiveConvergence", scheme[p]) = Header(p, r)
      /\ ReadAt(p, "receiveData", c) = Header(p, r) + 1 /\ Header(p, r) \in Nat
      /\ RoundRead(p, "receiveData", c) = RoundRead(p, "receiveConvergence", scheme[p])
  <2>1. Data(p, r) = Header(p, r) + 1 /\ Header(p, r) \in Nat
    BY <1>3, <1>4, Positions
  <2> QED
    BY <1>1, <1>4, <1>6, <2>1 DEF ReadAt, RoundRead
<1> HIDE DEF r
<1>8. channel'[q] = channel[q] /\ channel'[p] = Tail(channel[p])
  BY <1>1, Reads1
<1>9. /\ Parcels(L, p, channel'[p], ReadAt(p, "receiveData", c))
      /\ Parcels(L, q, channel'[q], ReadAt(q, pc[q], scheme[q]))
  <2>1. /\ Parcels(L, p, channel[p], Header(p, r))
        /\ Parcels(L, q, channel[q], ReadAt(q, pc[q], scheme[q]))
    BY <1>1, <1>3, <1>7 DEF Sampled
  <2> QED
    BY <1>1, <1>3, <1>7, <1>8, <2>1, NextParcels
<1> QED
  BY <1>1, <1>2, <1>4, <1>5, <1>6, <1>7, <1>9, QuietSampled DEF r

\* The size that First sends is no data.
LEMMA SendTimeWindowSizeSampled ==
  ASSUME IInv, config' = config, NEW L \in Ledgers, Agree(L), Sampled(L),
         NEW p \in Participants, SendTimeWindowSize(p)
  PROVE  Sampled(L)'
<1> DEFINE size == Time!TimeOf(scheme[p].time) - scheme[p].time.start
           c == [scheme[p] EXCEPT !.timeWindowSize = size, !.nextTimeWindowSize = Undefined]
           m == [kind |-> "size", size |-> size]
           q == Other(p)
           n == ReadAt(q, pc[q], scheme[q])
<1>1. /\ TypeOK /\ config \in Configurations /\ pc[p] = "sendTimeWindowSize"
      /\ First # Second /\ UNCHANGED <<written, received>> /\ Send(p, m)
  BY ConfigTypes DEF IInv, TypeOK, SendTimeWindowSize, At
<1>2. pc' = [pc EXCEPT ![p] = "sendData"] /\ scheme' = [scheme EXCEPT ![p] = c]
  BY <1>1 DEF SendTimeWindowSize, Goto, TypeOK
<1>3. /\ scheme[p] \in Schemes /\ Joins(L, p, "sendTimeWindowSize", scheme[p])
      /\ q \in Participants /\ Other(q) = p /\ Joins(L, q, pc[q], scheme[q])
      /\ channel[q] \in Seq(Messages)
  BY <1>1, AgreeAt, Others DEF TypeOK
<1>4. p = First
  BY <1>3 DEF Joins, SerialPlaces, Leaving
<1>5. /\ c.time = scheme[p].time /\ c.timeWindows = scheme[p].timeWindows
      /\ c.totalIterations = scheme[p].totalIterations /\ c.iterations = scheme[p].iterations
  BY <1>3 DEF Schemes
<1>6. m \in Messages /\ m.kind # "data"
  <2>1. size \in Nat
    BY <1>3 DEF Schemes, Time!TimeHandlers, Time!TimeOf
  <2> HIDE DEF size
  <2> QED
    BY <2>1 DEF Messages
<1> HIDE DEF c, m
<1>7. /\ RoundAt("sendData", c) = RoundAt("sendTimeWindowSize", scheme[p])
      /\ "sendTimeWindowSize" \in ExchangeSteps /\ "sendData" \notin InitializeSteps
      /\ RoundRead(p, "sendData", c) = RoundRead(p, "sendTimeWindowSize", scheme[p])
      /\ \A place : ~Late(p, place)
  BY <1>1, <1>4, <1>5 DEF RoundAt, WindowAt, ExchangeSteps, InitializeSteps, Late, RoundRead
<1>8. ReadAt(p, "sendData", c) = ReadAt(p, "sendTimeWindowSize", scheme[p])
  BY <1>1, <1>4, <1>7 DEF ReadAt
<1>9. channel'[p] = channel[p] /\ channel'[q] = Append(channel[q], m)
  BY <1>1, <1>6, Sends1
<1>10. /\ Parcels(L, p, channel[p], ReadAt(p, "sendData", c))
       /\ Parcels(L, q, channel[q], n) /\ n \in Nat
  BY <1>1, <1>3, <1>8, Bounds DEF Sampled
<1> HIDE DEF n
<1>11. Parcels(L, q, channel'[q], n)
  BY <1>3, <1>6, <1>9, <1>10, MoreParcels
<1> QED
  BY <1>1, <1>2, <1>4, <1>5, <1>7, <1>9, <1>10, <1>11, QuietSampled DEF n

\* What First sends is of its round.
LEMMA FirstSendsDataSampled ==
  ASSUME IInv, config' = config, NEW L \in Ledgers, Agree(L), Sampled(L),
         NEW p \in Participants, FirstSendsData(p)
  PROVE  Sampled(L)'
<1> DEFINE place == IF Implicit THEN "receiveConvergence" ELSE "receiveData"
           c == scheme[p]
           q == Other(p)
           r == RoundAt("sendData", c)
           n == ReadAt(q, pc[q], scheme[q])
<1>1. /\ TypeOK /\ config \in Configurations /\ pc[p] = "sendData" /\ p = First
      /\ SendStored(p, written[p]) /\ First # Second /\ UNCHANGED <<written, received>>
      /\ pc[p] \in ExchangeSteps
  BY ConfigTypes DEF IInv, TypeOK, FirstSendsData, At, ExchangeSteps
<1>2. pc' = [pc EXCEPT ![p] = place] /\ scheme' = [scheme EXCEPT ![p] = c]
  BY <1>1, Unchanged DEF FirstSendsData, Goto
<1>3. /\ channel[q] \in Seq(Messages) /\ r \in Nat \ {0} /\ q \in Participants
      /\ Stamp(L, r) = Time!TimeOf(c.time)
  BY <1>1, AgreeAt, Others, ExchangeStamps
<1>4. /\ Carries(L, q, channel[q], n, Data(q, r), "nothing") /\ Parcels(L, q, channel[q], n)
  <2>1. pc[p] \notin Leaving /\ SentAt(p, pc[p], c) = Data(q, r)
    BY <1>1 DEF Leaving, SentAt
  <2> QED
    BY <1>1, <1>3, <2>1, Streams DEF Sampled
<1>5. /\ RoundAt(place, c) = r /\ place \notin InitializeSteps /\ place # "constructed"
      /\ RoundRead(p, place, c) = RoundRead(p, "sendData", c)
      /\ \A there : ~Late(p, there)
  BY <1>1 DEF RoundAt, WindowAt, ExchangeSteps, InitializeSteps, Late, RoundRead
<1>6. ReadAt(p, place, c) = ReadAt(p, "sendData", c)
  <2>1. ~Implicit => Data(p, r) = Header(p, r)
    BY <1>1, SerialHeaders DEF Data, Header
  <2> QED
    BY <1>1, <1>5, <2>1 DEF ReadAt
<1>7. /\ Stamped(written[p]) /\ EndsIn(written[p], r, Stamp(L, r))
      /\ p \in Sends => Rooted(written[p], Root(L, r))
  <2>1. RootAt(p, pc[p], c) = Root(L, r)
    BY <1>1, <1>5, RootAgrees DEF RootAt
  <2>2. Holds(L, p, pc[p], c, written[p], received[p])
    BY DEF Sampled
  <2> QED
    BY <1>1, <1>3, <2>1, <2>2 DEF Holds, Starts, Timely
<1> HIDE DEF place, r, n
<1>8. Parcels(L, q, channel'[q], n)
  <2>1. n \in Nat /\ (HasData(q) => n + Len(channel[q]) = Data(q, r))
    BY <1>3, <1>4, Positions DEF Carries
  <2> QED
    BY <1>1, <1>3, <1>4, <1>7, <2>1, SendsParcel
<1>9. Parcels(L, p, channel'[p], ReadAt(p, place, c))
  <2>1. channel'[p] = channel[p]
    BY <1>1, SendsData
  <2> QED
    BY <1>1, <1>6, <2>1 DEF Sampled
<1> QED
  BY <1>1, <1>2, <1>5, <1>8, <1>9, QuietSampled DEF n, r

\* The verdict is no data: with a ledger that has it, the samples stay.
LEMMA SendConvergenceSampled ==
  ASSUME IInv, config' = config, NEW L \in Ledgers, Agree(L), Sampled(L),
         NEW p \in Participants, SendConvergence(p), pc'[p] # "failed",
         NEW K \in Ledgers, Keeps(L, K)
  PROVE  Sampled(K)'
<1> DEFINE q == Other(p)
           r == RoundAt("sendConvergence", scheme[p])
           n == ReadAt(q, pc[q], scheme[q])
<1>1. /\ TypeOK /\ config \in Configurations /\ pc[p] = "sendConvergence"
      /\ First # Second /\ UNCHANGED <<written, received>> /\ Sampled(K)
  BY ConfigTypes, SampledAlike DEF IInv, TypeOK, SendConvergence, At
<1>2. /\ scheme[p] \in Schemes /\ Joins(L, p, "sendConvergence", scheme[p])
      /\ q \in Participants /\ Other(q) = p /\ Joins(L, q, pc[q], scheme[q])
      /\ channel[q] \in Seq(Messages)
  BY <1>1, AgreeAt, Others
<1>3. p = Second
  BY <1>2 DEF Joins, SerialPlaces, Leaving, Participants
<1>4. PICK converged \in SUBSET Measuring :
        LET c == DoImplicitStep(scheme[p], converged)
        IN  IF StrictMeasureFails(scheme[p], converged)
            THEN Goto(p, "failed")
            ELSE /\ Goto(p, "sendData")
                 /\ scheme' = [scheme EXCEPT ![p] = c]
                 /\ Send(p, [kind |-> "convergence", hasConverged |-> c.hasConverged])
  BY DEF SendConvergence
<1> DEFINE c == DoImplicitStep(scheme[p], converged)
           m == [kind |-> "convergence", hasConverged |-> c.hasConverged]
<1>5. /\ pc' = [pc EXCEPT ![p] = "sendData"] /\ scheme' = [scheme EXCEPT ![p] = c]
      /\ Send(p, m)
  BY <1>1, <1>4 DEF Goto, TypeOK
<1>6. /\ c \in Schemes /\ c.time = scheme[p].time /\ c.timeWindows = scheme[p].timeWindows
      /\ c.totalIterations = scheme[p].totalIterations /\ c.iterations = scheme[p].iterations
  BY <1>2, DoImplicitStepMembers
<1>7. m \in Messages /\ m.kind # "data"
  BY <1>6 DEF Messages, Schemes
<1> HIDE DEF c, m
<1>8. /\ RoundAt("sendData", c) = r /\ "sendConvergence" \in ExchangeSteps
      /\ "sendData" \notin InitializeSteps /\ Settled("sendData", c)
      /\ RoundRead(p, "sendData", c) = RoundRead(p, "sendConvergence", scheme[p])
      /\ ~Late(p, "sendData") /\ ~Late(p, "sendConvergence")
  BY <1>1, <1>3, <1>6 DEF RoundAt, WindowAt, ExchangeSteps, InitializeSteps, Late, RoundRead,
     Settled
<1>9. ReadAt(p, "sendData", c) = ReadAt(p, "sendConvergence", scheme[p])
  BY <1>1, <1>3, <1>8 DEF ReadAt
<1>10. channel'[p] = channel[p] /\ channel'[q] = Append(channel[q], m)
  BY <1>1, <1>5, <1>7, Sends1
<1>11. /\ Parcels(K, p, channel[p], ReadAt(p, "sendData", c))
       /\ Parcels(K, q, channel[q], n) /\ n \in Nat
  BY <1>1, <1>2, <1>9, Bounds DEF Sampled
<1> HIDE DEF n, r
<1>12. Parcels(K, q, channel'[q], n)
  BY <1>2, <1>7, <1>10, <1>11, MoreParcels
<1> QED
  BY <1>1, <1>5, <1>6, <1>8, <1>9, <1>10, <1>11, <1>12, QuietSampled DEF n, r

\* The size that Second receives at the end of an iteration is the one it has.
LEMMA ReceiveTimeWindowSizeSampled ==
  ASSUME IInv, config' = config, NEW L \in Ledgers, Agree(L), Sampled(L),
         NEW p \in Participants, ReceiveTimeWindowSize(p), pc'[p] # "failed"
  PROVE  Sampled(L)'
<1> DEFINE from == "receiveTimeWindowSize"
           dt == Head(channel[p]).size
           iterating == Implicit /\ ~scheme[p].hasConverged
           place == IF iterating THEN "receiveData" ELSE "receiveDataForWindowEnd"
           c == [scheme[p] EXCEPT !.nextTimeWindowSize = dt]
           q == Other(p)
           r == RoundAt(from, scheme[p])
<1>1. /\ TypeOK /\ config \in Configurations /\ pc[p] = from /\ channel[p] # <<>>
      /\ Receive(p) /\ First # Second /\ UNCHANGED <<written, received>>
      /\ from \in ExchangeSteps
  BY ConfigTypes DEF IInv, TypeOK, ReceiveTimeWindowSize, At, HasMessage, ExchangeSteps
<1>2. /\ pc' = [pc EXCEPT ![p] = place] /\ scheme' = [scheme EXCEPT ![p] = c]
      /\ ~(HasTimeWindowSize(scheme[p]) /\ iterating /\ dt # scheme[p].timeWindowSize)
  BY <1>1 DEF ReceiveTimeWindowSize, Goto, TypeOK
<1>3. /\ scheme[p] \in Schemes /\ Joins(L, p, from, scheme[p]) /\ q \in Participants
      /\ channel[p] \in Seq(Messages) /\ r \in Nat \ {0}
      /\ InRound(p, from, scheme[p], L[r]) /\ L[r] \in Entries
  BY <1>1, AgreeAt, Others DEF TypeOK
<1>4. p = Second /\ TimeWindowSize = Undefined /\ HasHeader(p)
  <2>1. TimeWindowSize = Undefined
    BY <1>1 DEF IInv, Consistent, SizeIsKnown
  <2>2. p # First
    BY <1>3 DEF Joins, SerialPlaces, Leaving
  <2> QED
    BY <1>1, <2>1, <2>2, SerialHeaders DEF Participants
<1>5. /\ c.time = scheme[p].time /\ c.timeWindows = scheme[p].timeWindows
      /\ c.totalIterations = scheme[p].totalIterations /\ c.iterations = scheme[p].iterations
      /\ c.timeWindowSize = scheme[p].timeWindowSize /\ c.nextTimeWindowSize = dt
      /\ c.hasConverged = scheme[p].hasConverged
  BY <1>3 DEF Schemes
<1>6. HasTimeWindowSize(scheme[p])
  <2>1. scheme[p].timeWindowSize = Size(L[r]) /\ scheme[p].time \in Time!TimeHandlers
        /\ L[r].end = Time!TimeOf(scheme[p].time) /\ L[r].start = scheme[p].time.start
    BY <1>1, <1>3, <1>4 DEF InRound, Schemes
  <2>2. scheme[p].timeWindowSize \in Nat
    BY <2>1 DEF Size, Time!TimeOf, Time!TimeHandlers
  <2> QED
    BY <2>2 DEF HasTimeWindowSize, Undefined, Time!Undefined
<1>7. Settled(place, c)
  BY <1>2, <1>5, <1>6 DEF Settled, Complete
<1> HIDE DEF c, dt, iterating
<1>8. /\ RoundAt(place, c) = r /\ place \notin InitializeSteps
      /\ RoundRead(p, place, c) = RoundRead(p, from, scheme[p]) /\ place # "constructed"
      /\ Late(p, place) /\ Late(p, from)
  BY <1>3, <1>4, <1>5 DEF RoundAt, WindowAt, ExchangeSteps, Late, InitializeSteps, RoundRead
<1>9. /\ ReadAt(p, from, scheme[p]) = Header(p, r + 1)
      /\ ReadAt(p, place, c) = Header(p, r + 1) + 1 /\ Header(p, r + 1) \in Nat
  <2>1. Data(p, r + 1) = Header(p, r + 1) + 1 /\ Header(p, r + 1) \in Nat
    <3>1. r + 1 \in Nat /\ r + 1 >= 1
      BY <1>3
    <3> QED
      BY <1>4, <3>1, Positions
  <2> QED
    BY <1>1, <1>4, <1>8, <2>1 DEF ReadAt
<1> HIDE DEF r, place
<1>10. channel'[q] = channel[q] /\ channel'[p] = Tail(channel[p])
  BY <1>1, Reads1
<1>11. /\ Parcels(L, p, channel'[p], ReadAt(p, place, c))
       /\ Parcels(L, q, channel'[q], ReadAt(q, pc[q], scheme[q]))
  <2>1. /\ Parcels(L, p, channel[p], Header(p, r + 1))
        /\ Parcels(L, q, channel[q], ReadAt(q, pc[q], scheme[q]))
    BY <1>1, <1>3, <1>9 DEF Sampled
  <2> DEFINE n == Header(p, r + 1)
  <2>2. n \in Int /\ Parcels(L, p, channel[p], n)
    BY <1>9, <2>1
  <2> HIDE DEF n
  <2>3. Parcels(L, p, Tail(channel[p]), n + 1)
    BY <1>1, <1>3, <2>2, NextParcels
  <2> QED
    BY <1>9, <1>10, <2>1, <2>3 DEF n
<1> QED
  BY <1>1, <1>2, <1>5, <1>7, <1>8, <1>11, QuietSampled DEF r

\* A step of Second inside its window does not end the coupling.
LEMMA StaysOngoing ==
  ASSUME TypeOK, NEW L \in Ledgers, Agree(L), First # Second, pc[Second] = "solving",
         NEW b, b = scheme[Second], IsCouplingOngoing(b),
         NEW dt \in Nat \ {0}, dt <= NextTimeStepMaxSize(b),
         NEW a, a = AddComputedTime(b, dt), ~ReachedEndOfTimeWindow(a)
  PROVE  IsCouplingOngoing(FirstExchange(a))
<1> DEFINE r == RoundAt("solving", b)
           d == FirstExchange(a)
           e == L[r]
<1>1. /\ config \in Configurations /\ Second \in Participants /\ b \in Schemes
      /\ e \in Entries /\ Proper(e) /\ InRound(Second, "solving", b, e)
  BY AgreeAt DEF TypeOK, Participants
<1> HIDE DEF e
<1>2. Open(e)
  <2>1. "solving" \notin ExchangeSteps
    BY DEF ExchangeSteps
  <2> QED
    BY <1>1, <2>1, OngoingIsOpen
<1>3. d \in Schemes
  BY <1>1, AddComputedTimeMembers, FirstExchangeMembers
<1>4. InRound(Second, "solving", d, e)
  <2>1. "sendData" \in ExchangeSteps /\ ~SetsSize(Second) /\ e = EndSet(Second, e, d)
        /\ "sendData" # "sendTimeWindowSize"
    BY DEF ExchangeSteps, SetsSize, EndSet
  <2> HIDE DEF d
  <2>2. d = FirstExchange(a)
    BY DEF d
  <2> QED
    BY <1>1, <2>1, <2>2, AdvanceInRound
<1> HIDE DEF d
<1>5. IsCouplingOngoing(d)
  <2>1. "solving" \notin ExchangeSteps
    BY DEF ExchangeSteps
  <2> QED
    BY <1>1, <1>2, <1>3, <1>4, <2>1, OngoingIsOpen
<1> QED
  BY <1>5 DEF d

\* A step to the end of a window writes what its round is to send.
LEMMA AdvanceSampled ==
  ASSUME IInv, config' = config, NEW L \in Ledgers, Agree(L), Sampled(L),
         NEW p \in Participants, Advance(p, ExchangeFirstData(p)),
         NEW K \in Ledgers, Keeps(L, K)
  PROVE  Sampled(K)'
<1> DEFINE b == scheme[p]
           q == Other(p)
           r == RoundAt("solving", b)
<1>1. /\ TypeOK /\ config \in Configurations /\ pc[p] = "solving" /\ channel' = channel
      /\ received' = received /\ StepBound \in Nat /\ First # Second /\ Sampled(K)
      /\ IsCouplingOngoing(b) /\ p \in {First, Second}
  BY ConfigAssumption, ConfigTypes, SampledAlike DEF IInv, TypeOK, Advance, At, Participants
<1>2. PICK dt \in 1 .. StepBound :
        LET a == AddComputedTime(b, dt)
        IN  /\ dt <= NextTimeStepMaxSize(b)
            /\ scheme' = [scheme EXCEPT ![p] = FirstExchange(a)]
            /\ Goto(p, IF ReachedEndOfTimeWindow(a) THEN ExchangeFirstData(p) ELSE "solving")
  BY DEF Advance
<1> DEFINE a == AddComputedTime(b, dt)
           c == FirstExchange(a)
           place == IF ReachedEndOfTimeWindow(a) THEN ExchangeFirstData(p) ELSE "solving"
           now == Time!TimeOf(c.time)
<1>3. /\ dt \in Nat \ {0} /\ dt <= NextTimeStepMaxSize(b)
      /\ pc' = [pc EXCEPT ![p] = place] /\ scheme' = [scheme EXCEPT ![p] = c]
  BY <1>1, <1>2 DEF Goto
<1>4. /\ b \in Schemes /\ q \in Participants /\ q # p
      /\ pc'[p] = place /\ scheme'[p] = c
  BY <1>1, <1>3, Others DEF TypeOK
<1>5. /\ c.timeWindows = IF ReachedEndOfTimeWindow(a) THEN b.timeWindows + 1
                         ELSE b.timeWindows
      /\ c.totalIterations = b.totalIterations /\ c.time.start = b.time.start
      /\ c.iterations = b.iterations
  BY <1>3, <1>4, AdvanceMembers
<1>6. /\ p = First => place \in {"sendTimeWindowSize", "sendData", "solving"}
      /\ p = Second => place \in {"sendConvergence", "sendData", "solving"}
      /\ place \in ExchangeSteps <=> ReachedEndOfTimeWindow(a)
      /\ "solving" \notin ExchangeSteps
      /\ {"sendTimeWindowSize", "sendConvergence", "sendData"} \subseteq ExchangeSteps
  BY <1>1 DEF ExchangeFirstData, ExchangeSteps
<1>7. p = Second /\ place = "solving" => IsCouplingOngoing(c)
  <2> HIDE DEF c
  <2>1. ASSUME p = Second, ~ReachedEndOfTimeWindow(a) PROVE IsCouplingOngoing(c)
    BY <1>1, <1>3, <2>1, StaysOngoing DEF c
  <2> QED
    BY <1>6, <2>1
<1> HIDE DEF a, c, place, b
<1>8. /\ RoundAt(place, c) = r /\ Round(b) = r /\ r \in Nat
      /\ RootAt(p, place, c) = OwnRoot("solving", b)
      /\ RootAt(p, "solving", b) = OwnRoot("solving", b)
  <2>1. ~Late(p, place) /\ ~Late(p, "solving")
    BY <1>1, <1>6 DEF Late
  <2>2. RoundAt(place, c) = r /\ Round(b) = r /\ r \in Nat
    BY <1>4, <1>5, <1>6 DEF RoundAt, WindowAt, Round, Schemes
  <2> QED
    BY <1>5, <2>1, <2>2 DEF RootAt, OwnRoot
<1>9. /\ ReadAt(p, place, c) = ReadAt(p, "solving", b)
      /\ RoundRead(p, place, c) = RoundRead(p, "solving", b)
      /\ RoundRead(p, place, c) \in Int
  BY <1>1, <1>6, <1>7, <1>8 DEF ReadAt, RoundRead
<1>10. /\ Holds(K, p, "solving", b, written[p], received[p])
       /\ Parcels(K, p, channel[p], ReadAt(p, "solving", b))
       /\ Parcels(K, q, channel[q], ReadAt(q, pc[q], scheme[q]))
  BY <1>1, <1>4 DEF Sampled, b
<1>11. Timely(written'[p], now) /\ (place # "solving" => EndsIn(written'[p], r, now))
  <2>1. Timely(written[p], Time!TimeOf(b.time))
    BY <1>10 DEF Holds
  <2> QED
    BY <1>1, <1>4, <1>8, <2>1, AdvanceSamples DEF b
<1>12. /\ place \notin InitializeSteps /\ place # "constructed" /\ Settled(place, c)
       /\ place \in ExchangeSteps => place # "solving"
  BY <1>1, <1>6 DEF InitializeSteps, Settled
<1>13. Holds(K, p, place, c, written'[p], received'[p])
  <2>1. Got(K, p, RoundRead(p, place, c), received'[p])
    BY <1>1, <1>9, <1>10 DEF Holds
  <2>2. place \in ExchangeSteps => EndsIn(written'[p], RoundAt(place, c), now)
    BY <1>8, <1>11, <1>12
  <2>3. Starts(p, RootAt(p, place, c), written'[p], received'[p])
    <3> DEFINE root == OwnRoot("solving", b)
    <3>1. root.t <= Time!TimeOf(scheme[p].time)
      BY <1>1, RootAgrees DEF OwnRoot, RootOf, b
    <3> HIDE DEF root
    <3>2. Rooted(written[p], root) => root \in Samples
      <4>1. written[p] \in SUBSET Samples
        BY <1>1 DEF TypeOK
      <4> QED
        BY <4>1 DEF Rooted, TrimAfter
    <3>3. Rooted(written[p], root) => Rooted(written'[p], root)
      BY <1>1, <1>10, <3>1, <3>2, AdvanceSamples DEF Holds, b
    <3>4. Starts(p, root, written[p], received[p])
      BY <1>8, <1>10 DEF Holds, root
    <3> QED
      BY <1>1, <1>8, <3>3, <3>4 DEF Starts, root
  <2> QED
    BY <1>11, <1>12, <2>1, <2>2, <2>3 DEF Holds
<1>14. p = Second => Steady(K, place, c)
  <2> SUFFICES ASSUME p = Second PROVE Steady(K, place, c)
    OBVIOUS
  <2>1. Steady(K, "solving", b)
    BY <1>1 DEF Sampled, b
  <2> DEFINE k == RoundRead(p, place, c)
  <2>2. k \in Int /\ k = RoundRead(Second, "solving", b) /\ k = RoundRead(Second, place, c)
        /\ k <= k
    BY <1>9
  <2> HIDE DEF k
  <2> QED
    BY <1>5, <1>12, <2>1, <2>2, SteadyOn
<1>15. written'[q] = written[q] /\ received'[q] = received[q]
  BY <1>1, <1>4 DEF Advance, TypeOK
<1>16. /\ Parcels(K, p, channel'[p], ReadAt(p, place, c))
       /\ Parcels(K, q, channel'[q], ReadAt(q, pc[q], scheme[q]))
  BY <1>1, <1>9, <1>10
<1> HIDE DEF q
<1> QED
  BY <1>1, <1>3, <1>13, <1>14, <1>15, <1>16, SampledStep DEF q

\* A multiple before another leaves room for the one in between.
LEMMA NextMultiple ==
  ASSUME NEW size \in Nat \ {0}, NEW n \in Nat, NEW m \in Nat, n * size < m * size
  PROVE  n * size + size = (n + 1) * size /\ (n + 1) * size <= m * size
<1>1. n < m
  <2> SUFFICES ASSUME m <= n PROVE FALSE
    OBVIOUS
  <2>1. n - m \in Nat /\ n * size = m * size + (n - m) * size
    OBVIOUS
  <2>2. (n - m) * size \in Nat /\ m * size \in Nat
    BY <2>1
  <2> QED
    BY <2>1, <2>2
<1>2. m - (n + 1) \in Nat /\ m * size = (n + 1) * size + (m - (n + 1)) * size
  BY <1>1
<1>3. (m - (n + 1)) * size \in Nat /\ (n + 1) * size \in Nat
  BY <1>2
<1> QED
  BY <1>2, <1>3

\* Where the windows fit into max-time, none of them is truncated.
LEMMA FittedEnd ==
  ASSUME config \in Configurations, WindowsFit, Fitted, NEW e \in Entries, Proper(e), Open(e),
         NEW n \in Nat, e.start = n * TimeWindowSize
  PROVE  e.end = e.start + TimeWindowSize /\ e.end = (n + 1) * TimeWindowSize
<1> DEFINE size == TimeWindowSize
<1>1. /\ size \in Nat \ {0} /\ e.start \in Nat /\ e.end = WindowEnd(e.start, size)
      /\ MaxTime # Undefined => e.start < MaxTime
  BY ConfigTypes DEF Fitted, Proper, Open, Entries
<1>2. n * size + size = (n + 1) * size
  BY <1>1
<1>3. MaxTime # Undefined => e.start + size <= MaxTime
  <2> SUFFICES ASSUME MaxTime # Undefined PROVE e.start + size <= MaxTime
    OBVIOUS
  <2>1. PICK m \in Nat : MaxTime = m * size
    BY DEF WindowsFit
  <2>2. n * size < m * size
    BY <1>1, <2>1
  <2> HIDE DEF size
  <2>3. (n + 1) * size <= m * size
    BY <1>1, <2>2, NextMultiple
  <2> QED
    BY <1>2, <2>1, <2>3 DEF size
<1>4. e.end = e.start + size
  <2>1. MaxTime # Undefined => MaxTime \in Nat
    BY ConfigTypes
  <2> QED
    BY <1>1, <1>3, <2>1 DEF WindowEnd
<1> QED
  BY <1>2, <1>4

\* Second stores what it receives for the window to come at the end of that.
LEMMA EndToCome ==
  ASSUME config \in Configurations, First \in Sends \ Substeps, WindowsFit, NEW c \in Schemes,
         NEW e \in Entries, Proper(e), Open(e), e.start = Time!TimeOf(c.time),
         IF TimeWindowSize = Undefined THEN c.nextTimeWindowSize = Size(e)
         ELSE /\ c.nextTimeWindowSize = TimeWindowSize
              /\ \E n \in Nat : e.start = n * TimeWindowSize
  PROVE  WindowEndToCome(c) = e.end
<1>1. /\ c.time \in Time!TimeHandlers /\ e.start \in Nat /\ e.end \in Nat
  BY DEF Schemes, Entries
<1>2. c.nextTimeWindowSize = e.end - e.start
  <2>1. CASE TimeWindowSize = Undefined
    BY <2>1 DEF Size
  <2>2. CASE TimeWindowSize # Undefined
    <3>1. e.end = e.start + TimeWindowSize /\ TimeWindowSize \in Nat
      BY <2>2, FittedEnd, ConfigTypes DEF Fitted
    <3> QED
      BY <1>1, <2>2, <3>1
  <2> QED
    BY <2>1, <2>2
<1>3. WindowEndToCome(c) = c.time.start + (c.time.progress + c.nextTimeWindowSize)
  BY <1>1 DEF WindowEndToCome, Time!TimeOf, Time!ProgressBy, Time!TimeHandlers
<1> QED
  BY <1>1, <1>2, <1>3 DEF Time!TimeOf, Time!TimeHandlers

\* Data that Second can receive is of a round that First has come to.
LEMMA DataIsWritten ==
  ASSUME TypeOK, NEW L \in Ledgers, Agree(L), First \in Sends, CanReceiveData(Second),
         NEW k \in Nat \ {0}, ReadAt(Second, pc[Second], scheme[Second]) = Data(Second, k)
  PROVE  k <= RoundAt(pc[First], scheme[First]) /\ Kept(L, k)
<1> DEFINE p == Second
           s == RoundAt(pc[First], scheme[First])
           m == SentAt(First, pc[First], scheme[First])
<1>1. /\ config \in Configurations /\ p \in Participants /\ First \in Participants
      /\ Other(p) = First /\ HasData(p) /\ Other(First) = p
  <2>1. config \in Configurations /\ First # Second
    BY ConfigTypes DEF TypeOK
  <2> QED
    BY <2>1 DEF Participants, Other, HasData
<1>2. /\ channel[p] # <<>> /\ Head(channel[p]).kind = "data" /\ channel[p] \in Seq(Messages)
  BY <1>1 DEF CanReceiveData, HasMessage, TypeOK
<1>3. Carries(L, p, channel[p], Data(p, k), m, Bye(p, pc[p], pc[First]))
  BY <1>1, AgreeAt DEF Delivers
<1>4. Data(p, k) < m
  BY <1>2, <1>3, NotAllRead
<1>5. /\ s \in Nat \ {0} /\ Kept(L, s) /\ m \in Nat /\ m <= Header(p, s + 1)
  BY <1>1, AgreeAt, Bounds DEF Tracks
<1> HIDE DEF m, s, p
<1>6. k <= s
  <2> SUFFICES ASSUME s < k PROVE FALSE
    BY <1>5
  <2>1. Header(p, s + 1) <= Header(p, k) /\ Header(p, k) <= Data(p, k)
    BY <1>5, PositionsInOrder
  <2>2. Header(p, s + 1) \in Nat /\ Header(p, k) \in Nat /\ Data(p, k) \in Nat
    <3>1. k >= 1 /\ s + 1 >= 1 /\ s + 1 \in Nat
      BY <1>5
    <3> QED
      BY <3>1, Positions
  <2> QED
    BY <1>4, <1>5, <2>1, <2>2
<1>7. Kept(L, k)
  BY <1>5, <1>6, KeptBefore
<1> QED
  BY <1>6, <1>7 DEF s

\* The data that Second receives for the window to come is of the next round.
LEMMA WindowToCome ==
  ASSUME IInv, NEW L \in Ledgers, Agree(L), Sampled(L), WindowsFit,
         pc[Second] = "receiveDataForWindowEnd", CanReceiveData(Second),
         First \in Sends \ Substeps, NEW r, r = RoundAt(pc[Second], scheme[Second])
  PROVE  WindowEndToCome(scheme[Second]) = Stamp(L, r + 1)
<1> DEFINE p == Second
           c == scheme[p]
           e == L[r]
           f == L[r + 1]
<1>1. /\ TypeOK /\ config \in Configurations /\ p \in Participants /\ First # Second
      /\ pc[p] \in ExchangeSteps /\ pc[p] \in Told(p) /\ pc[p] \in Receives
      /\ SizeIsKnown(pc[p], c)
  <2>1. TypeOK /\ config \in Configurations /\ First # Second
    BY ConfigTypes DEF IInv, TypeOK
  <2> QED
    BY <2>1 DEF ExchangeSteps, Told, Receives, Participants, IInv, Consistent
<1>2. /\ c \in Schemes /\ Joins(L, p, pc[p], c) /\ r \in Nat \ {0} /\ Alike(c, c)
      /\ RoundAt(pc[p], c) = r
  BY <1>1, AgreeAt DEF Alike
<1>3. /\ e \in Entries /\ Proper(e) /\ InRound(p, pc[p], c, e)
      /\ Complete(c) <=> Done(e)
  BY <1>1, <1>2, FinishKnows
<1>4. r + 1 \in Nat \ {0} /\ Kept(L, r + 1)
  <2>1. r + 1 \in Nat \ {0}
    BY <1>2
  <2>2. ReadAt(p, pc[p], c) = Data(p, r + 1)
    BY <1>1, <1>2 DEF ReadAt
  <2> QED
    BY <1>1, <2>1, <2>2, DataIsWritten
<1>5. Follows(e, f) /\ Proper(f) /\ f \in Entries
  <2>1. r \in 1 .. (r + 1) - 1 /\ r + 1 \in 1 .. r + 1
    BY <1>2
  <2> QED
    BY <1>4, <2>1 DEF Kept, Ledgers
<1>6. Stamp(L, r + 1) = f.end
  BY <1>2 DEF Stamp
<1>7. SizeAhead(L, pc[p], c) \/ TimeWindowSize # Undefined
  BY <1>1, <1>2 DEF Joins
<1>8. TimeWindowSize = Undefined => c.nextTimeWindowSize = Size(f)
  <2>1. Ahead(pc[p], c) = r + 1
    BY <1>2 DEF Ahead, Early, InitializeSteps
  <2> QED
    BY <1>7, <2>1 DEF SizeAhead
<1>9. Steady(L, pc[p], c) /\ WantsData(c)
  BY <1>1, <1>2 DEF Sampled, Joins
<1> HIDE DEF e, f
<1>10. Open(f)
  BY <1>1, <1>2, <1>3, <1>5, <1>9, WantsDataIsOpen
<1>11. Open(e) /\ f.start = e.end /\ e.end = Time!TimeOf(c.time) /\ e.start = c.time.start
  BY <1>1, <1>3, <1>5, <1>9 DEF Follows, Steady, Settled, InRound
<1>12. TimeWindowSize # Undefined =>
         /\ c.nextTimeWindowSize = TimeWindowSize
         /\ \E n \in Nat : f.start = n * TimeWindowSize
  <2> SUFFICES ASSUME TimeWindowSize # Undefined
               PROVE  /\ c.nextTimeWindowSize = TimeWindowSize
                      /\ \E n \in Nat : f.start = n * TimeWindowSize
    OBVIOUS
  <2>1. c.nextTimeWindowSize = TimeWindowSize
    BY <1>1 DEF SizeIsKnown
  <2>2. Fitted
    BY DEF Fitted
  <2>3. PICK n \in Nat : e.start = n * TimeWindowSize
    BY <1>9, <1>11, <2>2 DEF Steady
  <2>4. f.start = (n + 1) * TimeWindowSize /\ n + 1 \in Nat
    BY <1>1, <1>3, <1>11, <2>2, <2>3, FittedEnd
  <2> QED
    BY <2>1, <2>4
<1>13. f.start = Time!TimeOf(c.time)
  BY <1>11
<1> HIDE DEF c
<1>14. WindowEndToCome(c) = f.end
  BY <1>1, <1>2, <1>5, <1>8, <1>10, <1>12, <1>13, EndToCome
<1> QED
  BY <1>6, <1>14 DEF c

\* What is received for a round, after its root, starts from that.
LEMMA RootReceived ==
  ASSUME TypeOK, NEW L, NEW p \in Participants, CanReceiveData(p), HasData(p),
         NEW r \in Nat \ {0}, Parcels(L, p, channel[p], Data(p, r)),
         Rooted(received[p], Root(L, r)), NEW time \in Nat,
         Other(p) \notin Substeps => time = Stamp(L, r) /\ Root(L, r).t < time
  PROVE  Rooted(ReceivedAt(p, time), Root(L, r))
<1>1. Root(L, r) \in Samples
  <2>1. received[p] \in SUBSET Samples
    BY DEF TypeOK
  <2> QED
    BY <2>1 DEF Rooted, TrimAfter
<1> QED
  BY <1>1, ReceivesRoot

\* The first data of First is of the first round.
LEMMA InitReceiveDataForWindowEndSampled ==
  ASSUME IInv, config' = config, NEW L \in Ledgers, Agree(L), Sampled(L), WindowsFit,
         NEW p \in Participants, InitReceiveDataForWindowEnd(p), IInv'
  PROVE  Sampled(L)'
<1> DEFINE from == "initReceiveDataForWindowEnd"
           b == scheme[p]
           c == [b EXCEPT !.timeWindowSize = b.nextTimeWindowSize]
           d == NotifyDataHasBeenReceived(c)
           q == Other(p)
           time == WindowEndToCome(c)
<1>1. /\ TypeOK /\ config \in Configurations /\ pc[p] = from /\ First # Second
      /\ CanReceiveData(p) /\ ReceiveDataMessage(p) /\ written' = written
      /\ received' = [received EXCEPT ![p] = ReceivedAt(p, time)]
      /\ from \notin ExchangeSteps /\ "solving" \notin ExchangeSteps /\ from \in InitializeSteps
  BY ConfigTypes DEF IInv, TypeOK, InitReceiveDataForWindowEnd, At, ExchangeSteps,
     InitializeSteps
<1>2. pc' = [pc EXCEPT ![p] = "solving"] /\ scheme' = [scheme EXCEPT ![p] = d]
  BY <1>1 DEF InitReceiveDataForWindowEnd, Goto, TypeOK
<1>3. /\ b \in Schemes /\ Joins(L, p, from, b) /\ Tracks(L, p, from, b)
      /\ q \in Participants /\ q # p /\ SizeIsKnown(from, b)
  BY <1>1, AgreeAt, Others DEF IInv, Consistent
<1>4. /\ RoundAt(from, b) = 1 /\ Kept(L, 1) /\ InRound(p, from, b, L[1]) /\ L[1] \in Entries
      /\ b.time.progress = 0 /\ b.time.start = L[1].start /\ L[1].start = 0
      /\ b.iterations = 1 /\ L[1].iteration = 1
  BY <1>3 DEF Tracks, InRound, Early, InitializeSteps, Kept, First1, Ledgers
<1>5. Proper(L[1]) /\ Open(L[1]) /\ Stamp(L, 1) = L[1].end /\ Stamp(L, 0) = 0
  <2>1. Proper(L[1]) /\ First1(L[1])
    BY <1>4 DEF Kept
  <2> QED
    BY <1>1, <2>1, FirstIsOpen DEF Stamp
<1>6. p = Second
  BY <1>3 DEF Joins, SerialPlaces, Leaving, Participants
<1>7. /\ c \in Schemes /\ c.time = b.time /\ c.nextTimeWindowSize = b.nextTimeWindowSize
      /\ d.time = b.time /\ d.timeWindows = b.timeWindows
      /\ d.totalIterations = b.totalIterations /\ d.iterations = b.iterations
  BY <1>3 DEF Schemes, NotifyDataHasBeenReceived
<1>8. IsCouplingOngoing(d) /\ RoundAt("solving", d) = 1
  <2>1. IsCouplingOngoing(b)
    BY <1>1, <1>3, <1>4, <1>5, OngoingIsOpen
  <2> HIDE DEF d
  <2>2. IsCouplingOngoing(d)
    BY <1>7, <2>1 DEF IsCouplingOngoing
  <2> QED
    BY <1>1, <1>4, <1>7, <2>2 DEF RoundAt, WindowAt
<1>9. /\ TimeWindowSize = Undefined => b.nextTimeWindowSize = Size(L[1])
      /\ TimeWindowSize # Undefined => b.nextTimeWindowSize = TimeWindowSize
  <2>1. Ahead(from, b) = 1
    BY <1>4 DEF Ahead, Early, InitializeSteps
  <2> QED
    BY <1>3, <1>6, <2>1 DEF Joins, SizeAhead, SizeIsKnown
<1>10. time \in Nat
  BY <1>3, <1>7, WindowEndType DEF SizeIsKnown
<1> HIDE DEF c, d
<1>11. HasData(p) /\ q \notin Substeps => time = Stamp(L, 1) /\ Stamp(L, 0) <= time
  <2> SUFFICES ASSUME HasData(p), q \notin Substeps PROVE time = Stamp(L, 1) /\ Stamp(L, 0) <= time
    OBVIOUS
  <2>1. First \in Sends \ Substeps
    BY <1>1, <1>6 DEF HasData, Other
  <2>2. Time!TimeOf(c.time) = 0
    BY <1>4, <1>7 DEF Time!TimeOf
  <2>3. TimeWindowSize # Undefined => 0 \in Nat /\ L[1].start = 0 * TimeWindowSize
    <3>1. TimeWindowSize # Undefined => TimeWindowSize \in Nat
      BY <1>1, ConfigTypes
    <3> QED
      BY <1>4, <3>1
  <2>4. WindowEndToCome(c) = L[1].end
    <3>1. TimeWindowSize # Undefined => \E n \in Nat : L[1].start = n * TimeWindowSize
      BY <2>3
    <3> QED
      BY <1>1, <1>4, <1>5, <1>7, <1>9, <2>1, <2>2, <3>1, EndToCome
  <2> QED
    BY <1>5, <1>10, <2>4
<1> HIDE DEF time, b
<1>12. /\ RoundRead(p, from, b) = 0 /\ RoundRead(p, "solving", d) = 1
       /\ ReadAt(p, from, b) = Data(p, 1) /\ ReadAt(p, "solving", d) = Header(p, 1 + 1)
  BY <1>1, <1>4, <1>6, <1>8 DEF RoundRead, ReadAt
<1>13. /\ Holds(L, p, from, b, written[p], received[p])
       /\ Parcels(L, p, channel[p], Data(p, 1))
       /\ Parcels(L, q, channel[q], ReadAt(q, pc[q], scheme[q]))
       /\ Steady(L, from, b)
  BY <1>1, <1>3, <1>6, <1>12 DEF Sampled, b
<1>14. Got(L, p, 0, received[p]) /\ Starts(p, RootOf(0, 0), written[p], received[p])
  <2>1. ~Late(p, from)
    BY DEF Late
  <2>2. RootAt(p, from, b) = RootOf(0, 0)
    BY <1>4, <2>1 DEF RootAt, OwnRoot
  <2> QED
    BY <1>1, <1>12, <1>13, <2>2 DEF Holds
<1>15. Root(L, 1) = RootOf(0, 0) /\ RootAt(p, "solving", d) = RootOf(0, 0)
  <2>1. ~Late(p, "solving")
    BY DEF Late
  <2> QED
    BY <1>4, <1>7, <1>8, <2>1 DEF Root, RootAt, OwnRoot
<1>16. 0 < Stamp(L, 1)
  <2>1. CASE TimeWindowSize = Undefined
    <3>1. SizeAhead(L, from, b) /\ Ahead(from, b) = 1
      BY <1>3, <1>4, <1>6, <2>1 DEF Joins, Ahead, Early, InitializeSteps
    <3> QED
      BY <1>4, <1>5, <3>1 DEF SizeAhead
  <2>2. CASE TimeWindowSize # Undefined
    <3>1. /\ TimeWindowSize \in Nat \ {0} /\ L[1].end = WindowEnd(0, TimeWindowSize)
          /\ MaxTime # Undefined => 0 < MaxTime
      BY <1>1, <1>4, <1>5, <2>2, ConfigTypes DEF Proper, Open
    <3>2. MaxTime # Undefined => MaxTime \in Nat
      BY <1>1, ConfigTypes
    <3> QED
      BY <1>5, <3>1, <3>2 DEF WindowEnd
  <2> QED
    BY <2>1, <2>2
<1>17. HasData(p) => Rooted(ReceivedAt(p, time), Root(L, 1))
  <2>1. RootOf(0, 0).t = 0
    BY DEF RootOf
  <2>2. 1 \in Nat \ {0}
    OBVIOUS
  <2> QED
    BY <1>1, <1>10, <1>11, <1>13, <1>14, <1>15, <1>16, <2>1, <2>2, RootReceived DEF Starts
<1>18. /\ Got(L, p, 1, ReceivedAt(p, time))
       /\ Parcels(L, p, channel'[p], Header(p, 1 + 1))
  <2>1. 1 \in Nat
    OBVIOUS
  <2> QED
    BY <1>1, <1>10, <1>11, <1>13, <1>14, <2>1, ReceivesParcel
<1>19. received'[p] = ReceivedAt(p, time) /\ received'[q] = received[q] /\ written'[q] = written[q]
       /\ channel'[q] = channel[q]
  BY <1>1, <1>3, ReadsData DEF TypeOK
<1>20. "solving" \notin InitializeSteps /\ Settled("solving", d)
  BY DEF InitializeSteps, Settled
<1>21. Holds(L, p, "solving", d, written'[p], received'[p])
  <2>1. Timely(written[p], Time!TimeOf(d.time))
    BY <1>7, <1>13 DEF Holds
  <2>2. Got(L, p, RoundRead(p, "solving", d), received'[p])
    BY <1>12, <1>18, <1>19
  <2>3. Starts(p, RootAt(p, "solving", d), written'[p], received'[p])
    BY <1>1, <1>14, <1>19, <1>15, <1>17 DEF Starts
  <2> QED
    BY <1>1, <1>20, <2>1, <2>2, <2>3 DEF Holds
<1>22. Steady(L, "solving", d)
  <2>1. 0 \in Int /\ 1 \in Int /\ 1 <= 1 /\ d.time.start = b.time.start
    BY <1>7
  <2> QED
    BY <1>6, <1>12, <1>13, <1>20, <2>1, SteadyOn
<1>23. /\ Parcels(L, p, channel'[p], ReadAt(p, "solving", d))
       /\ Parcels(L, q, channel'[q], ReadAt(q, pc[q], scheme[q]))
  BY <1>12, <1>13, <1>18, <1>19
<1> HIDE DEF q
<1> QED
  BY <1>1, <1>2, <1>3, <1>19, <1>21, <1>22, <1>23, SampledStep DEF q

\* Where secondExchange() gets to, by a ledger that it has agreed to go by
LEMMA Finished ==
  ASSUME IInv, config' = config, NEW L \in Ledgers, Agree(L), NEW K \in Ledgers, Agree(K)',
         SameSoFar(L, K), NEW p \in Participants, pc[p] \in Told(p),
         NEW c \in Schemes, Alike(scheme[p], c), NEW r, r = RoundAt(pc[p], scheme[p]),
         NEW d, d = SecondExchange(c), pc'[p] = "solving", scheme'[p] = d
  PROVE  /\ r \in Nat \ {0} /\ pc[p] \in ExchangeSteps
         /\ RoundAt("solving", d) = r + 1 /\ Kept(K, r + 1)
         /\ InRound(p, pc[p], c, K[r]) /\ InRound(p, "solving", d, K[r + 1])
         /\ IsCouplingOngoing(d) <=> Open(K[r + 1])
         /\ Complete(c) <=> Done(K[r])
         /\ p = Second => (WantsData(c) <=> IsCouplingOngoing(d))
<1>1. /\ TypeOK /\ config \in Configurations
  BY DEF IInv, TypeOK
<1>2. /\ r \in Nat \ {0} /\ pc[p] \in ExchangeSteps /\ InRound(p, pc[p], c, L[r])
      /\ Complete(c) <=> Done(L[r])
  BY <1>1, AgreeAt, FinishKnows
<1>3. K[r] = L[r] /\ K[r] \in Entries
  <2>1. r \in Nat /\ r <= RoundAt(pc[p], scheme[p])
    BY <1>2
  <2> QED
    BY <2>1 DEF SameSoFar, Ledgers
<1>4. Joins(K, p, "solving", d)
  <2>1. Joins(K, p, pc[p], scheme[p])'
    BY DEF Agree, Participants
  <2> QED
    BY <2>1, JoinsNext
<1>5. RoundAt("solving", d) = r + 1
  <2>1. /\ d.timeWindows = IF Complete(c) THEN c.timeWindows ELSE c.timeWindows - 1
        /\ d.totalIterations = IF Implicit THEN c.totalIterations + 1 ELSE c.totalIterations
    BY SecondExchangeMembers
  <2>2. r = IF Implicit THEN c.totalIterations ELSE c.timeWindows - 1
    BY <1>2 DEF RoundAt, WindowAt, Alike
  <2>3. "solving" \notin ExchangeSteps
    BY DEF ExchangeSteps
  <2> QED
    BY <2>1, <2>2, <2>3 DEF RoundAt, WindowAt, Complete, Schemes
<1>6. Kept(K, r + 1) /\ InRound(p, "solving", d, K[r + 1])
  BY <1>4, <1>5 DEF Joins, Tracks
<1>7. Proper(K[r]) /\ Proper(K[r + 1]) /\ Follows(K[r], K[r + 1]) /\ K[r + 1] \in Entries
  <2>1. r \in 1 .. r + 1 /\ r + 1 \in 1 .. r + 1 /\ r \in 1 .. (r + 1) - 1 /\ r + 1 \in Nat
    BY <1>2
  <2> QED
    BY <1>6, <2>1 DEF Kept, Ledgers
<1>8. d \in Schemes
  <2>1. c.timeWindows >= 2
    BY <1>2 DEF IInv, Consistent, SizeIsKnown, Alike
  <2> QED
    BY <2>1, SecondExchangeFields
<1>9. IsCouplingOngoing(d) <=> Open(K[r + 1])
  <2>1. "solving" \notin ExchangeSteps
    BY DEF ExchangeSteps
  <2> QED
    BY <1>1, <1>6, <1>7, <1>8, <2>1, OngoingIsOpen
<1>10. p = Second => (WantsData(c) <=> Open(K[r + 1]))
  <2>1. InRound(p, pc[p], c, K[r]) /\ (Complete(c) <=> Done(K[r]))
    BY <1>2, <1>3
  <2> QED
    BY <1>1, <1>2, <1>3, <1>7, <2>1, WantsDataIsOpen
<1> QED
  BY <1>2, <1>3, <1>5, <1>6, <1>9, <1>10

\* secondExchange() of Second goes on to a window of the size that it has.
LEMMA FinishSteady ==
  ASSUME IInv, config' = config, NEW L \in Ledgers, Agree(L), NEW K \in Ledgers, Agree(K)',
         SameSoFar(L, K), Sampled(K), WindowsFit, pc[Second] \in Told(Second),
         NEW c \in Schemes, Alike(scheme[Second], c),
         WantsData(c) => pc[Second] \in {"receiveData", "receiveDataForWindowEnd"},
         NEW d, d = SecondExchange(c), pc'[Second] = "solving", scheme'[Second] = d
  PROVE  Steady(K, "solving", d)
<1> DEFINE p == Second
           b == scheme[p]
           r == RoundAt(pc[p], b)
           e == K[r]
           f == K[r + 1]
<1>1. /\ config \in Configurations /\ First # Second /\ p \in Participants
  BY ConfigTypes DEF IInv, TypeOK, Participants
<1>2. /\ r \in Nat \ {0} /\ pc[p] \in ExchangeSteps /\ RoundAt("solving", d) = r + 1
      /\ Kept(K, r + 1) /\ InRound(p, pc[p], c, e) /\ InRound(p, "solving", d, f)
      /\ IsCouplingOngoing(d) <=> Open(f)
      /\ WantsData(c) <=> IsCouplingOngoing(d)
  BY <1>1, Finished
<1>3. Steady(K, pc[p], b) /\ RoundRead(p, pc[p], b) = r
  BY <1>2 DEF Sampled, RoundRead
<1>4. /\ r + 1 \in Nat \ {0} /\ Proper(e) /\ e \in Entries /\ f \in Entries
  <2>1. r \in 1 .. r + 1 /\ r + 1 \in Nat \ {0}
    BY <1>2
  <2> QED
    BY <1>2, <2>1 DEF Kept, Ledgers
<1>5. /\ Open(e) /\ e.end = Time!TimeOf(c.time) /\ e.start = c.time.start
      /\ f.start = d.time.start /\ f.iteration = d.iterations
  BY <1>2 DEF InRound
<1>6. /\ d.timeWindowSize = c.nextTimeWindowSize
      /\ d.iterations = IF Complete(c) THEN 1 ELSE c.iterations + 1
      /\ d.time.start = IF Complete(c) THEN Time!TimeOf(c.time) ELSE c.time.start
  BY SecondExchangeMembers
<1>7. ASSUME IsCouplingOngoing(d), f.iteration > 1 PROVE f.end = e.end
  <2>1. ~Complete(c)
    BY <1>5, <1>6, <1>7
  <2>2. c.nextTimeWindowSize = c.timeWindowSize
    <3>1. pc[p] \in {"receiveData", "receiveDataForWindowEnd"} /\ Settled(pc[p], b)
      BY <1>2, <1>3, <1>7 DEF Steady
    <3>2. Complete(b) <=> Complete(c)
      BY DEF Complete, Alike
    <3> QED
      BY <2>1, <3>1, <3>2 DEF Settled, Alike
  <2>3. CASE TimeWindowSize # Undefined
    <3>1. r + 1 > 1 /\ (r + 1) - 1 = r
      BY <1>2
    <3> QED
      BY <1>2, <1>4, <1>7, <2>3, <3>1, SteadyWindows
  <2>4. CASE TimeWindowSize = Undefined
    <3>1. d.timeWindowSize = Size(f)
      BY <1>2, <1>7, <2>4 DEF InRound
    <3>2. c.timeWindowSize = Size(e)
      BY <1>2, <1>5, <2>4 DEF InRound
    <3>3. f.start = e.start
      BY <1>5, <1>6, <2>1
    <3> HIDE DEF e, f
    <3> QED
      BY <1>4, <1>6, <2>2, <3>1, <3>2, <3>3 DEF Size, Entries
  <2> QED
    BY <2>3, <2>4
<1>8. ASSUME NEW k \in 1 .. RoundRead(p, "solving", d) - 1, K[k + 1].iteration > 1
      PROVE  K[k + 1].end = K[k].end
  <2>1. CASE k \in 1 .. r - 1
    BY <1>3, <1>8, <2>1 DEF Steady
  <2>2. CASE k \notin 1 .. r - 1
    <3>1. k = r /\ IsCouplingOngoing(d)
      BY <1>2, <2>2 DEF RoundRead, ExchangeSteps
    <3> QED
      BY <1>7, <1>8, <3>1
  <2> QED
    BY <2>1, <2>2
<1>9. Fitted => \E n \in Nat : d.time.start = n * TimeWindowSize
  <2> SUFFICES ASSUME Fitted PROVE \E n \in Nat : d.time.start = n * TimeWindowSize
    OBVIOUS
  <2>1. PICK n \in Nat : e.start = n * TimeWindowSize
    BY <1>3, <1>5 DEF Steady, Alike
  <2>2. e.end = (n + 1) * TimeWindowSize /\ n + 1 \in Nat
    BY <1>1, <1>4, <1>5, <2>1, FittedEnd
  <2> QED
    BY <1>5, <1>6, <2>1, <2>2
<1> QED
  BY <1>8, <1>9 DEF Steady, Settled

\* moveToNextWindow() leaves the root of the next round.
LEMMA MovedStarts ==
  ASSUME TypeOK, NEW p \in Participants, NEW place, NEW c \in Schemes,
         NEW w \in SUBSET Samples, NEW x \in SUBSET Samples, Starts(p, OwnRoot(place, c), w, x),
         NEW r, r = RoundAt(place, c), NEW now \in Nat, now = Time!TimeOf(c.time),
         p \in Sends => Stamped(w) /\ EndsIn(w, r, now),
         HasData(p) => Stamped(x) /\ EndsIn(x, r, now)
  PROVE  Starts(p, NextRoot(place, c), Moved(c, w), Moved(c, x))
<1>1. /\ Complete(c) => NextRoot(place, c) = RootOf(now, r)
      /\ ~Complete(c) => NextRoot(place, c) = OwnRoot(place, c)
  BY DEF NextRoot
<1>2. p \in Sends => Rooted(Moved(c, w), NextRoot(place, c))
  BY <1>1, RootMoved DEF Starts
<1>3. HasData(p) => Rooted(Moved(c, x), NextRoot(place, c))
  BY <1>1, RootMoved DEF Starts
<1> QED
  BY <1>2, <1>3 DEF Starts

\* secondExchange() leaves the samples at the root of the next round.
LEMMA FinishStarts ==
  ASSUME TypeOK, NEW p \in Participants, NEW place, NEW c \in Schemes,
         NEW w \in SUBSET Samples, NEW x \in SUBSET Samples, FinishAdvance(p, c, w, x),
         Starts(p, NextRoot(place, c), w, x), NEW r \in Nat \ {0}, r = RoundAt(place, c),
         NEW d, d = SecondExchange(c), RoundAt("solving", d) = r + 1
  PROVE  Starts(p, RootAt(p, "solving", d), written'[p], received'[p])
<1> DEFINE root == OwnRoot("solving", d)
           now == Time!TimeOf(c.time)
<1>1. RootAt(p, "solving", d) = root
  BY DEF RootAt, Late
<1>2. root = NextRoot(place, c)
  <2>1. /\ d.iterations = IF Complete(c) THEN 1 ELSE c.iterations + 1
        /\ d.time.start = IF Complete(c) THEN now ELSE c.time.start
    BY SecondExchangeMembers
  <2> HIDE DEF now
  <2>2. c.iterations \in Nat
    BY DEF Schemes
  <2>3. (r + 1) - 1 = r /\ (r + 1) - (c.iterations + 1) = r - c.iterations
    BY <2>2
  <2> QED
    BY <2>1, <2>3 DEF OwnRoot, NextRoot, now
<1>3. root.t = d.time.start
  BY DEF OwnRoot, RootOf
<1> HIDE DEF root
<1>4. p \in Sends \/ HasData(p) => root \in Samples
  <2>1. \A store \in SUBSET Samples : Rooted(store, root) => root \in Samples
    BY DEF Rooted, TrimAfter
  <2> QED
    BY <1>2, <2>1 DEF Starts
<1>5. /\ p \in Sends => Rooted(written'[p], root)
      /\ HasData(p) => Rooted(received'[p], root)
  BY <1>2, <1>3, <1>4, FinishRoots DEF Starts
<1> QED
  BY <1>1, <1>5 DEF Starts

\* secondExchange() moves the samples to the next round, of which Second has
\* received the data if it goes on.
LEMMA FinishSampled ==
  ASSUME IInv, config' = config, NEW L \in Ledgers, Agree(L), NEW K \in Ledgers, Agree(K)',
         SameSoFar(L, K), Sampled(K), WindowsFit, NEW p \in Participants, pc[p] \in Told(p),
         NEW c \in Schemes, Alike(scheme[p], c), NEW r, r = RoundAt(pc[p], scheme[p]),
         p = Second /\ WantsData(c) => pc[p] \in {"receiveData", "receiveDataForWindowEnd"},
         NEW k, k = IF p = Second /\ WantsData(c) THEN r + 1 ELSE r,
         NEW w \in SUBSET Samples, Timely(w, Time!TimeOf(c.time)),
         NEW x \in SUBSET Samples, Got(K, p, k, x), Starts(p, NextRoot(pc[p], c), w, x),
         HasData(p) => Stamp(K, k) >= Time!TimeOf(c.time), FinishAdvance(p, c, w, x),
         Parcels(K, p, channel'[p], Header(p, k + 1)), NEW q, q = Other(p),
         Parcels(K, q, channel'[q], ReadAt(q, pc[q], scheme[q]))
  PROVE  Sampled(K)'
<1>1. /\ TypeOK /\ config \in Configurations /\ First # Second /\ q \in Participants
      /\ q # p /\ p \in {First, Second}
  BY ConfigTypes, Others DEF IInv, TypeOK, Participants
<1> DEFINE d == SecondExchange(c)
<1>2. /\ pc' = [pc EXCEPT ![p] = "solving"] /\ scheme' = [scheme EXCEPT ![p] = d]
      /\ written'[q] = written[q] /\ received'[q] = received[q]
      /\ pc'[p] = "solving" /\ scheme'[p] = d
  BY <1>1 DEF FinishAdvance, Goto, TypeOK
<1>3. Timely(written'[p], Time!TimeOf(d.time)) /\ Got(K, p, k, received'[p])
  <2> HIDE DEF d
  <2> QED
    BY <1>1, <1>2, FinishSamples
<1>4. d = SecondExchange(c)
  OBVIOUS
<1> HIDE DEF d
<1>5. /\ r \in Nat \ {0} /\ RoundAt("solving", d) = r + 1
      /\ p = Second => (WantsData(c) <=> IsCouplingOngoing(d))
  BY <1>2, <1>4, Finished
<1>6. RoundRead(p, "solving", d) = k /\ ReadAt(p, "solving", d) = Header(p, k + 1)
  BY <1>1, <1>5 DEF RoundRead, ReadAt, ExchangeSteps
<1>7. Starts(p, RootAt(p, "solving", d), written'[p], received'[p])
  <2>1. r = RoundAt(pc[p], c)
    BY DEF RoundAt, WindowAt, Alike
  <2> QED
    BY <1>1, <1>4, <1>5, <2>1, FinishStarts
<1>8. Holds(K, p, "solving", d, written'[p], received'[p])
  BY <1>3, <1>6, <1>7 DEF Holds, InitializeSteps, ExchangeSteps
<1>9. p = Second => Steady(K, "solving", d)
  BY <1>2, <1>4, FinishSteady
<1> QED
  BY <1>1, <1>2, <1>6, <1>8, <1>9, SampledStep

\* What Second sends is of its round; then it waits for First's data.
LEMMA SecondAwaitsDataSampled ==
  ASSUME IInv, config' = config, NEW L \in Ledgers, Agree(L), Sampled(L),
         NEW p \in Participants, SecondSendsData(p), WantsData(scheme[p])
  PROVE  Sampled(L)'
<1> DEFINE c == scheme[p]
           q == Other(p)
           r == RoundAt("sendData", c)
           now == Time!TimeOf(c.time)
           n == ReadAt(q, pc[q], scheme[q])
           place == IF FirstParticipantSetsTimeWindowSize THEN "receiveTimeWindowSize"
                    ELSE IF Implicit /\ ~c.hasConverged THEN "receiveData"
                    ELSE "receiveDataForWindowEnd"
<1>1. /\ TypeOK /\ config \in Configurations /\ pc[p] = "sendData" /\ p = Second
      /\ SendStored(p, written[p]) /\ First # Second /\ pc[p] \in ExchangeSteps
      /\ SizeIsKnown(pc[p], c)
  BY ConfigTypes DEF IInv, TypeOK, SecondSendsData, At, ExchangeSteps, Consistent
<1>2. /\ pc' = [pc EXCEPT ![p] = place] /\ scheme' = [scheme EXCEPT ![p] = c]
      /\ written' = [written EXCEPT ![p] = Moved(c, written[p])]
      /\ received' = [received EXCEPT ![p] = Moved(c, received[p])]
  BY <1>1, Unchanged DEF SecondSendsData, Goto
<1>3. /\ c \in Schemes /\ channel[q] \in Seq(Messages) /\ r \in Nat \ {0}
      /\ q \in Participants /\ q # p /\ Stamp(L, r) = now /\ InRound(p, "sendData", c, L[r])
  BY <1>1, AgreeAt, Others, ExchangeStamps
<1>4. place \in Receives /\ place \in ExchangeSteps
  BY DEF Receives, ExchangeSteps
<1>5. Settled(place, c)
  <2>1. CASE place = "receiveData"
    <3>1. /\ ~FirstParticipantSetsTimeWindowSize /\ Implicit /\ ~c.hasConverged
          /\ TimeWindowSize # Undefined
      BY <2>1 DEF FirstParticipantSetsTimeWindowSize
    <3>2. c.nextTimeWindowSize = TimeWindowSize /\ c.timeWindowSize = TimeWindowSize
      BY <1>1, <1>3, <3>1 DEF SizeIsKnown, InRound
    <3> QED
      BY <2>1, <3>1, <3>2 DEF Settled, Complete
  <2>2. CASE place = "receiveDataForWindowEnd"
    <3>1. ~(Implicit /\ ~c.hasConverged)
      BY <2>2
    <3> QED
      BY <2>2, <3>1 DEF Settled, Complete
  <2> QED
    BY <2>1, <2>2 DEF Settled
<1>6. ReadAt(p, place, c) = Header(p, r + 1)
  <2>1. RoundAt(place, c) = r
    BY <1>1, <1>4 DEF RoundAt, WindowAt
  <2>2. TimeWindowSize # Undefined => Data(p, r + 1) = Header(p, r + 1)
    BY <1>1, SerialHeaders DEF Data, Header
  <2> QED
    BY <1>1, <2>1, <2>2 DEF ReadAt, FirstParticipantSetsTimeWindowSize
<1> HIDE DEF place
<1>7. /\ RoundAt(place, c) = r /\ place \notin InitializeSteps
      /\ place # "constructed" /\ pc[p] # "constructed"
      /\ RoundRead(p, place, c) = r /\ RoundRead(p, pc[p], c) = r
      /\ ReadAt(p, pc[p], c) = Header(p, r + 1)
  BY <1>1, <1>4 DEF Receives, RoundAt, WindowAt, InitializeSteps, RoundRead, ReadAt
<1>8. /\ RootAt(p, pc[p], c) = OwnRoot(pc[p], c)
       /\ RootAt(p, place, c) = NextRoot(pc[p], c)
       /\ OwnRoot(pc[p], c) = Root(L, r) /\ now \in Nat
  <2>1. ~Late(p, pc[p]) /\ Late(p, place)
    BY <1>1 DEF Late, place
  <2>2. OwnRoot(place, c) = OwnRoot(pc[p], c) /\ NextRoot(place, c) = NextRoot(pc[p], c)
    BY <1>1, <1>7 DEF OwnRoot, NextRoot
  <2>3. OwnRoot(pc[p], c) = Root(L, r)
    BY <1>1, RootAgrees
  <2>4. now \in Nat
    BY <1>1, <1>3, ExchangeStamps
  <2> QED
    BY <2>1, <2>2, <2>3, <2>4 DEF RootAt
<1>9. /\ Carries(L, q, channel[q], n, Data(q, r), "nothing") /\ Parcels(L, q, channel[q], n)
  <2>1. pc[p] \notin Leaving /\ SentAt(p, pc[p], c) = Data(q, r)
    BY <1>1 DEF Leaving, SentAt
  <2> QED
    BY <1>1, <1>3, <2>1, Streams DEF Sampled
<1> HIDE DEF r, n
<1>10. /\ Timely(written[p], now) /\ EndsIn(written[p], r, now) /\ Got(L, p, r, received[p])
      /\ Steady(L, pc[p], c) /\ Parcels(L, p, channel[p], Header(p, r + 1))
      /\ Starts(p, OwnRoot(pc[p], c), written[p], received[p])
  BY <1>1, <1>7, <1>8 DEF Sampled, Holds, r
<1>11. /\ Timely(Moved(c, written[p]), now) /\ Got(L, p, r, Moved(c, received[p]))
       /\ EndsIn(Moved(c, written[p]), r, now)
  <2>1. EndsIn(Moved(c, written[p]), r, now)
    BY <1>10, LastSample DEF Moved, MoveToNextWindow
  <2> QED
    BY <1>10, <2>1, MovedSamples
<1>12. Starts(p, NextRoot(pc[p], c), Moved(c, written[p]), Moved(c, received[p]))
  <2>1. /\ Stamped(written[p]) /\ EndsIn(written[p], r, now)
        /\ HasData(p) => Stamped(received[p]) /\ EndsIn(received[p], r, now)
    BY <1>3, <1>10 DEF Timely, Got
  <2>2. /\ written[p] \in SUBSET Samples /\ received[p] \in SUBSET Samples
        /\ r = RoundAt(pc[p], c)
    BY <1>1 DEF TypeOK, r
  <2> QED
    BY <1>1, <1>3, <1>10, <1>8, <2>1, <2>2, MovedStarts
<1>13. /\ written'[p] = Moved(c, written[p]) /\ received'[p] = Moved(c, received[p])
       /\ written'[q] = written[q] /\ received'[q] = received[q]
  BY <1>1, <1>2, <1>3 DEF TypeOK
<1>14. Holds(L, p, place, c, written'[p], received'[p])
  BY <1>7, <1>11, <1>13, <1>8, <1>12 DEF Holds, r
<1>15. Steady(L, place, c)
  <2>1. r \in Int /\ r <= r
    BY <1>3
  <2> QED
    BY <1>1, <1>5, <1>7, <1>10, <2>1, SteadyOn
<1>16. Parcels(L, q, channel'[q], n)
  <2>1. n \in Nat /\ (HasData(q) => n + Len(channel[q]) = Data(q, r))
    BY <1>3, <1>9, Positions DEF Carries
  <2>2. /\ r \in Nat /\ Stamped(written[p]) /\ EndsIn(written[p], r, Stamp(L, r))
        /\ p \in Sends => Rooted(written[p], Root(L, r))
    BY <1>3, <1>10, <1>8 DEF Timely, Starts
  <2> QED
    BY <1>1, <1>9, <2>1, <2>2, SendsParcel
<1>17. Parcels(L, p, channel'[p], ReadAt(p, place, c))
  <2>1. channel'[p] = channel[p]
    BY <1>1, SendsData
  <2> QED
    BY <1>6, <1>10, <2>1
<1> HIDE DEF q
<1> QED
  BY <1>1, <1>2, <1>13, <1>14, <1>15, <1>16, <1>17, SampledStep DEF q, n

\* What Second sends is of its round, which is the last.
LEMMA SecondSendsLastSampled ==
  ASSUME IInv, config' = config, NEW L \in Ledgers, Agree(L), Sampled(L),
         NEW K \in Ledgers, Agree(K)', SameSoFar(L, K), WindowsFit,
         NEW p \in Participants, SecondSendsData(p), ~WantsData(scheme[p])
  PROVE  Sampled(K)'
<1> DEFINE c == scheme[p]
           q == Other(p)
           r == RoundAt(pc[p], c)
           now == Time!TimeOf(c.time)
           n == ReadAt(q, pc[q], scheme[q])
           w == Moved(c, written[p])
           x == Moved(c, received[p])
<1>1. /\ TypeOK /\ config \in Configurations /\ pc[p] = "sendData" /\ p = Second
      /\ SendStored(p, written[p]) /\ First # Second /\ pc[p] \in ExchangeSteps
      /\ FinishAdvance(p, c, w, x) /\ pc[p] \in Told(p)
  BY ConfigTypes DEF IInv, TypeOK, SecondSendsData, At, ExchangeSteps, Told
<1>2. Keeps(L, K) /\ Sampled(K)
  BY <1>1, SameSoFarKeeps, SampledAlike
<1>3. /\ c \in Schemes /\ Alike(c, c) /\ channel[q] \in Seq(Messages) /\ r \in Nat \ {0}
      /\ q \in Participants /\ Stamp(L, r) = now /\ now \in Nat
  BY <1>1, AgreeAt, Others, ExchangeStamps DEF Alike
<1>4. Stamp(K, r) = now /\ Root(K, r) = OwnRoot(pc[p], c)
  <2>1. r \in Nat /\ r <= RoundAt(pc[p], scheme[p])
    BY <1>3
  <2>2. K[r] = L[r]
    BY <2>1 DEF SameSoFar
  <2>3. OwnRoot(pc[p], c) = Root(L, r)
    BY <1>1, RootAgrees
  <2> QED
    BY <1>3, <2>2, <2>3 DEF Stamp, Root
<1>5. /\ RoundRead(p, pc[p], c) = r /\ pc[p] # "constructed"
      /\ ReadAt(p, pc[p], c) = Header(p, r + 1) /\ RootAt(p, pc[p], c) = OwnRoot(pc[p], c)
  BY <1>1 DEF RoundRead, ReadAt, RootAt, Late
<1>6. /\ Carries(L, q, channel[q], n, Data(q, r), "nothing") /\ Parcels(K, q, channel[q], n)
  <2>1. pc[p] \notin Leaving /\ SentAt(p, pc[p], c) = Data(q, r)
    BY <1>1 DEF Leaving, SentAt
  <2> QED
    BY <1>1, <1>2, <1>3, <2>1, Streams DEF Sampled
<1>7. /\ Timely(written[p], now) /\ EndsIn(written[p], r, now) /\ Got(K, p, r, received[p])
      /\ Parcels(K, p, channel[p], Header(p, r + 1))
      /\ Starts(p, OwnRoot(pc[p], c), written[p], received[p])
  BY <1>1, <1>2, <1>5 DEF Sampled, Holds
<1> HIDE DEF r, n, w, x
<1>8. Timely(w, now) /\ Got(K, p, r, x)
  BY <1>7, MovedSamples DEF w, x
<1>9. /\ w \in SUBSET Samples /\ x \in SUBSET Samples /\ Starts(p, NextRoot(pc[p], c), w, x)
  <2>1. /\ Stamped(written[p]) /\ EndsIn(written[p], r, now)
        /\ HasData(p) => Stamped(received[p]) /\ EndsIn(received[p], r, now)
    BY <1>4, <1>7 DEF Timely, Got
  <2>2. /\ written[p] \in SUBSET Samples /\ received[p] \in SUBSET Samples
        /\ r = RoundAt(pc[p], c)
    BY <1>1 DEF TypeOK, r
  <2>3. w \in SUBSET Samples /\ x \in SUBSET Samples
    BY <2>2 DEF Moved, MoveToNextWindow, Last, w, x
  <2> QED
    BY <1>1, <1>3, <1>7, <2>1, <2>2, <2>3, MovedStarts DEF w, x
<1>10. Parcels(K, q, channel'[q], n)
  <2>1. n \in Nat /\ (HasData(q) => n + Len(channel[q]) = Data(q, r))
    BY <1>3, <1>6, Positions DEF Carries
  <2>2. /\ r \in Nat /\ Stamped(written[p]) /\ EndsIn(written[p], r, Stamp(K, r))
        /\ p \in Sends => Rooted(written[p], Root(K, r))
    BY <1>3, <1>4, <1>7 DEF Timely, Starts
  <2> QED
    BY <1>1, <1>6, <2>1, <2>2, SendsParcel
<1>11. Parcels(K, p, channel'[p], Header(p, r + 1))
  <2>1. channel'[p] = channel[p]
    BY <1>1, SendsData
  <2> QED
    BY <1>7, <2>1
<1>12. HasData(p) => Stamp(K, r) >= now
  BY <1>3, <1>4
<1>13. r = RoundAt(pc[p], scheme[p]) /\ r = IF p = Second /\ WantsData(c) THEN r + 1 ELSE r
  BY DEF r
<1> HIDE DEF q
<1> QED
  BY <1>1, <1>2, <1>3, <1>8, <1>10, <1>11, <1>12, <1>13, <1>9, FinishSampled DEF q, n

\* The data that Second receives is of a time to come, or of the same time if
\* the window is repeated.
LEMMA DataToCome ==
  ASSUME IInv, NEW L \in Ledgers, Agree(L), Sampled(L),
         pc[Second] \in {"receiveData", "receiveDataForWindowEnd"}, CanReceiveData(Second),
         First \in Sends, NEW r, r = RoundAt(pc[Second], scheme[Second]),
         NEW now, now = Time!TimeOf(scheme[Second].time)
  PROVE  /\ r + 1 <= RoundAt(pc[First], scheme[First])
         /\ Stamp(L, r + 1) \in Nat /\ Stamp(L, r + 1) >= now
         /\ pc[Second] = "receiveData" => Stamp(L, r + 1) = now
         /\ Root(L, r + 1) = NextRoot(pc[Second], scheme[Second])
         /\ Root(L, r + 1).t < Stamp(L, r + 1)
<1> DEFINE p == Second
           c == scheme[p]
           e == L[r]
           f == L[r + 1]
<1>1. /\ TypeOK /\ config \in Configurations /\ p \in Participants /\ First # Second
      /\ pc[p] \in ExchangeSteps /\ pc[p] \in Told(p) /\ pc[p] \in Receives
  <2>1. TypeOK /\ config \in Configurations /\ First # Second
    BY ConfigTypes DEF IInv, TypeOK
  <2> QED
    BY <2>1 DEF ExchangeSteps, Told, Receives, Participants
<1>2. /\ c \in Schemes /\ Joins(L, p, pc[p], c) /\ r \in Nat \ {0} /\ Alike(c, c)
      /\ RoundAt(pc[p], c) = r
  BY <1>1, AgreeAt DEF Alike
<1>3. /\ e \in Entries /\ Proper(e) /\ InRound(p, pc[p], c, e)
      /\ Complete(c) <=> Done(e)
  BY <1>1, <1>2, FinishKnows
<1>4. r + 1 \in Nat \ {0} /\ Kept(L, r + 1) /\ r + 1 <= RoundAt(pc[First], scheme[First])
  <2>1. r + 1 \in Nat \ {0}
    BY <1>2
  <2>2. ReadAt(p, pc[p], c) = Data(p, r + 1)
    BY <1>1, <1>2 DEF ReadAt
  <2> QED
    BY <1>1, <2>1, <2>2, DataIsWritten
<1>5. Follows(e, f) /\ Proper(f) /\ f \in Entries
  <2>1. r \in 1 .. (r + 1) - 1 /\ r + 1 \in 1 .. r + 1
    BY <1>2
  <2> QED
    BY <1>4, <2>1 DEF Kept, Ledgers
<1>6. Stamp(L, r + 1) = f.end /\ f.end \in Nat /\ f.start \in Nat
  BY <1>2, <1>5 DEF Stamp, Entries
<1>7. TimeWindowSize = Undefined => c.nextTimeWindowSize = Size(f) /\ f.start < f.end
  <2>1. SizeAhead(L, pc[p], c) \/ TimeWindowSize # Undefined
    BY <1>1, <1>2 DEF Joins
  <2>2. Ahead(pc[p], c) = r + 1
    BY <1>2 DEF Ahead, Early, InitializeSteps
  <2> QED
    BY <2>1, <2>2 DEF SizeAhead
<1>8. Settled(pc[p], c) /\ WantsData(c)
  BY <1>1, <1>2 DEF Sampled, Steady, Joins
<1>9. Open(f)
  BY <1>1, <1>2, <1>3, <1>5, <1>8, WantsDataIsOpen
<1>10. f.start < f.end
  <2>1. CASE TimeWindowSize # Undefined
    <3>1. TimeWindowSize \in Nat \ {0} /\ f.end = WindowEnd(f.start, TimeWindowSize)
      BY <1>1, <1>5, <2>1, ConfigTypes DEF Proper
    <3> HIDE DEF f
    <3> QED
      BY <1>6, <1>9, <3>1 DEF WindowEnd, Open
  <2> QED
    BY <1>6, <1>7, <2>1
<1>11. now = e.end /\ Open(e) /\ e.end \in Nat /\ e.start \in Nat /\ e.start = c.time.start
  BY <1>1, <1>3 DEF InRound, Entries
<1>12. ASSUME ~Complete(c) PROVE f.end = now
  <2>1. f.start = e.start /\ f.iteration = e.iteration + 1 /\ e.iteration >= 1
        /\ e.iteration \in Nat
    BY <1>3, <1>5, <1>12 DEF Follows, Proper, Entries
  <2>2. CASE TimeWindowSize # Undefined
    BY <1>3, <1>5, <1>11, <2>1, <2>2 DEF Proper
  <2>3. CASE TimeWindowSize = Undefined
    <3>1. c.timeWindowSize = Size(e)
      BY <1>1, <1>3, <1>11, <2>3 DEF InRound
    <3>2. c.nextTimeWindowSize = c.timeWindowSize
      BY <1>8, <1>12 DEF Settled
    <3> HIDE DEF e, f
    <3> QED
      BY <1>6, <1>7, <1>11, <2>1, <2>3, <3>1, <3>2 DEF Size
  <2> QED
    BY <2>2, <2>3
<1>13. Complete(c) => f.start = now
  BY <1>3, <1>5, <1>11 DEF Follows
<1>14. pc[p] = "receiveData" => ~Complete(c)
  BY <1>8 DEF Settled
<1>15. Root(L, r + 1) = NextRoot(pc[p], c) /\ Root(L, r + 1).t = f.start
  <2>1. Root(L, r + 1) = RootOf(f.start, (r + 1) - f.iteration) /\ r = RoundAt(pc[p], c)
    BY <1>4 DEF Root
  <2>2. /\ Complete(c) => f.start = now /\ f.iteration = 1
        /\ ~Complete(c) => f.start = c.time.start /\ f.iteration = c.iterations + 1
    BY <1>3, <1>5, <1>11, <1>13 DEF Follows, InRound
  <2>3. c.iterations \in Nat
    BY <1>2 DEF Schemes
  <2>4. (r + 1) - 1 = r /\ (r + 1) - (c.iterations + 1) = r - c.iterations
    BY <1>2, <2>3
  <2> HIDE DEF f, c
  <2>5. Root(L, r + 1) = NextRoot(pc[p], c)
    BY <2>1, <2>2, <2>4 DEF NextRoot, OwnRoot, c
  <2> QED
    BY <2>1, <2>5 DEF RootOf
<1> HIDE DEF e, f
<1> QED
  BY <1>4, <1>6, <1>10, <1>11, <1>12, <1>13, <1>14, <1>15

\* What Second receives is of its next round.
LEMMA SecondReceivesDataSampled ==
  ASSUME IInv, config' = config, NEW L \in Ledgers, Agree(L), Sampled(L),
         NEW K \in Ledgers, Agree(K)', SameSoFar(L, K), WindowsFit,
         NEW p \in Participants, SecondReceivesData(p)
  PROVE  Sampled(K)'
<1> DEFINE b == scheme[p]
           c == NotifyDataHasBeenReceived(b)
           q == Other(p)
           r == RoundAt(pc[p], b)
           now == Time!TimeOf(c.time)
           time == IF pc[p] = "receiveData" THEN now ELSE WindowEndToCome(c)
           x == ReceivedAt(p, time)
<1>1. /\ TypeOK /\ config \in Configurations /\ p = Second
      /\ pc[p] \in {"receiveData", "receiveDataForWindowEnd"} /\ SizeIsKnown(pc[p], b)
      /\ CanReceiveData(p) /\ ReceiveDataMessage(p) /\ First # Second
      /\ FinishAdvance(p, c, written[p], x) /\ pc[p] \in ExchangeSteps
  BY ConfigTypes DEF IInv, TypeOK, SecondReceivesData, At, ExchangeSteps, Consistent
<1>2. Keeps(L, K) /\ Sampled(K)
  BY <1>1, SameSoFarKeeps, SampledAlike
<1>3. /\ b \in Schemes /\ Joins(L, p, pc[p], b) /\ r \in Nat \ {0} /\ q \in Participants
      /\ Stamp(L, r) = Time!TimeOf(b.time) /\ Stamp(L, r) \in Nat
  BY <1>1, AgreeAt, Others, ExchangeStamps
<1>4. c \in Schemes /\ Alike(b, c)
  BY <1>3, AlikeMembers, NotifyMembers
<1> HIDE DEF c
<1>5. /\ pc[p] \in Told(p) /\ pc[p] \in Receives /\ pc[p] \notin Early
      /\ now = Time!TimeOf(b.time) /\ WindowEndToCome(c) = WindowEndToCome(b)
      /\ b.nextTimeWindowSize = c.nextTimeWindowSize
  BY <1>1, <1>4 DEF Told, Receives, Early, InitializeSteps, Alike, WindowEndToCome
<1>6. WantsData(c)
  <2>1. WantsData(b)
    BY <1>1, <1>3, <1>5 DEF Joins
  <2> QED
    BY <1>4, <2>1 DEF WantsData, IsCouplingOngoing, Alike
<1>7. /\ RoundRead(p, pc[p], b) = r /\ pc[p] # "constructed"
      /\ ReadAt(p, pc[p], b) = Data(p, r + 1)
  BY <1>1 DEF RoundRead, ReadAt
<1>8. HasData(p) <=> First \in Sends
  BY <1>1 DEF HasData, Other
<1>9. time \in Nat
  <2>1. CASE pc[p] = "receiveData"
    BY <1>3, <1>5, <2>1
  <2>2. CASE pc[p] = "receiveDataForWindowEnd"
    <3>1. b.nextTimeWindowSize # Undefined
      BY <1>1, <2>2 DEF SizeIsKnown
    <3> QED
      BY <1>4, <1>5, <2>2, <3>1, WindowEndType
  <2> QED
    BY <1>1, <2>1, <2>2
<1>10. /\ Stamp(K, r) = now
       /\ HasData(p) => Stamp(K, r + 1) = Stamp(L, r + 1) /\ Stamp(L, r + 1) >= now
       /\ HasData(p) /\ q \notin Substeps => Stamp(L, r + 1) = time
       /\ HasData(p) => /\ Root(K, r + 1) = NextRoot(pc[p], b)
                        /\ Root(K, r + 1).t < Stamp(K, r + 1)
  <2>1. Stamp(K, r) = Stamp(L, r)
    <3>1. r \in Nat /\ r <= RoundAt(pc[p], scheme[p])
      BY <1>3
    <3>2. K[r] = L[r]
      BY <3>1 DEF SameSoFar
    <3> QED
      BY <3>2 DEF Stamp
  <2>2. ASSUME HasData(p)
        PROVE  /\ r + 1 <= RoundAt(pc[First], scheme[First]) /\ Stamp(L, r + 1) >= now
               /\ pc[p] = "receiveData" => Stamp(L, r + 1) = now
               /\ Root(L, r + 1) = NextRoot(pc[p], b) /\ Root(L, r + 1).t < Stamp(L, r + 1)
    BY <1>1, <1>5, <1>8, <2>2, DataToCome
  <2>3. ASSUME HasData(p)
        PROVE  Stamp(K, r + 1) = Stamp(L, r + 1) /\ Root(K, r + 1) = Root(L, r + 1)
    <3>1. r + 1 \in Nat /\ First \in Participants
      BY <1>3 DEF Participants
    <3>2. K[r + 1] = L[r + 1]
      BY <2>2, <2>3, <3>1 DEF SameSoFar
    <3> QED
      BY <3>2 DEF Stamp, Root
  <2>4. ASSUME HasData(p), q \notin Substeps, pc[p] = "receiveDataForWindowEnd"
        PROVE  Stamp(L, r + 1) = WindowEndToCome(b)
    <3>1. First \in Sends \ Substeps
      BY <1>1, <1>8, <2>4 DEF Other
    <3> QED
      BY <1>1, <2>4, <3>1, WindowToCome
  <2> QED
    BY <1>1, <1>3, <1>5, <2>1, <2>2, <2>3, <2>4
<1>11. /\ Timely(written[p], now) /\ Got(K, p, r, received[p])
       /\ Parcels(K, p, channel[p], Data(p, r + 1))
       /\ Parcels(K, q, channel[q], ReadAt(q, pc[q], scheme[q]))
       /\ Starts(p, NextRoot(pc[p], b), written[p], received[p])
  <2>1. RootAt(p, pc[p], b) = NextRoot(pc[p], b)
    BY <1>1 DEF RootAt, Late
  <2> QED
    BY <1>2, <1>3, <1>5, <1>7, <2>1 DEF Sampled, Holds
<1>12. channel'[q] = channel[q]
  BY <1>1, ReadsData
<1> HIDE DEF r, now, time
<1>13. Got(K, p, r + 1, x) /\ Parcels(K, p, channel'[p], Header(p, (r + 1) + 1))
  <2> DEFINE k == r + 1
  <2>1. k \in Nat /\ Parcels(K, p, channel[p], Data(p, k))
    BY <1>3, <1>11
  <2>2. HasData(p) /\ q \notin Substeps => time = Stamp(K, k) /\ Stamp(K, r) <= time
    <3>1. HasData(p) /\ q \notin Substeps =>
            time = Stamp(K, k) /\ Stamp(K, r) = now /\ time >= now
      BY <1>10
    <3>2. now \in Nat
      BY <1>3, <1>5 DEF now
    <3> HIDE DEF k
    <3> QED
      BY <1>9, <3>1, <3>2
  <2> HIDE DEF k
  <2>3. Got(K, p, k, ReceivedAt(p, time)) /\ Parcels(K, p, channel'[p], Header(p, k + 1))
    BY <1>1, <1>9, <1>11, <2>1, <2>2, ReceivesParcel
  <2> QED
    BY <2>3 DEF k
<1>14. HasData(p) => Rooted(x, Root(K, r + 1))
  <2> SUFFICES ASSUME HasData(p) PROVE Rooted(x, Root(K, r + 1))
    OBVIOUS
  <2> DEFINE k == r + 1
  <2>1. k \in Nat \ {0} /\ Parcels(K, p, channel[p], Data(p, k))
    BY <1>3, <1>11
  <2>2. Rooted(received[p], Root(K, k))
    BY <1>10, <1>11 DEF Starts
  <2>3. q \notin Substeps => time = Stamp(K, k) /\ Root(K, k).t < time
    BY <1>10
  <2> HIDE DEF k
  <2>4. Rooted(ReceivedAt(p, time), Root(K, k))
    BY <1>1, <1>9, <2>1, <2>2, <2>3, RootReceived
  <2> QED
    BY <2>4 DEF k
<1>15. Starts(p, NextRoot(pc[p], c), written[p], x)
  <2>1. NextRoot(pc[p], c) = NextRoot(pc[p], b)
    BY <1>4 DEF NextRoot, OwnRoot, Complete, RoundAt, WindowAt, Alike
  <2> QED
    BY <1>10, <1>11, <1>14, <2>1 DEF Starts
<1>16. written[p] \in SUBSET Samples /\ x \in SUBSET Samples
  BY <1>1, <1>9, ReceiveDataTypes DEF TypeOK
<1> HIDE DEF x
<1>17. HasData(p) => Stamp(K, r + 1) >= now
  BY <1>10
<1>18. /\ r + 1 = IF p = Second /\ WantsData(c) THEN r + 1 ELSE r
       /\ r = RoundAt(pc[p], scheme[p])
       /\ Parcels(K, q, channel'[q], ReadAt(q, pc[q], scheme[q]))
  BY <1>1, <1>6, <1>11, <1>12 DEF r
<1> HIDE DEF q, b
<1>19. pc[p] \in Told(p) /\ Alike(scheme[p], c) /\ Timely(written[p], Time!TimeOf(c.time))
       /\ (HasData(p) => Stamp(K, r + 1) >= Time!TimeOf(c.time))
  BY <1>4, <1>5, <1>11, <1>17 DEF now, b
<1> QED
  BY <1>1, <1>2, <1>4, <1>13, <1>18, <1>19, <1>15, <1>16, FinishSampled DEF q

\* What First receives is of its round.
LEMMA FirstReceivesDataSampled ==
  ASSUME IInv, config' = config, NEW L \in Ledgers, Agree(L), Sampled(L),
         NEW K \in Ledgers, Agree(K)', SameSoFar(L, K), WindowsFit,
         NEW p \in Participants, FirstReceivesData(p)
  PROVE  Sampled(K)'
<1> DEFINE b == scheme[p]
           c == NotifyDataHasBeenReceived(b)
           q == Other(p)
           r == RoundAt(pc[p], b)
           now == Time!TimeOf(c.time)
           w == Moved(c, written[p])
           x == ReceivedAt(p, now)
           y == Moved(c, x)
<1>1. /\ TypeOK /\ config \in Configurations /\ pc[p] = "receiveData" /\ p = First
      /\ CanReceiveData(p) /\ ReceiveDataMessage(p) /\ First # Second /\ pc[p] \in ExchangeSteps
      /\ FinishAdvance(p, c, w, y) /\ pc[p] \in Told(p)
  BY ConfigTypes DEF IInv, TypeOK, FirstReceivesData, At, ExchangeSteps, Told
<1>2. Keeps(L, K) /\ Sampled(K)
  BY <1>1, SameSoFarKeeps, SampledAlike
<1>3. /\ b \in Schemes /\ r \in Nat \ {0} /\ q \in Participants
      /\ Stamp(L, r) = Time!TimeOf(b.time) /\ Stamp(L, r) \in Nat
      /\ Stamp(L, r - 1) <= Stamp(L, r)
  BY <1>1, AgreeAt, Others, ExchangeStamps
<1>4. c \in Schemes /\ Alike(b, c) /\ now = Time!TimeOf(b.time)
  BY <1>3, AlikeMembers, NotifyMembers
<1> HIDE DEF c
<1>5. /\ RoundRead(p, pc[p], b) = r - 1 /\ pc[p] # "constructed"
      /\ ReadAt(p, pc[p], b) = Data(p, r) /\ RootAt(p, pc[p], b) = OwnRoot(pc[p], b)
  BY <1>1 DEF RoundRead, ReadAt, RootAt, Late
<1>6. OwnRoot(pc[p], b) = Root(L, r) /\ Root(L, r).t < Stamp(L, r)
  BY <1>1, RootAgrees
<1>7. /\ now \in Nat /\ Stamp(K, r) = now /\ Stamp(K, r - 1) <= now
      /\ Root(K, r) = OwnRoot(pc[p], b) /\ Root(K, r).t < now
  <2>1. r \in Nat /\ r <= RoundAt(pc[p], scheme[p])
        /\ r - 1 \in Nat /\ r - 1 <= RoundAt(pc[p], scheme[p])
    BY <1>3
  <2>2. K[r] = L[r] /\ K[r - 1] = L[r - 1]
    BY <2>1 DEF SameSoFar
  <2> QED
    BY <1>3, <1>4, <1>6, <2>2 DEF Stamp, Root
<1>8. /\ Timely(written[p], now) /\ Got(K, p, r - 1, received[p])
      /\ EndsIn(written[p], r, now)
      /\ Parcels(K, p, channel[p], Data(p, r))
      /\ Parcels(K, q, channel[q], ReadAt(q, pc[q], scheme[q]))
      /\ Starts(p, OwnRoot(pc[p], b), written[p], received[p])
  BY <1>1, <1>2, <1>3, <1>4, <1>5 DEF Sampled, Holds
<1>9. channel'[q] = channel[q]
  BY <1>1, ReadsData
<1> HIDE DEF r, now, x, y, w
<1>10. Got(K, p, r, x) /\ Parcels(K, p, channel'[p], Header(p, r + 1))
  <2>1. r \in Nat
    BY <1>3
  <2> QED
    BY <1>1, <1>7, <1>8, <2>1, ReceivesParcel DEF x
<1>11. Timely(w, now) /\ Got(K, p, r, y)
  BY <1>8, <1>10, MovedSamples DEF w, y
<1>12. HasData(p) => Rooted(x, OwnRoot(pc[p], b))
  BY <1>1, <1>3, <1>7, <1>8, RootReceived DEF x, Starts
<1>13. /\ written[p] \in SUBSET Samples /\ x \in SUBSET Samples
       /\ w \in SUBSET Samples /\ y \in SUBSET Samples
  <2>1. written[p] \in SUBSET Samples /\ x \in SUBSET Samples
    BY <1>1, <1>7, ReceiveDataTypes DEF TypeOK, x
  <2> QED
    BY <2>1 DEF Moved, MoveToNextWindow, Last, w, y
<1>14. Starts(p, NextRoot(pc[p], c), w, y)
  <2>1. /\ OwnRoot(pc[p], c) = OwnRoot(pc[p], b) /\ r = RoundAt(pc[p], c)
        /\ now = Time!TimeOf(c.time)
    BY <1>4 DEF OwnRoot, RoundAt, WindowAt, Alike, r, now
  <2>2. Starts(p, OwnRoot(pc[p], c), written[p], x)
    BY <1>8, <1>12, <2>1 DEF Starts
  <2>3. /\ Stamped(written[p]) /\ EndsIn(written[p], r, now)
        /\ HasData(p) => Stamped(x) /\ EndsIn(x, r, now)
    BY <1>7, <1>8, <1>10 DEF Timely, Got
  <2> QED
    BY <1>1, <1>4, <1>7, <1>13, <2>1, <2>2, <2>3, MovedStarts DEF w, y
<1>15. /\ r = IF p = Second /\ WantsData(c) THEN r + 1 ELSE r
       /\ r = RoundAt(pc[p], scheme[p]) /\ p # Second
       /\ Parcels(K, q, channel'[q], ReadAt(q, pc[q], scheme[q]))
       /\ HasData(p) => Stamp(K, r) >= now
  BY <1>1, <1>7, <1>8, <1>9 DEF r
<1> HIDE DEF q, b
<1>16. Alike(scheme[p], c) /\ Timely(w, Time!TimeOf(c.time))
       /\ (HasData(p) => Stamp(K, r) >= Time!TimeOf(c.time))
  BY <1>4, <1>11, <1>15 DEF now, b
<1> QED
  BY <1>1, <1>2, <1>4, <1>10, <1>11, <1>15, <1>16, <1>13, <1>14, FinishSampled DEF q

\* In every reachable state the samples that a participant has and those on their
\* way to it are of the rounds of the ledger that they are thought to be of.
DataAgreement ==
  /\ IInv
  /\ WindowsFit =>
       (Broken /\ StampsTrue) \/ \E L \in Ledgers : Agree(L) /\ Sampled(L)

\* All samples have the time that they were computed for.
LEMMA SampledTrue ==
  ASSUME NEW L, Sampled(L)
  PROVE  StampsTrue
<1> SUFFICES ASSUME NEW p \in Participants, NEW s \in written[p] \cup received[p]
             PROVE  s.t = s.at
  BY DEF StampsTrue
<1>1. Holds(L, p, pc[p], scheme[p], written[p], received[p])
  BY DEF Sampled
<1>2. CASE s \in written[p]
  BY <1>1, <1>2 DEF Holds, Timely, Stamped
<1>3. CASE s \in received[p]
  BY <1>1, <1>3 DEF Holds, Got, Stamped
<1> QED
  BY <1>2, <1>3

\* An error leaves the samples as they are.
LEMMA BrokenSampled ==
  ASSUME NEW L, Sampled(L), UNCHANGED <<written, received>>
  PROVE  StampsTrue'
<1>1. StampsTrue
  BY SampledTrue
<1> QED
  BY <1>1 DEF StampsTrue, Participants

\* Every step of a participant keeps what both of them have and send.
LEMMA SampleStep ==
  ASSUME IInv, NEW L \in Ledgers, Agree(L), Sampled(L), WindowsFit,
         NEW p \in Participants, Participant(p)
  PROVE  (Broken' /\ StampsTrue') \/ \E K \in Ledgers : Agree(K)' /\ Sampled(K)'
<1>1. config' = config /\ TypeOK /\ IInv'
  BY ParticipantStep DEF Participant, IInv
<1>2. CASE Initialize(p, InitialExchange(p))
  BY <1>1, <1>2, InitializeAgrees, InitializeSampled
<1>3. CASE InitSend(p) \/ InitReceive(p)
  BY <1>1, <1>3, InitSendAgrees, InitReceiveAgrees, InitSendSampled, InitReceiveSampled
<1>4. CASE Advance(p, ExchangeFirstData(p))
  <2>1. PICK K \in Ledgers : Agree(K)' /\ Keeps(L, K)
    BY <1>1, <1>4, AdvanceAgrees
  <2>2. Sampled(K)'
    BY <1>1, <1>4, <2>1, AdvanceSampled
  <2> QED
    BY <2>1, <2>2
<1>5. CASE FirstSendsData(p) \/ SendTimeWindowSize(p) \/ ReceiveConvergence(p)
  BY <1>1, <1>5, FirstSendsDataAgrees, SendTimeWindowSizeAgrees, ReceiveConvergenceAgrees,
     FirstSendsDataSampled, SendTimeWindowSizeSampled, ReceiveConvergenceSampled
<1>6. CASE SendConvergence(p)
  <2>1. CASE Broken'
    <3>1. UNCHANGED <<written, received>>
      BY <1>6 DEF SendConvergence
    <3> QED
      BY <2>1, <3>1, BrokenSampled
  <2>2. CASE ~Broken'
    <3>1. pc'[p] # "failed" /\ \E K \in Ledgers : Agree(K)' /\ SameEnds(L, K)
      BY <1>1, <1>6, <2>2, SendConvergenceAgrees
    <3>2. PICK K \in Ledgers : Agree(K)' /\ SameEnds(L, K)
      BY <3>1
    <3>3. Keeps(L, K)
      BY <3>2, SameEndsKeep
    <3>4. Sampled(K)'
      BY <1>1, <1>6, <3>1, <3>3, SendConvergenceSampled
    <3> QED
      BY <3>2, <3>4
  <2> QED
    BY <2>1, <2>2
<1>7. CASE ReceiveTimeWindowSize(p)
  <2>1. CASE Broken'
    <3>1. UNCHANGED <<written, received>>
      BY <1>7 DEF ReceiveTimeWindowSize
    <3> QED
      BY <2>1, <3>1, BrokenSampled
  <2>2. CASE ~Broken'
    <3>1. pc'[p] # "failed" /\ Agree(L)'
      BY <1>1, <1>7, <2>2, ReceiveTimeWindowSizeAgrees
    <3>2. Sampled(L)'
      BY <1>1, <1>7, <3>1, ReceiveTimeWindowSizeSampled
    <3> QED
      BY <3>1, <3>2
  <2> QED
    BY <2>1, <2>2
<1>8. CASE SecondSendsData(p)
  <2>1. CASE WantsData(scheme[p])
    <3>1. Agree(L)'
      BY <1>1, <1>8, <2>1, SecondSendsDataAgrees
    <3>2. Sampled(L)'
      BY <1>1, <1>8, <2>1, SecondAwaitsDataSampled
    <3> QED
      BY <3>1, <3>2
  <2>2. CASE ~WantsData(scheme[p])
    <3>1. \E K \in Ledgers : Agree(K)' /\ SameSoFar(L, K)
      BY <1>1, <1>8, <2>2, SecondSendsDataAgrees
    <3>2. PICK K \in Ledgers : Agree(K)' /\ SameSoFar(L, K)
      BY <3>1
    <3>3. Sampled(K)'
      BY <1>1, <1>8, <2>2, <3>2, SecondSendsLastSampled
    <3> QED
      BY <3>2, <3>3
  <2> QED
    BY <2>1, <2>2
<1>9. CASE FirstReceivesData(p) \/ SecondReceivesData(p)
  <2>1. PICK K \in Ledgers : Agree(K)' /\ SameSoFar(L, K)
    BY <1>1, <1>9, FirstReceivesDataAgrees, SecondReceivesDataAgrees
  <2>2. Sampled(K)'
    BY <1>1, <1>9, <2>1, FirstReceivesDataSampled, SecondReceivesDataSampled
  <2> QED
    BY <2>1, <2>2
<1>10. CASE ApiCall(p)
  <2>1. ~LosePartner(p)
    BY <1>1, NobodyIsLost
  <2>2. CASE RequiresWritingCheckpoint(p) \/ RequiresReadingCheckpoint(p)
    BY <1>1, <2>2, CheckpointAgrees, CheckpointSampled
  <2>3. CASE Finalize(p)
    BY <1>1, <2>3, FinalizeAgrees, FinalizeSampled
  <2>4. CASE ReceivePing(p)
    BY <1>1, <2>4, ReceivePingAgrees, ReceivePingSampled
  <2>5. CASE ReceivePong(p)
    BY <1>1, <2>5, ReceivePongAgrees, ReceivePongSampled
  <2> QED
    BY <1>10, <2>1, <2>2, <2>3, <2>4, <2>5 DEF ApiCall
<1>11. CASE InitReceiveTimeWindowSize(p) \/ InitReceiveDataForWindowEnd(p)
  BY <1>1, <1>11, InitReceiveTimeWindowSizeAgrees, InitReceiveDataForWindowEndAgrees,
     InitReceiveTimeWindowSizeSampled, InitReceiveDataForWindowEndSampled
<1> QED
  BY <1>2, <1>3, <1>4, <1>5, <1>6, <1>7, <1>8, <1>9, <1>10, <1>11 DEF Participant

\* Before initialize() there are no samples.
LEMMA InitSampled ==
  ASSUME Init, NEW L
  PROVE  Sampled(L)
<1>1. /\ TypeOK /\ config \in Configurations /\ Second \in Participants
  BY InitConsistent DEF IInv, TypeOK, Participants
<1>2. ASSUME NEW p \in Participants
      PROVE  /\ Holds(L, p, pc[p], scheme[p], written[p], received[p])
             /\ Parcels(L, p, channel[p], ReadAt(p, pc[p], scheme[p]))
  <2>1. /\ pc[p] = "constructed" /\ written[p] = {} /\ received[p] = {} /\ channel[p] = <<>>
    BY DEF Init
  <2>2. \A n : Parcels(L, p, <<>>, n)
    BY DEF Parcels
  <2>3. \A now : Timely({}, now)
    BY EmptyParts
  <2> QED
    BY <2>1, <2>2, <2>3 DEF Holds, InitializeSteps, ExchangeSteps
<1>3. Steady(L, pc[Second], scheme[Second])
  <2> DEFINE c == Constructed(Second)
  <2>1. pc[Second] = "constructed" /\ scheme[Second] = c
    BY <1>1 DEF Init
  <2>2. c.time.start = 0 /\ c.timeWindows = 1 /\ c.totalIterations = 1
    BY DEF Constructed, Time!ResetTo
  <2> HIDE DEF c
  <2>3. RoundRead(Second, "constructed", c) = 0
    BY <2>2 DEF RoundRead, RoundAt, WindowAt, ExchangeSteps
  <2>4. Fitted => 0 \in Nat /\ c.time.start = 0 * TimeWindowSize
    <3>1. Fitted => TimeWindowSize \in Nat
      BY <1>1, ConfigTypes DEF Fitted
    <3> QED
      BY <2>2, <3>1
  <2>5. 1 .. 0 - 1 = {}
    OBVIOUS
  <2> QED
    BY <2>1, <2>3, <2>4, <2>5 DEF Steady, Settled
<1> QED
  BY <1>2, <1>3 DEF Sampled

\* What changes nothing keeps the samples.
LEMMA StutterSampled ==
  ASSUME NEW L, Sampled(L), UNCHANGED vars
  PROVE  Sampled(L)'
<1>1. UNCHANGED <<config, pc, scheme, channel, written, received>>
  BY DEF vars
<1>2. ASSUME NEW x \in Participants
      PROVE  /\ Holds(L, x, pc[x], scheme[x], written[x], received[x])'
             /\ Parcels(L, x, channel[x], ReadAt(x, pc[x], scheme[x]))'
  <2>1. /\ Holds(L, x, pc[x], scheme[x], written[x], received[x])
        /\ Parcels(L, x, channel[x], ReadAt(x, pc[x], scheme[x]))
    BY DEF Sampled
  <2> QED
    BY <1>1, <2>1, HoldsNext
<1>3. Steady(L, pc[Second], scheme[Second])'
  <2>1. Steady(L, pc[Second], scheme[Second])
    BY DEF Sampled
  <2> QED
    BY <1>1, <2>1, HoldsNext
<1> QED
  BY <1>2, <1>3 DEF Sampled, Participants

\* Whether the windows fit is a matter of the configuration.
LEMMA WindowsFitNext ==
  ASSUME config' = config
  PROVE  WindowsFit' <=> WindowsFit
<1>1. UNCHANGED <<Sends, Substeps, MaxTime, TimeWindowSize>>
  BY DEF Sends, Substeps, MaxTime, TimeWindowSize
<1> QED
  BY <1>1 DEF WindowsFit, Fitted, Undefined, Time!Undefined

\* The invariant of the samples, with whatever step comes next.
LEMMA SerialDataAgreement == Init /\ [][Next]_vars => []DataAgreement
<1>1. Init => DataAgreement
  BY InitConsistent, InitAgrees, InitSampled DEF DataAgreement
<1>2. DataAgreement /\ [Next]_vars => DataAgreement'
  <2> SUFFICES ASSUME DataAgreement, [Next]_vars PROVE DataAgreement'
    OBVIOUS
  <2>1. CASE UNCHANGED vars
    <3>1. /\ IInv' /\ (Broken /\ StampsTrue => Broken' /\ StampsTrue')
          /\ WindowsFit' <=> WindowsFit
      BY <2>1, StutterStep, WindowsFitNext
         DEF DataAgreement, Broken, StampsTrue, Participants, Implicit, vars
    <3>2. ASSUME NEW L \in Ledgers, Agree(L), Sampled(L)
          PROVE  \E K \in Ledgers : Agree(K)' /\ Sampled(K)'
      BY <2>1, <3>2, StutterAgrees, StutterSampled
    <3> QED
      BY <3>1, <3>2 DEF DataAgreement, Ledgers, Entries
  <2>2. ASSUME NEW p \in Participants, Participant(p) PROVE DataAgreement'
    <3>1. /\ IInv /\ IInv' /\ TypeOK
          /\ WindowsFit' <=> WindowsFit
      BY <2>2, ParticipantStep, WindowsFitNext DEF DataAgreement, IInv, Participant
    <3>2. Broken /\ StampsTrue => Broken' /\ StampsTrue'
      BY <2>2, <3>1, BrokenStep DEF StampsTrue, Participants
    <3>3. ASSUME WindowsFit, NEW L \in Ledgers, Agree(L), Sampled(L)
          PROVE  (Broken' /\ StampsTrue') \/ \E K \in Ledgers : Agree(K)' /\ Sampled(K)'
      BY <2>2, <3>1, <3>3, SampleStep
    <3> QED
      BY <3>1, <3>2, <3>3 DEF DataAgreement, Ledgers, Entries
  <2> QED
    BY <2>1, <2>2 DEF Next
<1> QED
  BY <1>1, <1>2, PTL

--------------------------------------------------------------------------------
(* What the samples give *)

\* Each sample is stored at the time that it was computed for.
LEMMA AgreedStampsTrue ==
  ASSUME DataAgreement, WindowsFit
  PROVE  StampsTrue
BY SampledTrue DEF DataAgreement

\* What p is about to store is not before what it has.
LEMMA AgreedStampsInOrder ==
  ASSUME DataAgreement, WindowsFit
  PROVE  StampsInOrder
<1>1. TypeOK /\ config \in Configurations
  BY DEF DataAgreement, IInv, TypeOK
<1>2. CASE Broken
  <2>1. \A p \in Participants : pc[p] \in {"sendData", "receiveConvergence", "failed"}
    BY <1>2 DEF Broken, Participants
  <2> QED
    BY <2>1 DEF StampsInOrder
<1>3. ASSUME NEW L \in Ledgers, Agree(L), Sampled(L)
      PROVE  StampsInOrder
  <2> SUFFICES ASSUME NEW p \in Participants
        PROVE  /\ pc[p] = "solving" => \A s \in written[p] : s.t <= Time!TimeOf(scheme[p].time)
               /\ pc[p] \in {"receiveData", "initReceiveData"} =>
                    CanSetSampleAtTime(received[p], Time!TimeOf(scheme[p].time))
               /\ pc[p] \in {"receiveDataForWindowEnd", "initReceiveDataForWindowEnd"} =>
                    CanSetSampleAtTime(received[p], WindowEndToCome(scheme[p]))
    BY DEF StampsInOrder
  <2> DEFINE c == scheme[p]
             now == Time!TimeOf(c.time)
             r == RoundAt(pc[p], c)
             k == RoundRead(p, pc[p], c)
  <2>1. /\ Holds(L, p, pc[p], c, written[p], received[p])
        /\ Joins(L, p, pc[p], c) /\ InRound(p, pc[p], c, L[r])
        /\ r \in Nat \ {0} /\ received[p] \in SUBSET Samples
        /\ c \in Schemes /\ First # Second /\ p \in {First, Second}
    BY <1>1, <1>3, AgreeAt, ConfigTypes DEF Sampled, TypeOK, Participants
  <2>2. \A s \in written[p] : s.t <= now
    BY <2>1 DEF Holds, Timely
  <2>3. now \in Nat
    BY <2>1, TimeOfType DEF Schemes
  <2>4. ASSUME pc[p] \in {"receiveData", "receiveDataForWindowEnd",
                          "initReceiveData", "initReceiveDataForWindowEnd"}
        PROVE  Got(L, p, k, received[p]) /\ Stamp(L, k) \in Nat /\ Stamp(L, k) <= now
    <3>1. Got(L, p, k, received[p])
      BY <2>1, <2>4 DEF Holds
    <3>2. CASE pc[p] \in {"receiveData", "receiveDataForWindowEnd"}
      <4>1. pc[p] \in ExchangeSteps /\ (p = First => pc[p] = "receiveData")
        BY <2>1, <3>2 DEF ExchangeSteps, Joins, SerialPlaces, Leaving
      <4>2. k = IF p = Second THEN r ELSE r - 1
        BY <4>1 DEF RoundRead
      <4>3. /\ Stamp(L, r) \in Nat /\ Stamp(L, r) = now
            /\ p = First => Stamp(L, r - 1) \in Nat /\ Stamp(L, r - 1) <= Stamp(L, r)
        BY <1>1, <1>3, <4>1, ExchangeStamps
      <4> HIDE DEF r, k, now
      <4> QED
        BY <2>1, <2>3, <3>1, <4>2, <4>3
    <3>3. CASE pc[p] \in {"initReceiveData", "initReceiveDataForWindowEnd"}
      <4>1. r = 1
        BY <2>1, <3>3 DEF InRound, Early, InitializeSteps
      <4>2. k = 0
        BY <3>3, <4>1 DEF RoundRead, ExchangeSteps
      <4>3. Stamp(L, k) = 0
        BY <4>2 DEF Stamp
      <4> QED
        BY <2>3, <3>1, <4>3
    <3> QED
      BY <2>4, <3>2, <3>3
  <2>5. ASSUME pc[p] \in {"receiveDataForWindowEnd", "initReceiveDataForWindowEnd"}
        PROVE  WindowEndToCome(c) \in Nat /\ now <= WindowEndToCome(c)
    <3>1. c.nextTimeWindowSize # Undefined
      BY <2>5 DEF DataAgreement, IInv, Consistent, SizeIsKnown
    <3>2. c.nextTimeWindowSize \in Nat /\ c.time \in Time!TimeHandlers
      BY <2>1, <3>1 DEF Schemes
    <3>3. WindowEndToCome(c) = c.time.start + (c.time.progress + c.nextTimeWindowSize)
      BY DEF WindowEndToCome, Time!TimeOf, Time!ProgressBy
    <3>4. now = c.time.start + c.time.progress
      BY DEF Time!TimeOf
    <3>5. c.time.start \in Nat /\ c.time.progress \in Nat
      BY <3>2 DEF Time!TimeHandlers
    <3> HIDE DEF c, now
    <3> QED
      BY <3>2, <3>3, <3>4, <3>5
  <2> HIDE DEF now, k, c
  <2>6. pc[p] \in {"receiveData", "initReceiveData"} => CanSetSampleAtTime(received[p], now)
    BY <2>1, <2>3, <2>4, StoresLater
  <2>7. pc[p] \in {"receiveDataForWindowEnd", "initReceiveDataForWindowEnd"} =>
          CanSetSampleAtTime(received[p], WindowEndToCome(c))
    <3> SUFFICES ASSUME pc[p] \in {"receiveDataForWindowEnd", "initReceiveDataForWindowEnd"}
                 PROVE  CanSetSampleAtTime(received[p], WindowEndToCome(c))
      OBVIOUS
    <3>1. Stamp(L, k) <= WindowEndToCome(c)
      BY <2>3, <2>4, <2>5
    <3> QED
      BY <2>1, <2>4, <2>5, <3>1, StoresLater
  <2> QED
    BY <2>2, <2>6, <2>7 DEF now, c
<1> QED
  BY <1>2, <1>3 DEF DataAgreement

\* What p has at the start of a step: Second that of the round, First that of
\* the round before.
LEMMA AgreedFreshData ==
  ASSUME DataAgreement, WindowsFit
  PROVE  FreshData
<1> DEFINE k(p) == IF p = First THEN Round(scheme[p]) - 1 ELSE Round(scheme[p])
<1> SUFFICES ASSUME NEW p \in Participants, pc[p] = "solving", IsCouplingOngoing(scheme[p]),
                    Other(p) \in Sends
             PROVE  EndsWithRound(p, k(p))
  BY DEF FreshData
<1>1. TypeOK /\ First # Second
  BY ConfigTypes DEF DataAgreement, IInv, TypeOK
<1>2. ~Broken
  BY DEF Broken, Participants
<1>3. PICK L \in Ledgers : Agree(L) /\ Sampled(L)
  BY <1>2 DEF DataAgreement
<1>4. Holds(L, p, "solving", scheme[p], written[p], received[p])
  BY <1>3 DEF Sampled
<1>5. RoundRead(p, "solving", scheme[p]) = k(p)
  BY <1>1 DEF RoundRead, RoundAt, WindowAt, ExchangeSteps, Round, Participants
<1> HIDE DEF k
<1>6. EndsIn(received[p], k(p), Stamp(L, k(p)))
  BY <1>4, <1>5 DEF Holds, Got, HasData
<1> QED
  BY <1>6 DEF EndsIn, EndsWithRound, Last

\* The last sample of Second is that of the end of its window.
LEMMA AgreedEndsWithWindowEnd ==
  ASSUME DataAgreement, WindowsFit
  PROVE  EndsWithWindowEnd
<1> DEFINE c == scheme[Second]
           r == RoundAt("solving", c)
           now == Time!TimeOf(c.time)
<1> SUFFICES ASSUME pc[Second] = "solving", IsCouplingOngoing(c), First \in Sends
             PROVE  \E s \in Last(received[Second]) : s.t = now + NextTimeStepMaxSize(c)
  BY DEF EndsWithWindowEnd
<1>1. /\ TypeOK /\ config \in Configurations /\ First # Second /\ Second \in Participants
      /\ Other(Second) = First
  BY ConfigTypes DEF DataAgreement, IInv, TypeOK, Participants, Other
<1>2. ~Broken
  BY DEF Broken
<1>3. PICK L \in Ledgers : Agree(L) /\ Sampled(L)
  BY <1>2 DEF DataAgreement
<1> DEFINE e == L[r]
<1>4. /\ c \in Schemes /\ e \in Entries /\ Proper(e) /\ InRound(Second, "solving", c, e)
      /\ r \in Nat \ {0}
  BY <1>1, <1>3, AgreeAt
<1>5. Holds(L, Second, "solving", c, written[Second], received[Second])
  BY <1>1, <1>3 DEF Sampled
<1>6. EndsIn(received[Second], r, e.end)
  <2>1. RoundRead(Second, "solving", c) = r
    BY DEF RoundRead
  <2>2. Got(L, Second, r, received[Second])
    BY <1>5, <2>1 DEF Holds
  <2> QED
    BY <1>1, <1>4, <2>2 DEF Got, HasData, Stamp
<1> HIDE DEF e
<1>7. Open(e)
  <2>1. "solving" \notin ExchangeSteps
    BY DEF ExchangeSteps
  <2> QED
    BY <1>1, <1>4, <2>1, OngoingIsOpen
<1>8. ~SetsSize(Second)
  BY <1>1 DEF SetsSize
<1>9. now \in Nat /\ now < e.end /\ e.start < e.end /\ e.end \in Nat
  <2>1. now < e.end /\ e.start = c.time.start
    BY <1>4, <1>7, <1>8 DEF InRound
  <2>2. c.time \in Time!TimeHandlers /\ e.end \in Nat
    BY <1>4 DEF Schemes, Entries
  <2> HIDE DEF c
  <2> QED
    BY <2>1, <2>2 DEF Time!TimeOf, Time!TimeHandlers
<1>10. /\ c.timeWindowSize # Undefined /\ c.timeWindowSize \in Nat
       /\ WindowEnd(c.time.start, c.timeWindowSize) = e.end
  BY <1>1, <1>4, <1>7, <1>8, <1>9, EndIsKnown
<1>11. NextTimeStepMaxSize(c) = e.end - now
  <2>1. Time!UntilWindowEnd(c.time, c.timeWindowSize) = e.end - now
    BY <1>1, <1>4, <1>10, UntilWindowEnd DEF Schemes
  <2> QED
    BY <1>10, <2>1 DEF NextTimeStepMaxSize, HasTimeWindowSize
<1> HIDE DEF now
<1>12. e.end = now + NextTimeStepMaxSize(c)
  BY <1>9, <1>11
<1>13. \E s \in Last(received[Second]) : s.t = e.end
  BY <1>6 DEF EndsIn, Last
<1> QED
  BY <1>12, <1>13

--------------------------------------------------------------------------------
(* The promises of serial coupling *)

\* For every configuration: a receive finds the message it is meant for.
THEOREM SerialExpectedMessage == Spec => []ExpectedMessage
  BY SerialAgreement, AgreedExpectedMessage, PTL DEF Spec

\* Participants that have finalized did the same windows, are at the same time
\* and left no message unread.
THEOREM SerialEndTogether == Spec => []EndTogether
  BY SerialAgreement, AgreedEndTogether, PTL DEF Spec

\* On both sides a window is complete only within min- and max-iterations,
\* though only Second measures and each counts on its own.
THEOREM SerialIterationsWithinLimits == Spec => IterationsWithinLimits
<1>1. Agreement /\ [Next]_vars =>
        [\A p \in Participants :
           Implicit /\ pc[p] \in ExchangeSteps /\ pc'[p] = "solving"
                    /\ scheme'[p].isTimeWindowComplete =>
             /\ scheme[p].iterations >= MinIterations
             /\ MaxIterations # Undefined => scheme[p].iterations <= MaxIterations]_vars
  BY AgreedIterations
<1> QED
  BY <1>1, SerialAgreement, PTL DEF Spec, IterationsWithinLimits

\* Serial coupling implements Lockstep: neither participant that gets data
\* ends a round that the other has not come to, and both end it the same way.
THEOREM SerialLockstep == Spec => KeepsLockstep
<1>1. Init => Promise!Init
  BY InitInLockstep
<1>2. Agreement /\ Agreement' /\ [Next]_vars =>
        [Promise!Next]_<<[p \in Participants |-> Position(p)],
                         {p \in Participants : Other(p) \notin Sends}>>
  BY AgreedLockstep
<1> QED
  BY <1>1, <1>2, SerialAgreement, PTL DEF Spec, KeepsLockstep, Promise!Spec

\* The same with mapped data, which is the specification that TLC checks
THEOREM SerialFlowPromises ==
  FlowSpec => []ExpectedMessage /\ []EndTogether /\ IterationsWithinLimits /\ KeepsLockstep
<1>1. Agreement /\ [Next]_vars =>
        [\A p \in Participants :
           Implicit /\ pc[p] \in ExchangeSteps /\ pc'[p] = "solving"
                    /\ scheme'[p].isTimeWindowComplete =>
             /\ scheme[p].iterations >= MinIterations
             /\ MaxIterations # Undefined => scheme[p].iterations <= MaxIterations]_vars
  BY AgreedIterations
<1>2. Init => Promise!Init
  BY InitInLockstep
<1>3. Agreement /\ Agreement' /\ [Next]_vars =>
        [Promise!Next]_<<[p \in Participants |-> Position(p)],
                         {p \in Participants : Other(p) \notin Sends}>>
  BY AgreedLockstep
<1> QED
  BY <1>1, <1>2, <1>3, SerialFlowSteps, SerialAgreement, AgreedExpectedMessage,
     AgreedEndTogether, PTL DEF IterationsWithinLimits, KeepsLockstep, Promise!Spec

\* With substeps or without, in every window and every iteration of it: a sample
\* is stored at the time that its writer computed it for, if First sends substeps,
\* sets the size of the window, or max-time truncates no window.
THEOREM SerialStampsTrue == Spec => [](WindowsFit => StampsTrue)
<1>1. DataAgreement => (WindowsFit => StampsTrue)
  BY AgreedStampsTrue
<1> QED
  BY <1>1, SerialDataAgreement, PTL DEF Spec

\* The assertion of setSampleAtTime() holds wherever a sample is stored.
THEOREM SerialStampsInOrder == Spec => [](WindowsFit => StampsInOrder)
<1>1. DataAgreement => (WindowsFit => StampsInOrder)
  BY AgreedStampsInOrder
<1> QED
  BY <1>1, SerialDataAgreement, PTL DEF Spec

\* First computes a round with what Second wrote in the one before, Second with
\* what First wrote in this one.
THEOREM SerialFreshData == Spec => [](WindowsFit => FreshData)
<1>1. DataAgreement => (WindowsFit => FreshData)
  BY AgreedFreshData
<1> QED
  BY <1>1, SerialDataAgreement, PTL DEF Spec

\* The data of First that Second computes with reaches to the end of the window.
THEOREM SerialEndsWithWindowEnd == Spec => [](WindowsFit => EndsWithWindowEnd)
<1>1. DataAgreement => (WindowsFit => EndsWithWindowEnd)
  BY AgreedEndsWithWindowEnd
<1> QED
  BY <1>1, SerialDataAgreement, PTL DEF Spec

\* The same with mapped data, which is the specification that TLC checks
THEOREM SerialFlowSamples ==
  FlowSpec => [](WindowsFit =>
                   StampsTrue /\ StampsInOrder /\ FreshData /\ EndsWithWindowEnd)
<1>1. DataAgreement =>
        (WindowsFit => StampsTrue /\ StampsInOrder /\ FreshData /\ EndsWithWindowEnd)
  BY AgreedStampsTrue, AgreedStampsInOrder, AgreedFreshData, AgreedEndsWithWindowEnd
<1> QED
  BY <1>1, SerialFlowSteps, SerialDataAgreement, PTL

--------------------------------------------------------------------------------
(* The mappings of the two participants *)

\* What the solver of First has to read in explicit coupling ends at the start of the window.
LEMMA HeldRoot ==
  ASSUME TypeOK, NEW L \in Ledgers, Agree(L), Sampled(L), NEW p \in Participants, HasData(p),
         pc[p] = "solving"
  PROVE  p = First /\ ~Implicit => \A s \in received[p] : s.t <= scheme[p].time.start
<1> DEFINE r == RoundAt(pc[p], scheme[p])
<1> SUFFICES ASSUME p = First, ~Implicit
             PROVE  \A s \in received[p] : s.t <= scheme[p].time.start
  OBVIOUS
<1>1. Holds(L, p, pc[p], scheme[p], written[p], received[p]) /\ First # Second
  BY ConfigTypes DEF Sampled, TypeOK
<1>2. /\ r \in Nat \ {0} /\ Kept(L, r) /\ L[r].start = scheme[p].time.start
  BY AgreeAt DEF Tracks, InRound
<1>3. RoundRead(p, pc[p], scheme[p]) = r - 1
  BY <1>1 DEF RoundRead
<1>4. Got(L, p, r - 1, received[p])
  BY <1>1, <1>3 DEF Holds
<1> HIDE DEF r
<1>5. Stamp(L, r - 1) = L[r].start
  <2>1. CASE r = 1
    BY <1>2, <2>1 DEF Stamp, Kept, First1
  <2>2. CASE r # 1
    <3>1. r - 1 \in 1 .. r - 1 /\ (r - 1) + 1 = r /\ r - 1 # 0
      BY <1>2, <2>2
    <3>2. Follows(L[r - 1], L[r])
      BY <1>2, <3>1 DEF Kept
    <3> QED
      BY <3>1, <3>2 DEF Stamp, Follows, Done
  <2> QED
    BY <2>1, <2>2
<1> QED
  BY <1>2, <1>4, <1>5 DEF Got, EndsIn

\* What p has received after a step is at its root, too, and what Second has received
\* for its window ends where that does.
LEMMA HeldRootNext ==
  ASSUME config' = config, NEW L \in Ledgers, Agree(L)', Sampled(L)', NEW p \in Participants,
         HasData(p), pc'[p] # "constructed", ~Late(p, pc'[p])
  PROVE  /\ Rooted(received'[p], OwnRoot(pc'[p], scheme'[p]))
         /\ p = Second /\ pc'[p] \in ExchangeSteps =>
              /\ Stamped(received'[p])
              /\ EndsIn(received'[p], RoundAt(pc'[p], scheme'[p]), Time!TimeOf(scheme'[p].time))
<1> DEFINE r == RoundAt(pc'[p], scheme'[p])
<1>1. Holds(L, p, pc[p], scheme[p], written[p], received[p])'
  BY DEF Sampled, Participants
<1>2. Holds(L, p, pc'[p], scheme'[p], written'[p], received'[p])
  BY <1>1, HoldsNext
<1>3. /\ Rooted(received'[p], OwnRoot(pc'[p], scheme'[p]))
      /\ Got(L, p, RoundRead(p, pc'[p], scheme'[p]), received'[p])
  BY <1>2 DEF Holds, Starts, RootAt
<1>4. Joins(L, p, pc'[p], scheme'[p])
  <2>1. Joins(L, p, pc[p], scheme[p])'
    BY DEF Agree, Participants
  <2> QED
    BY <2>1, JoinsNext
<1>5. ASSUME p = Second, pc'[p] \in ExchangeSteps
      PROVE  /\ Stamped(received'[p]) /\ EndsIn(received'[p], r, Time!TimeOf(scheme'[p].time))
  <2>1. InRound(p, pc'[p], scheme'[p], L[r])
    BY <1>4 DEF Joins, Tracks
  <2>2. Time!TimeOf(scheme'[p].time) = L[r].end /\ r >= 1
    BY <1>5, <2>1 DEF InRound
  <2>3. RoundRead(p, pc'[p], scheme'[p]) = r
    BY <1>5 DEF RoundRead
  <2> HIDE DEF r
  <2>4. Stamp(L, r) = L[r].end
    BY <2>2 DEF Stamp
  <2> QED
    BY <1>3, <2>2, <2>3, <2>4 DEF Got
<1> QED
  BY <1>3, <1>5

\* The steps between initialize() or addComputedTime() and the end of advance(), but for
\* those that move the samples, and the other calls
Meanwhile(p) ==
  \/ InitSend(p) \/ InitReceive(p)
  \/ InitReceiveTimeWindowSize(p) \/ InitReceiveDataForWindowEnd(p)
  \/ SendTimeWindowSize(p) \/ FirstSendsData(p) \/ SendConvergence(p)
  \/ ReceiveConvergence(p) \/ ReceiveTimeWindowSize(p)
  \/ ApiCall(p)

\* Only those of Second's places follow one another in which it has sent its data.
Follow(p, place, there) ==
  /\ Late(p, there) => Late(p, place)
  /\ Late(p, place) =>
       \/ Late(p, there)
       \/ there \notin {"solving", "receiveConvergence"} \cup InitializeSteps \cup ExchangeSteps
  /\ there = "receiveConvergence" => p = First

\* These steps leave what is written and the time alone.
LEMMA MeanwhileMembers ==
  ASSUME TypeOK, NEW p \in Participants, Meanwhile(p), pc[p] = "receiveConvergence" => p = First
  PROVE  /\ written'[p] = written[p] /\ scheme'[p].time = scheme[p].time
         /\ scheme'[p].iterations = scheme[p].iterations
         /\ scheme'[p].timeWindows = scheme[p].timeWindows
         /\ scheme'[p].totalIterations = scheme[p].totalIterations
         /\ pc'[p] \in InitializeSteps => pc[p] \in InitializeSteps
         /\ pc'[p] \in ExchangeSteps => pc[p] \in ExchangeSteps
         /\ pc'[p] = "solving" =>
              \/ pc[p] \in InitializeSteps
              \/ pc[p] = "solving" /\ received'[p] = received[p]
         /\ pc'[p] # "constructed"
         /\ Follow(p, pc[p], pc'[p])
         /\ Late(p, pc[p]) /\ Late(p, pc'[p]) => scheme'[p].hasConverged = scheme[p].hasConverged
<1>1. scheme[p] \in Schemes /\ pc[p] \in Places /\ First # Second
  BY ConfigTypes DEF TypeOK
<1>2. CASE InitSend(p)
  <2>1. /\ pc[p] = "initSendData" /\ UNCHANGED <<written, scheme>>
        /\ pc'[p] \in {"solving", "initReceiveData", "initReceiveTimeWindowSize",
                       "initReceiveDataForWindowEnd"}
    BY <1>2 DEF InitSend, InitSendData, At, Goto, TypeOK
  <2> QED
    BY <1>1, <2>1 DEF InitializeSteps, ExchangeSteps, Late, Follow
<1>3. CASE InitReceive(p)
  <2>1. /\ pc[p] = "initReceiveData" /\ written' = written
        /\ scheme'[p] = scheme[p] \/ scheme'[p] = NotifyDataHasBeenReceived(scheme[p])
        /\ pc'[p] \in {"initSendData", "solving", "initReceiveTimeWindowSize",
                       "initReceiveDataForWindowEnd"}
    BY <1>3 DEF InitReceive, InitReceiveData, At, Goto, TypeOK
  <2> QED
    BY <1>1, <2>1, AlikeMembers DEF Alike, InitializeSteps, ExchangeSteps, Late, Follow
<1>4. CASE InitReceiveTimeWindowSize(p)
  <2>1. /\ pc[p] = "initReceiveTimeWindowSize" /\ written' = written
        /\ \E x : scheme'[p] = [scheme[p] EXCEPT !.nextTimeWindowSize = x]
        /\ pc'[p] = "initReceiveDataForWindowEnd"
    BY <1>4 DEF InitReceiveTimeWindowSize, At, Goto, TypeOK
  <2> QED
    BY <1>1, <2>1 DEF Schemes, InitializeSteps, ExchangeSteps, Late, Follow
<1>5. CASE InitReceiveDataForWindowEnd(p)
  <2>1. /\ pc[p] = "initReceiveDataForWindowEnd" /\ written' = written /\ pc'[p] = "solving"
        /\ \E x : scheme'[p] = NotifyDataHasBeenReceived([scheme[p] EXCEPT !.timeWindowSize = x])
    BY <1>5 DEF InitReceiveDataForWindowEnd, At, Goto, TypeOK
  <2> QED
    BY <1>1, <2>1
       DEF NotifyDataHasBeenReceived, Schemes, InitializeSteps, ExchangeSteps, Late, Follow
<1>6. CASE SendTimeWindowSize(p)
  <2>1. /\ pc[p] = "sendTimeWindowSize" /\ written' = written /\ pc'[p] = "sendData"
        /\ \E x, y : scheme'[p] = [scheme[p] EXCEPT !.timeWindowSize = x, !.nextTimeWindowSize = y]
    BY <1>6 DEF SendTimeWindowSize, At, Goto, TypeOK
  <2> QED
    BY <1>1, <2>1 DEF Schemes, InitializeSteps, ExchangeSteps, Late, Follow
<1>7. CASE FirstSendsData(p)
  <2>1. /\ pc[p] = "sendData" /\ p = First /\ UNCHANGED <<written, scheme>>
        /\ pc'[p] \in {"receiveConvergence", "receiveData"}
    BY <1>7 DEF FirstSendsData, At, Goto, TypeOK
  <2> QED
    BY <1>1, <2>1 DEF InitializeSteps, ExchangeSteps, Late, Follow
<1>8. CASE SendConvergence(p)
  <2>1. PICK converged \in SUBSET Measuring :
          IF StrictMeasureFails(scheme[p], converged)
          THEN Goto(p, "failed") /\ scheme' = scheme
          ELSE /\ Goto(p, "sendData")
               /\ scheme' = [scheme EXCEPT ![p] = DoImplicitStep(scheme[p], converged)]
    BY <1>8 DEF SendConvergence
  <2>2. /\ pc[p] = "sendConvergence" /\ written' = written
        /\ scheme'[p] = scheme[p] \/ \E x : scheme'[p] = [scheme[p] EXCEPT !.hasConverged = x]
        /\ pc'[p] \in {"failed", "sendData"}
    BY <1>8, <2>1 DEF SendConvergence, At, Goto, TypeOK, DoImplicitStep
  <2> QED
    BY <1>1, <2>2 DEF Schemes, InitializeSteps, ExchangeSteps, Late, Follow
<1>9. CASE ReceiveConvergence(p)
  <2>1. /\ pc[p] = "receiveConvergence" /\ written' = written /\ p = First
        /\ \E x : scheme'[p] = [scheme[p] EXCEPT !.hasConverged = x]
        /\ pc'[p] = "receiveData"
    BY <1>9 DEF ReceiveConvergence, At, Goto, TypeOK
  <2> QED
    BY <1>1, <2>1 DEF Schemes, InitializeSteps, ExchangeSteps, Late, Follow
<1>10. CASE ReceiveTimeWindowSize(p)
  <2>1. /\ pc[p] = "receiveTimeWindowSize" /\ written' = written
        /\ \/ scheme'[p] = scheme[p] /\ pc'[p] = "failed"
           \/ /\ \E x : scheme'[p] = [scheme[p] EXCEPT !.nextTimeWindowSize = x]
              /\ pc'[p] \in {"receiveData", "receiveDataForWindowEnd"}
    BY <1>10 DEF ReceiveTimeWindowSize, At, Goto, TypeOK
  <2> QED
    BY <1>1, <2>1 DEF Schemes, InitializeSteps, ExchangeSteps, Late, Follow
<1>11. CASE ApiCall(p)
  BY <1>1, <1>11, ApiCallMembers DEF InitializeSteps, ExchangeSteps, Ends, Late, Follow
<1> QED
  BY <1>2, <1>3, <1>4, <1>5, <1>6, <1>7, <1>8, <1>9, <1>10, <1>11 DEF Meanwhile

\* Where Second has sent its data, what it goes on with is what is left of that.
Writes(p, place, c, w, own, sent) ==
  /\ IF Late(p, place)
     THEN /\ own \in SUBSET Samples /\ sent = own /\ w = Moved(c, own)
          /\ \A s \in own : s.t <= Time!TimeOf(c.time)
     ELSE MapsWrites(c, place, w, own, sent)
  /\ place = "receiveConvergence" => p = First

\* Every step of p keeps what it has written the same on both sides of its mapping.
LEMMA FlowWrites ==
  ASSUME IInv, Mappings, NEW p \in Participants, FlowParticipant(p),
         Writes(p, pc[p], scheme[p], written[p], provided[p], mappedWrite[p])
  PROVE  Writes(p, pc'[p], scheme'[p], written'[p], provided'[p], mappedWrite'[p])
<1>1. TypeOK /\ scheme[p] \in Schemes /\ written[p] \in SUBSET Samples /\ First # Second
  BY ConfigTypes DEF IInv, TypeOK
<1>2. CASE Initialize(p, InitialExchange(p)) /\ MapInitialWrittenData(p)
  <2>1. /\ InitialExchange(p) \in InitializeSteps \cup {"solving"}
        /\ pc[p] = "constructed" /\ pc'[p] = InitialExchange(p)
    BY <1>1, <1>2 DEF InitialExchange, InitializeSteps, Initialize, At, Goto, TypeOK
  <2>2. ~Late(p, pc[p]) /\ ~Late(p, pc'[p]) /\ pc'[p] # "receiveConvergence"
    BY <2>1 DEF Late, InitializeSteps
  <2>3. mappedWrite[p] = {}
    BY <2>1, <2>2 DEF Writes, MapsWrites
  <2>4. MapsWrites(scheme'[p], pc'[p], written'[p], provided'[p], mappedWrite'[p])
    BY <1>1, <1>2, <2>1, <2>3, MapsInitial
  <2> QED
    BY <2>2, <2>4 DEF Writes
<1>3. CASE Advance(p, ExchangeFirstData(p)) /\ HandleDataBeforeAdvance(p)
  <2>1. /\ ExchangeFirstData(p) \in ExchangeSteps /\ pc[p] = "solving"
        /\ pc'[p] \in {"solving", "sendTimeWindowSize", "sendConvergence", "sendData"}
    BY <1>1, <1>3 DEF ExchangeFirstData, ExchangeSteps, Advance, At, Goto, TypeOK
  <2>2. ~Late(p, pc[p]) /\ ~Late(p, pc'[p]) /\ pc'[p] # "receiveConvergence"
    BY <2>1 DEF Late
  <2>3. MapsWrites(scheme[p], "solving", written[p], provided[p], mappedWrite[p])
    BY <2>1, <2>2 DEF Writes
  <2>4. MapsWrites(scheme'[p], pc'[p], written'[p], provided'[p], mappedWrite'[p])
    BY <1>3, <2>1, <2>3, MapsStep
  <2> QED
    BY <2>2, <2>4 DEF Writes
<1>4. ASSUME NEW c \in Schemes, NEW w \in SUBSET Samples, NEW r,
             FinishAdvance(p, c, Moved(c, w), r), DuringAdvance(p, ToKeep(p)),
             provided[p] = w, mappedWrite[p] = w, \A s \in w : s.t <= Time!TimeOf(c.time)
      PROVE  Writes(p, pc'[p], scheme'[p], written'[p], provided'[p], mappedWrite'[p])
  <2>1. pc'[p] = "solving"
    BY <1>1, <1>4 DEF FinishAdvance, Goto, TypeOK
  <2>2. HandleDataAfterAdvance(p, ToKeep(p))
    BY <1>4, <2>1 DEF DuringAdvance
  <2>3. MapsWrites(scheme'[p], pc'[p], written'[p], provided'[p], mappedWrite'[p])
    BY <1>1, <1>4, <2>2, MapsFinish
  <2> QED
    BY <2>1, <2>3 DEF Writes, Late
<1>5. ASSUME pc[p] \in ExchangeSteps, ~Late(p, pc[p])
      PROVE  /\ provided[p] = written[p] /\ mappedWrite[p] = written[p]
             /\ \A s \in written[p] : s.t <= Time!TimeOf(scheme[p].time)
  BY <1>5 DEF Writes, MapsWrites
<1>6. CASE SecondSendsData(p) /\ DuringAdvance(p, ToKeep(p))
  <2> DEFINE c == scheme[p]
             r == Moved(c, received[p])
  <2>1. pc[p] = "sendData" /\ p = Second /\ pc[p] \in ExchangeSteps /\ ~Late(p, pc[p])
    BY <1>6 DEF SecondSendsData, At, ExchangeSteps, Late
  <2>2. CASE WantsData(c)
    <3>1. /\ pc'[p] \in {"receiveTimeWindowSize", "receiveData", "receiveDataForWindowEnd"}
          /\ scheme' = scheme /\ written'[p] = Moved(c, written[p])
      BY <1>1, <1>6, <2>2 DEF SecondSendsData, Goto, TypeOK
    <3>2. UNCHANGED flow
      BY <1>6, <3>1 DEF DuringAdvance
    <3>3. Late(p, pc'[p]) /\ pc'[p] # "receiveConvergence"
      BY <2>1, <3>1 DEF Late
    <3> QED
      BY <1>1, <1>5, <2>1, <3>1, <3>2, <3>3 DEF Writes, flow
  <2>3. CASE ~WantsData(c)
    <3>1. FinishAdvance(p, c, Moved(c, written[p]), r)
      BY <1>6, <2>3 DEF SecondSendsData
    <3> HIDE DEF r
    <3> QED
      BY <1>1, <1>4, <1>5, <1>6, <2>1, <3>1
  <2> QED
    BY <2>2, <2>3
<1>7. CASE FirstReceivesData(p) /\ DuringAdvance(p, ToKeep(p))
  <2> DEFINE c == NotifyDataHasBeenReceived(scheme[p])
             r == Moved(c, ReceivedAt(p, Time!TimeOf(c.time)))
  <2>1. /\ FinishAdvance(p, c, Moved(c, written[p]), r) /\ pc[p] \in ExchangeSteps
        /\ ~Late(p, pc[p])
    BY <1>1, <1>7 DEF FirstReceivesData, At, ExchangeSteps, Late
  <2>2. c \in Schemes /\ c.time = scheme[p].time
    BY <1>1, NotifyMembers
  <2> HIDE DEF c, r
  <2> QED
    BY <1>1, <1>4, <1>5, <1>7, <2>1, <2>2
<1>8. CASE SecondReceivesData(p) /\ DuringAdvance(p, ToKeep(p))
  <2> DEFINE c == NotifyDataHasBeenReceived(scheme[p])
             time == IF pc[p] = "receiveData" THEN Time!TimeOf(c.time) ELSE WindowEndToCome(c)
             r == ReceivedAt(p, time)
  <2>1. /\ FinishAdvance(p, c, written[p], r) /\ Late(p, pc[p])
    BY <1>1, <1>8 DEF SecondReceivesData, At, Late
  <2>2. c \in Schemes /\ c.time = scheme[p].time /\ Alike(scheme[p], c)
    BY <1>1, NotifyMembers, AlikeMembers
  <2> HIDE DEF c, r
  <2>3. /\ provided[p] \in SUBSET Samples /\ mappedWrite[p] = provided[p]
        /\ written[p] = Moved(scheme[p], provided[p])
        /\ \A s \in provided[p] : s.t <= Time!TimeOf(c.time)
    BY <2>1, <2>2 DEF Writes
  <2>4. written[p] = Moved(c, provided[p])
    BY <2>2, <2>3 DEF Moved, Alike
  <2>5. FinishAdvance(p, c, Moved(c, provided[p]), r)
    BY <2>1, <2>4
  <2> QED
    BY <1>4, <1>8, <2>2, <2>3, <2>5
<1>9. ASSUME Meanwhile(p), provided'[p] = provided[p], mappedWrite'[p] = mappedWrite[p]
      PROVE  Writes(p, pc'[p], scheme'[p], written'[p], provided'[p], mappedWrite'[p])
  <2>1. /\ pc[p] = "receiveConvergence" => p = First
        /\ Follow(p, pc[p], pc'[p]) /\ written'[p] = written[p]
        /\ scheme'[p].time = scheme[p].time
    BY <1>1, <1>9, MeanwhileMembers DEF Writes
  <2>2. CASE ~Late(p, pc[p])
    <3>1. MapsWrites(scheme[p], pc[p], written[p], provided[p], mappedWrite[p])
      BY <2>2 DEF Writes
    <3>2. MapsWrites(scheme'[p], pc'[p], written'[p], provided'[p], mappedWrite'[p])
      BY <1>1, <1>9, <2>1, <3>1, MeanwhileMembers, MapsMeanwhile
    <3> QED
      BY <2>1, <2>2, <3>2 DEF Writes, Follow
  <2>3. CASE Late(p, pc[p]) /\ Late(p, pc'[p])
    <3>1. scheme'[p].hasConverged = scheme[p].hasConverged
      BY <1>1, <1>9, <2>1, <2>3, MeanwhileMembers
    <3> QED
      BY <1>9, <2>1, <2>3, <3>1 DEF Writes, Follow, Moved
  <2>4. CASE Late(p, pc[p]) /\ ~Late(p, pc'[p])
    <3>1. /\ pc'[p] \notin {"solving", "receiveConvergence"} \cup InitializeSteps \cup ExchangeSteps
          /\ pc'[p] # "constructed"
      BY <1>1, <1>9, <2>1, <2>4, MeanwhileMembers DEF Follow
    <3>2. \A s \in written[p] : s.t <= Time!TimeOf(scheme[p].time)
      BY <2>4 DEF Writes, Moved, MoveToNextWindow, Last
    <3> QED
      BY <1>9, <2>1, <2>4, <3>1, <3>2 DEF Writes, MapsWrites
  <2> QED
    BY <2>2, <2>3, <2>4
<1>10. CASE /\ \/ InitSend(p) \/ InitReceive(p)
               \/ InitReceiveTimeWindowSize(p) \/ InitReceiveDataForWindowEnd(p)
            /\ DuringInitialize(p)
  BY <1>9, <1>10 DEF Meanwhile, DuringInitialize
<1>11. CASE /\ \/ SendTimeWindowSize(p) \/ FirstSendsData(p) \/ SendConvergence(p)
               \/ ReceiveConvergence(p) \/ ReceiveTimeWindowSize(p)
            /\ DuringAdvance(p, ToKeep(p))
  <2>1. pc'[p] # "solving"
    BY <1>1, <1>11 DEF SendTimeWindowSize, FirstSendsData, SendConvergence, ReceiveConvergence,
                       ReceiveTimeWindowSize, Goto, TypeOK
  <2>2. UNCHANGED flow
    BY <1>11, <2>1 DEF DuringAdvance
  <2> QED
    BY <1>9, <1>11, <2>2 DEF Meanwhile, flow
<1>12. CASE ApiCall(p) /\ UNCHANGED flow
  BY <1>9, <1>12 DEF Meanwhile, flow
<1> QED
  BY <1>2, <1>3, <1>6, <1>7, <1>8, <1>10, <1>11, <1>12 DEF FlowParticipant

\* Every step of p keeps what its solver reads the same on both sides of its mapping.
LEMMA FlowReads ==
  ASSUME IInv, IInv', Mappings, NEW p \in Participants, FlowParticipant(p), HasData(p),
         NEW L \in Ledgers, Agree(L), Sampled(L), NEW K \in Ledgers, Agree(K)', Sampled(K)',
         pc[p] = "receiveConvergence" => p = First,
         MapsReads(ToKeep(p), pc[p], scheme[p], received[p], mappedRead[p])
  PROVE  MapsReads(ToKeep(p), pc'[p], scheme'[p], received'[p], mappedRead'[p])
<1>1. /\ TypeOK /\ scheme[p] \in Schemes /\ received[p] \in SUBSET Samples
      /\ received'[p] \in SUBSET Samples /\ config' = config /\ First # Second
      /\ ToKeep(p) = (p = Second) /\ ToKeep(p) \in BOOLEAN
  BY ConfigTypes DEF IInv, TypeOK, FlowParticipant, ToKeep, DoesFirstStep, Participants
<1>2. pc'[p] # "constructed" /\ ~Late(p, pc'[p]) =>
        /\ Rooted(received'[p], OwnRoot(pc'[p], scheme'[p]))
        /\ p = Second /\ pc'[p] \in ExchangeSteps =>
             /\ Stamped(received'[p])
             /\ EndsIn(received'[p], RoundAt(pc'[p], scheme'[p]), Time!TimeOf(scheme'[p].time))
  BY <1>1, HeldRootNext
<1>3. ASSUME MapInitialReadData(p), pc[p] \in Early, pc'[p] \in InitializeSteps \cup {"solving"}
      PROVE  MapsReads(ToKeep(p), pc'[p], scheme'[p], received'[p], mappedRead'[p])
  <2>1. mappedRead[p] = {}
    BY <1>3 DEF MapsReads
  <2> QED
    BY <1>1, <1>3, <2>1, ReadsInitial
<1>4. CASE Initialize(p, InitialExchange(p)) /\ MapInitialWrittenData(p)
  <2>1. pc[p] \in Early /\ pc'[p] \in InitializeSteps \cup {"solving"}
    BY <1>1, <1>4 DEF Initialize, At, Goto, InitialExchange, Early, InitializeSteps, TypeOK
  <2> QED
    BY <1>3, <1>4, <2>1 DEF MapInitialWrittenData
<1>5. CASE /\ \/ InitSend(p) \/ InitReceive(p)
              \/ InitReceiveTimeWindowSize(p) \/ InitReceiveDataForWindowEnd(p)
           /\ DuringInitialize(p)
  <2>1. pc[p] \in Early
    BY <1>5 DEF InitSend, InitReceive, InitSendData, InitReceiveData, InitReceiveTimeWindowSize,
                InitReceiveDataForWindowEnd, At, Early, InitializeSteps
  <2>2. pc'[p] \in InitializeSteps \cup {"solving"}
    BY <1>1, <1>5 DEF InitSend, InitReceive, InitSendData, InitReceiveData,
       InitReceiveTimeWindowSize, InitReceiveDataForWindowEnd, Goto, InitializeSteps, TypeOK
  <2> QED
    BY <1>3, <1>5, <2>1, <2>2 DEF DuringInitialize
<1>6. CASE Advance(p, ExchangeFirstData(p)) /\ HandleDataBeforeAdvance(p)
  <2>1. /\ pc[p] = "solving" /\ received'[p] = received[p] /\ mappedRead'[p] = mappedRead[p]
        /\ pc'[p] \in {"solving", "sendTimeWindowSize", "sendConvergence", "sendData"}
    BY <1>1, <1>6 DEF Advance, At, Goto, ExchangeFirstData, HandleDataBeforeAdvance, TypeOK
  <2>2. mappedRead'[p] = received'[p]
    BY <2>1 DEF MapsReads
  <2>3. ~ToKeep(p) /\ ~Implicit => \A s \in received'[p] : s.t <= scheme'[p].time.start
    <3>1. ~ToKeep(p) /\ ~Implicit => \A s \in received[p] : s.t <= scheme[p].time.start
      BY <1>1, <2>1, HeldRoot DEF Participants
    <3>2. scheme'[p].time.start = scheme[p].time.start
      <4>1. PICK dt \in 1 .. StepBound :
              scheme' = [scheme EXCEPT ![p] = FirstExchange(AddComputedTime(scheme[p], dt))]
        BY <1>6 DEF Advance
      <4>2. scheme'[p] = FirstExchange(AddComputedTime(scheme[p], dt)) /\ dt \in Nat
        BY <1>1, <4>1, ConfigAssumption DEF TypeOK
      <4> QED
        BY <1>1, <4>2, AdvanceMembers
    <3> QED
      BY <2>1, <3>1, <3>2
  <2>4. pc'[p] \notin Early /\ ~Late(p, pc'[p]) /\ pc'[p] # "constructed"
    BY <2>1 DEF Early, InitializeSteps, Late
  <2>5. pc'[p] \in ExchangeSteps =>
          /\ Rooted(received'[p], OwnRoot(pc'[p], scheme'[p]))
          /\ ToKeep(p) =>
               /\ Stamped(received'[p])
               /\ EndsIn(received'[p], RoundAt(pc'[p], scheme'[p]), Time!TimeOf(scheme'[p].time))
    BY <1>1, <1>2, <2>4
  <2> QED
    BY <1>1, <2>2, <2>3, <2>4, <2>5 DEF MapsReads
<1>7. ASSUME NEW c \in Schemes, Alike(scheme[p], c), NEW w, NEW r, FinishAdvance(p, c, w, r),
             DuringAdvance(p, ToKeep(p)), pc[p] \in ExchangeSteps
      PROVE  MapsReads(ToKeep(p), pc'[p], scheme'[p], received'[p], mappedRead'[p])
  <2>1. /\ pc'[p] = "solving" /\ scheme'[p] = SecondExchange(c)
        /\ HandleDataAfterAdvance(p, ToKeep(p))
    BY <1>1, <1>7 DEF FinishAdvance, Goto, DuringAdvance, TypeOK
  <2>2. c.time.progress > 0 /\ RoundAt(pc[p], c) \in Nat
    <3>1. /\ RoundAt(pc[p], scheme[p]) \in Nat
          /\ InRound(p, pc[p], scheme[p], L[RoundAt(pc[p], scheme[p])])
      BY <1>1, AgreeAt
    <3>2. RoundAt(pc[p], scheme[p]) = RoundAt(pc[p], c)
      BY <1>7 DEF RoundAt, WindowAt, Alike
    <3> QED
      BY <1>7, <3>1, <3>2 DEF InRound, Alike
  <2>3. MapsReads(ToKeep(p), pc[p], c, received[p], mappedRead[p])
    BY <1>7, ReadsMeanwhile DEF Alike
  <2>4. Rooted(received'[p], OwnRoot("solving", SecondExchange(c)))
    <3>1. ~Late(p, pc'[p])
      BY <2>1 DEF Late
    <3> QED
      BY <1>2, <2>1, <3>1
  <2> QED
    BY <1>1, <1>7, <2>1, <2>2, <2>3, <2>4, ReadsFinish
<1>8. ASSUME mappedRead'[p] = mappedRead[p], Meanwhile(p), pc[p] \notin InitializeSteps
      PROVE  MapsReads(ToKeep(p), pc'[p], scheme'[p], received'[p], mappedRead'[p])
  <2>1. pc'[p] \in Early => pc[p] \in Early
    BY <1>1, <1>8, MeanwhileMembers DEF Early
  <2> QED
    BY <1>1, <1>8, <2>1, MeanwhileMembers, ReadsMeanwhile
<1>9. CASE SecondSendsData(p) /\ DuringAdvance(p, ToKeep(p))
  <2> DEFINE c == scheme[p]
             w == Moved(c, written[p])
             r == Moved(c, received[p])
  <2>1. pc[p] \in ExchangeSteps /\ c \in Schemes /\ Alike(scheme[p], c)
    BY <1>1, <1>9 DEF SecondSendsData, At, ExchangeSteps, Alike
  <2>2. CASE WantsData(c)
    <3>1. /\ pc'[p] \in {"receiveTimeWindowSize", "receiveData", "receiveDataForWindowEnd"}
          /\ scheme' = scheme
      BY <1>1, <1>9, <2>2 DEF SecondSendsData, Goto, TypeOK
    <3>2. UNCHANGED flow /\ pc'[p] # "solving"
      BY <1>9, <3>1 DEF DuringAdvance
    <3>3. pc'[p] \notin Early
      BY <3>1 DEF Early, InitializeSteps
    <3> QED
      BY <2>1, <3>1, <3>2, <3>3, ReadsMeanwhile DEF flow
  <2>3. CASE ~WantsData(c)
    <3>1. FinishAdvance(p, c, w, r)
      BY <1>9, <2>3 DEF SecondSendsData
    <3> HIDE DEF c, w, r
    <3> QED
      BY <1>7, <1>9, <2>1, <3>1
  <2> QED
    BY <2>2, <2>3
<1>10. CASE FirstReceivesData(p) /\ DuringAdvance(p, ToKeep(p))
  <2> DEFINE c == NotifyDataHasBeenReceived(scheme[p])
             w == Moved(c, written[p])
             r == Moved(c, ReceivedAt(p, Time!TimeOf(c.time)))
  <2>1. FinishAdvance(p, c, w, r) /\ pc[p] \in ExchangeSteps
    BY <1>10 DEF FirstReceivesData, At, ExchangeSteps
  <2>2. c \in Schemes /\ Alike(scheme[p], c)
    BY <1>1, NotifyMembers, AlikeMembers
  <2> HIDE DEF c, w, r
  <2> QED
    BY <1>7, <1>10, <2>1, <2>2
<1>11. CASE SecondReceivesData(p) /\ DuringAdvance(p, ToKeep(p))
  <2> DEFINE c == NotifyDataHasBeenReceived(scheme[p])
             time == IF pc[p] = "receiveData" THEN Time!TimeOf(c.time) ELSE WindowEndToCome(c)
             r == ReceivedAt(p, time)
  <2>1. FinishAdvance(p, c, written[p], r) /\ pc[p] \in ExchangeSteps
    BY <1>11 DEF SecondReceivesData, At, ExchangeSteps
  <2>2. c \in Schemes /\ Alike(scheme[p], c)
    BY <1>1, NotifyMembers, AlikeMembers
  <2> HIDE DEF c, r
  <2> QED
    BY <1>7, <1>11, <2>1, <2>2
<1>12. CASE /\ \/ SendTimeWindowSize(p) \/ FirstSendsData(p) \/ SendConvergence(p)
               \/ ReceiveConvergence(p) \/ ReceiveTimeWindowSize(p)
            /\ DuringAdvance(p, ToKeep(p))
  <2>1. pc'[p] # "solving"
    BY <1>1, <1>12 DEF SendTimeWindowSize, FirstSendsData, SendConvergence, ReceiveConvergence,
                       ReceiveTimeWindowSize, Goto, TypeOK
  <2>2. pc[p] \notin InitializeSteps
    BY <1>12 DEF SendTimeWindowSize, FirstSendsData, SendConvergence, ReceiveConvergence,
                 ReceiveTimeWindowSize, At, InitializeSteps
  <2>3. UNCHANGED flow
    BY <1>12, <2>1 DEF DuringAdvance
  <2> QED
    BY <1>8, <1>12, <2>2, <2>3 DEF Meanwhile, flow
<1>13. CASE ApiCall(p) /\ UNCHANGED flow
  <2>1. CASE pc[p] \notin InitializeSteps
    BY <1>8, <1>13, <2>1 DEF Meanwhile, flow
  <2>2. CASE pc[p] \in InitializeSteps
    BY <1>13, <2>2 DEF ApiCall, RequiresWritingCheckpoint, RequiresReadingCheckpoint, Finalize,
       At, ReceivePing, ReceivePong, LosePartner, InitializeSteps, ExchangeSteps
  <2> QED
    BY <2>1, <2>2
<1> QED
  BY <1>4, <1>5, <1>6, <1>9, <1>10, <1>11, <1>12, <1>13 DEF FlowParticipant

\* In every reachable state the mappings have what the participants write and, unless an
\* error ends the coupling, what they are to read.
MappingsHold ==
  /\ Mappings
  /\ \A p \in Participants :
       /\ Writes(p, pc[p], scheme[p], written[p], provided[p], mappedWrite[p])
       /\ HasData(p) /\ ~Broken /\ WindowsFit =>
            MapsReads(ToKeep(p), pc[p], scheme[p], received[p], mappedRead[p])

\* A step of p moves nothing of the other participant but its messages.
LEMMA StepsAlone ==
  ASSUME TypeOK, NEW p \in Participants, Participant(p)
  PROVE  Alone(p)
<1>1. CASE InitReceiveTimeWindowSize(p) \/ InitReceiveDataForWindowEnd(p)
  BY <1>1 DEF InitReceiveTimeWindowSize, InitReceiveDataForWindowEnd, Goto, TypeOK, Alone
<1>2. CASE SendTimeWindowSize(p) \/ ReceiveTimeWindowSize(p)
  BY <1>2 DEF SendTimeWindowSize, ReceiveTimeWindowSize, Goto, TypeOK, Alone
<1>3. CASE \/ Initialize(p, InitialExchange(p)) \/ Advance(p, ExchangeFirstData(p))
           \/ FirstSendsData(p) \/ SendConvergence(p) \/ ReceiveConvergence(p) \/ ApiCall(p)
  BY <1>3, CommonStepsAlone
<1>4. CASE InitSend(p) \/ InitReceive(p)
  BY <1>4, CommonStepsAlone DEF InitSend, InitReceive
<1>5. CASE SecondSendsData(p)
  <2>1. CASE \E c, w, r : FinishAdvance(p, c, w, r)
    BY <2>1, CommonStepsAlone
  <2>2. CASE ~\E c, w, r : FinishAdvance(p, c, w, r)
    BY <1>5, <2>2 DEF SecondSendsData, Goto, TypeOK, Alone
  <2> QED
    BY <2>1, <2>2
<1>6. CASE FirstReceivesData(p) \/ SecondReceivesData(p)
  <2>1. \E c, w, r : FinishAdvance(p, c, w, r)
    BY <1>6 DEF FirstReceivesData, SecondReceivesData
  <2> QED
    BY <2>1, CommonStepsAlone
<1> QED
  BY <1>1, <1>2, <1>3, <1>4, <1>5, <1>6 DEF Participant

\* The configuration is all that Writes reads of the state.
LEMMA WritesNext ==
  ASSUME config' = config, NEW p, NEW place, NEW c, NEW x, NEW y, NEW z
  PROVE  Writes(p, place, c, x, y, z)' <=> Writes(p, place, c, x, y, z)
<1>1. Moved(c, y)' = Moved(c, y)
  BY DEF Moved, Implicit
<1>2. MapsWrites(c, place, x, y, z)' <=> MapsWrites(c, place, x, y, z)
  BY MapsNext
<1> QED
  BY <1>1, <1>2 DEF Writes, Late, Time!TimeOf

\* Every step of a participant keeps its mappings, and those of the other.
LEMMA MappingsStep ==
  ASSUME DataAgreement, DataAgreement', MappingsHold, NEW p \in Participants, FlowParticipant(p)
  PROVE  MappingsHold'
<1>1. /\ IInv /\ IInv' /\ TypeOK /\ config' = config /\ Participant(p)
      /\ UNCHANGED <<Sends, Implicit>> /\ (WindowsFit' <=> WindowsFit)
  BY WindowsFitNext
     DEF DataAgreement, IInv, FlowParticipant, Participant, Sends, Implicit
<1>2. /\ Mappings'
      /\ \A q \in Participants \ {p} :
           /\ provided'[q] = provided[q] /\ mappedWrite'[q] = mappedWrite[q]
           /\ mappedRead'[q] = mappedRead[q]
  <2>1. Mappings /\ ToKeep(p) \in BOOLEAN
    BY DEF MappingsHold, ToKeep
  <2> QED
    BY <2>1, MappingsOfOne DEF FlowParticipant
<1>3. Alone(p)
  BY <1>1, StepsAlone
<1>4. /\ Mappings /\ Writes(p, pc[p], scheme[p], written[p], provided[p], mappedWrite[p])
      /\ Writes(p, pc'[p], scheme'[p], written'[p], provided'[p], mappedWrite'[p])
  BY <1>1, FlowWrites DEF MappingsHold
<1>5. ASSUME HasData(p), ~Broken', WindowsFit
      PROVE  MapsReads(ToKeep(p), pc'[p], scheme'[p], received'[p], mappedRead'[p])
  <2>1. ~Broken
    BY <1>1, <1>5, BrokenStep
  <2>2. PICK L \in Ledgers : Agree(L) /\ Sampled(L)
    BY <1>5, <2>1 DEF DataAgreement
  <2>3. PICK K \in Ledgers : Agree(K)' /\ Sampled(K)'
    BY <1>1, <1>5 DEF DataAgreement, Ledgers, Entries
  <2>4. pc[p] = "receiveConvergence" => p = First
    BY <1>4 DEF Writes
  <2> QED
    BY <1>1, <1>4, <1>5, <2>1, <2>2, <2>3, <2>4, FlowReads DEF MappingsHold
<1>6. ~Broken' => ~Broken
  BY <1>1, BrokenStep
<1>7. ASSUME NEW q \in Participants
      PROVE  /\ Writes(q, pc'[q], scheme'[q], written'[q], provided'[q], mappedWrite'[q])
             /\ HasData(q) /\ ~Broken' /\ WindowsFit =>
                  MapsReads(ToKeep(q), pc'[q], scheme'[q], received'[q], mappedRead'[q])
  <2>1. CASE q = p
    BY <1>4, <1>5, <2>1
  <2>2. CASE q # p
    BY <1>2, <1>3, <1>6, <2>2 DEF MappingsHold, Alone
  <2> QED
    BY <2>1, <2>2
<1> SUFFICES ASSUME NEW q \in Participants
             PROVE  /\ Writes(q, pc[q], scheme[q], written[q], provided[q], mappedWrite[q])'
                    /\ (HasData(q) /\ ~Broken /\ WindowsFit)' =>
                         MapsReads(ToKeep(q), pc[q], scheme[q], received[q], mappedRead[q])'
  BY <1>2 DEF MappingsHold, Participants
<1>8. HasData(q)' <=> HasData(q)
  BY <1>1 DEF HasData
<1>9. Writes(q, pc[q], scheme[q], written[q], provided[q], mappedWrite[q])'
  BY <1>1, <1>7, WritesNext
<1>10. (HasData(q) /\ ~Broken /\ WindowsFit)' =>
          MapsReads(ToKeep(q), pc[q], scheme[q], received[q], mappedRead[q])'
  BY <1>1, <1>7, <1>8, MapsNext DEF ToKeep, DoesFirstStep
<1> QED
  BY <1>9, <1>10

\* The samples of a coupling with mapped data are mapped when they are sent and read.
LEMMA HeldMappingsAreCurrent ==
  ASSUME DataAgreement, MappingsHold, WindowsFit
  PROVE  MappingsAreCurrent
<1> SUFFICES ASSUME NEW p \in Participants
             PROVE  /\ pc[p] \in {"sendData", "initSendData"} => mappedWrite[p] = written[p]
                    /\ pc[p] = "solving" /\ HasData(p) => mappedRead[p] = received[p]
  BY DEF MappingsAreCurrent, HasData
<1>1. pc[p] \in {"sendData", "initSendData"} => mappedWrite[p] = written[p]
  BY DEF MappingsHold, Writes, Late, MapsWrites, ExchangeSteps, InitializeSteps
<1>2. pc[p] = "solving" => ~Broken
  BY DEF Broken, Participants
<1>3. pc[p] = "solving" /\ HasData(p) => mappedRead[p] = received[p]
  BY <1>2 DEF MappingsHold, MapsReads
<1> QED
  BY <1>1, <1>3

\* Before initialize() nothing is mapped.
LEMMA InitMappings ==
  ASSUME FlowInit
  PROVE  MappingsHold
<1>1. /\ provided = [p \in Participants |-> {}] /\ mappedWrite = [p \in Participants |-> {}]
      /\ mappedRead = [p \in Participants |-> {}] /\ written = [p \in Participants |-> {}]
      /\ pc = [p \in Participants |-> "constructed"]
  BY DEF FlowInit, Init, NothingMapped
<1>2. Mappings
  BY <1>1 DEF Mappings
<1>3. "constructed" \notin InitializeSteps \cup ExchangeSteps
  BY DEF InitializeSteps, ExchangeSteps
<1>4. ASSUME NEW p \in Participants
      PROVE  /\ Writes(p, pc[p], scheme[p], written[p], provided[p], mappedWrite[p])
             /\ MapsReads(ToKeep(p), pc[p], scheme[p], received[p], mappedRead[p])
  <2>1. ~Late(p, "constructed")
    BY DEF Late
  <2>2. MapsWrites(scheme[p], pc[p], written[p], provided[p], mappedWrite[p])
    BY <1>1, <1>3 DEF MapsWrites
  <2>3. MapsReads(ToKeep(p), pc[p], scheme[p], received[p], mappedRead[p])
    BY <1>1, <1>3 DEF MapsReads
  <2> QED
    BY <1>1, <2>1, <2>2, <2>3 DEF Writes
<1> QED
  BY <1>2, <1>4 DEF MappingsHold

\* What changes nothing keeps the mappings.
LEMMA StutterMappings ==
  ASSUME MappingsHold, UNCHANGED <<vars, flow>>
  PROVE  MappingsHold'
<1>1. /\ UNCHANGED <<config, pc, scheme, channel, written, received>>
      /\ UNCHANGED <<provided, mappedWrite, mappedRead, Sends, Implicit>>
  BY DEF vars, flow, Sends, Implicit
<1>2. Mappings' /\ (Broken' <=> Broken) /\ (WindowsFit' <=> WindowsFit)
  BY <1>1, WindowsFitNext DEF MappingsHold, Mappings, Broken
<1> SUFFICES ASSUME NEW q \in Participants
             PROVE  /\ Writes(q, pc[q], scheme[q], written[q], provided[q], mappedWrite[q])'
                    /\ (HasData(q) /\ ~Broken /\ WindowsFit)' =>
                         MapsReads(ToKeep(q), pc[q], scheme[q], received[q], mappedRead[q])'
  BY <1>2 DEF MappingsHold, Participants
<1>3. HasData(q)' <=> HasData(q)
  BY <1>1 DEF HasData
<1>4. /\ Writes(q, pc'[q], scheme'[q], written'[q], provided'[q], mappedWrite'[q])
      /\ HasData(q) /\ ~Broken /\ WindowsFit =>
           MapsReads(ToKeep(q), pc'[q], scheme'[q], received'[q], mappedRead'[q])
  BY <1>1 DEF MappingsHold
<1>5. Writes(q, pc[q], scheme[q], written[q], provided[q], mappedWrite[q])'
  BY <1>1, <1>4, WritesNext
<1>6. (HasData(q) /\ ~Broken /\ WindowsFit)' =>
         MapsReads(ToKeep(q), pc[q], scheme[q], received[q], mappedRead[q])'
  BY <1>1, <1>2, <1>3, <1>4, MapsNext DEF ToKeep, DoesFirstStep
<1> QED
  BY <1>5, <1>6

\* Mappings are transparent to the coupling, whatever is configured, if First sends
\* substeps, sets the size of the window, or max-time truncates no window: a participant
\* sends what it would send without a mapping, and its solver reads what it would read.
THEOREM SerialMappingsAreCurrent == FlowSpec => [](WindowsFit => MappingsAreCurrent)
<1>1. FlowInit => MappingsHold
  BY InitMappings
<1>2. DataAgreement /\ DataAgreement' /\ MappingsHold /\ [FlowNext]_<<vars, flow>> => MappingsHold'
  BY MappingsStep, StutterMappings DEF FlowNext
<1>3. DataAgreement /\ MappingsHold => (WindowsFit => MappingsAreCurrent)
  BY HeldMappingsAreCurrent
<1> QED
  BY <1>1, <1>2, <1>3, SerialFlowSteps, SerialDataAgreement, PTL DEF FlowSpec
================================================================================
