------------------------- MODULE ParallelCouplingProofs -------------------------
(***************************************************************************)
(* Theorems of ParallelCoupling, for any set of configurations, any time   *)
(* window sizes, limits and measures.  The invariant and the steps that it *)
(* shares with the serial scheme are those of CouplingSchemeProofs.        *)
(***************************************************************************)
EXTENDS ParallelDataFlow, SampleProofs

--------------------------------------------------------------------------------
(* exchangeInitialData() *)

\* The places a parallel scheme goes to inside initialize() ask for no size.
LEMMA InitialPlaces ==
  ASSUME IInv, NEW p \in Participants,
         NEW place \in {"solving", "initSendData", "initReceiveData"}
  PROVE  place \in EarlyPlaces /\ SizeIsKnown(place, scheme[p])
<1>1. SizeIsKnown(pc[p], scheme[p])
  BY DEF IInv, Consistent
<1> QED
  BY <1>1 DEF SizeIsKnown, EarlyPlaces, InitializeSteps, ExchangeSteps

\* initialize() goes on to the first exchange that is configured.
LEMMA ParallelInitializeStep ==
  ASSUME IInv, config' = config, NEW p \in Participants,
         Initialize(p, InitialExchange(p))
  PROVE  IInv'
<1>1. InitialExchange(p) \in {"solving", "initSendData", "initReceiveData"}
  BY DEF InitialExchange
<1>2. InitialExchange(p) \in EarlyPlaces /\ SizeIsKnown(InitialExchange(p), scheme[p])
  BY <1>1, InitialPlaces
<1> QED
  BY <1>2, InitializeStep

\* Sending initial data keeps the invariant.
LEMMA InitSendStep ==
  ASSUME IInv, config' = config, NEW p \in Participants, InitSend(p)
  PROVE  IInv'
<1> DEFINE place == IF p = First /\ Second \in Initializes
                    THEN "initReceiveData" ELSE "solving"
<1>1. InitSendData(p, place)
  BY DEF InitSend
<1>2. place \in EarlyPlaces /\ SizeIsKnown(place, scheme[p])
  BY InitialPlaces
<1> HIDE DEF place
<1> QED
  BY <1>1, <1>2, InitSendDataStep

\* Receiving initial data keeps the invariant.
LEMMA InitReceiveStep ==
  ASSUME IInv, config' = config, NEW p \in Participants, InitReceive(p)
  PROVE  IInv'
<1> DEFINE place == IF p = Second /\ Second \in Initializes
                    THEN "initSendData" ELSE "solving"
<1>1. InitReceiveData(p, NotifyDataHasBeenReceived(scheme[p]), place)
  BY DEF InitReceive
<1>2. place \in EarlyPlaces /\ SizeIsKnown(place, scheme[p])
  BY InitialPlaces
<1> HIDE DEF place
<1> QED
  BY <1>1, <1>2, InitReceiveDataStep

--------------------------------------------------------------------------------
(* exchangeFirstData() and exchangeSecondData() *)

\* Second receives First's data in the middle of its exchange.
LEMMA ParallelSecondReceivesDataStep ==
  ASSUME IInv, config' = config, NEW p \in Participants, SecondReceivesData(p)
  PROVE  IInv'
<1> DEFINE c == NotifyDataHasBeenReceived(scheme[p])
<1>1. TypeOK /\ scheme[p] \in Schemes /\ pc[p] \in ExchangeSteps
  BY Types DEF IInv, SecondReceivesData, At, ExchangeSteps
<1>2. PICK place \in {"sendConvergence", "sendData"} : pc' = [pc EXCEPT ![p] = place]
  BY DEF SecondReceivesData, Goto
<1>3. /\ c \in Schemes /\ c.time = scheme[p].time /\ c.timeWindows = scheme[p].timeWindows
      /\ c.nextTimeWindowSize = scheme[p].nextTimeWindowSize
      /\ c.requiredActions = scheme[p].requiredActions
      /\ c.fulfilledActions = scheme[p].fulfilledActions
  BY <1>1, NotifyMembers
<1>4. scheme' = [scheme EXCEPT ![p] = c]
  BY <1>1 DEF SecondReceivesData, TypeOK
<1> HIDE DEF c
<1>5. place \in ExchangeSteps /\ SizeIsKnown(place, c)
  BY <1>1, <1>3, InsideExchange DEF SizeIsKnown, ExchangeSteps
<1>6. Time!TimeOf(scheme[p].time) \in Nat
  BY <1>1, TimeOfType DEF Schemes
<1>7. /\ channel' \in [Participants -> Seq(Messages)]
      /\ received' \in [Participants -> SUBSET Samples]
      /\ written' \in [Participants -> SUBSET Samples]
  BY <1>1, <1>6, ReceiveDataTypes DEF SecondReceivesData, TypeOK
<1> QED
  BY <1>1, <1>2, <1>3, <1>4, <1>5, <1>7, ExchangeStep DEF SecondReceivesData

\* Second sends its data and its advance ends.
LEMMA ParallelSecondSendsDataStep ==
  ASSUME IInv, config' = config, NEW p \in Participants, SecondSendsData(p)
  PROVE  IInv'
<1> DEFINE c == scheme[p]
           w == Moved(c, written[p])
           r == Moved(c, received[p])
<1>1. TypeOK /\ c \in Schemes /\ pc[p] \in ExchangeSteps
  BY Types DEF IInv, SecondSendsData, At, ExchangeSteps
<1>2. w \in SUBSET Samples /\ r \in SUBSET Samples
  BY <1>1, Types, MovedType
<1>3. channel' \in [Participants -> Seq(Messages)]
  BY <1>1, SendStoredType DEF SecondSendsData
<1>4. FinishAdvance(p, c, w, r)
  BY DEF SecondSendsData
<1> HIDE DEF w, r
<1> QED
  BY <1>1, <1>2, <1>3, <1>4, FinishAdvanceStep

--------------------------------------------------------------------------------
(* Conclusions *)

\* Every operation of a participant of a parallel scheme keeps the invariant.
LEMMA ParticipantStep ==
  ASSUME IInv, NEW p \in Participants, Participant(p)
  PROVE  IInv'
<1>1. config' = config
  BY DEF Participant
<1>2. CASE Initialize(p, InitialExchange(p))
  BY <1>1, <1>2, ParallelInitializeStep
<1>3. CASE InitSend(p) \/ InitReceive(p)
  BY <1>1, <1>3, InitSendStep, InitReceiveStep
<1>4. CASE Advance(p, ExchangeFirstData(p))
  <2>1. /\ ExchangeFirstData(p) \in FirstPlaces
        /\ ExchangeFirstData(p) # "sendTimeWindowSize"
    BY DEF ExchangeFirstData, FirstPlaces
  <2> QED
    BY <1>1, <1>4, <2>1, AdvanceStep
<1>5. CASE FirstSendsData(p) \/ SecondReceivesData(p)
  BY <1>1, <1>5, FirstSendsDataStep, ParallelSecondReceivesDataStep
<1>6. CASE SendConvergence(p) \/ SecondSendsData(p)
  BY <1>1, <1>6, SendConvergenceStep, ParallelSecondSendsDataStep
<1>7. CASE ReceiveConvergence(p) \/ FirstReceivesData(p)
  BY <1>1, <1>7, ReceiveConvergenceStep, FirstReceivesDataStep
<1>8. CASE ApiCall(p)
  BY <1>1, <1>8, ApiCallStep
<1> QED
  BY <1>2, <1>3, <1>4, <1>5, <1>6, <1>7, <1>8 DEF Participant

\* The invariant from the initial states and the steps alone, without fairness.
LEMMA ParallelInductive == Init /\ [][Next]_vars => []IInv
<1>1. Init => IInv
  BY InitConsistent
<1>2. IInv /\ [Next]_vars => IInv'
  <2> SUFFICES ASSUME IInv, [Next]_vars PROVE IInv'
    OBVIOUS
  <2>1. CASE Next
    BY <2>1, ParticipantStep DEF Next
  <2>2. CASE UNCHANGED vars
    BY <2>2, StutterStep
  <2> QED
    BY <2>1, <2>2
<1> QED
  BY <1>1, <1>2, PTL

\* The inductive invariant: after every call and exchange the scheme knows the
\* sizes it needs and its solver and checkpoint are where the actions say.
THEOREM ParallelInvariance == Spec => []IInv
  BY ParallelInductive, PTL DEF Spec

\* The members of a parallel scheme, the samples and the messages keep their
\* types, for windows of any configured size.
THEOREM ParallelTypeCorrect == Spec => []TypeOK
<1>1. IInv => TypeOK
  BY DEF IInv
<1> QED
  BY <1>1, ParallelInvariance, PTL

\* Parallel coupling, with every time window size, truncation, number of
\* iterations and verdict: between two API calls the solver is at getTime(), and
\* the checkpoint it keeps is the start of the window it may have to repeat.
THEOREM ParallelSolverFollowsScheme == Spec => []SolverFollowsScheme
<1>1. IInv => SolverFollowsScheme
  BY ConsistentFollows
<1> QED
  BY <1>1, ParallelInvariance, PTL

\* What the mappings do (initialize, handleDataBeforeAdvance, handleDataAfterAdvance)
\* is done in steps of the coupling scheme.
LEMMA ParallelFlowSteps == FlowSpec => Init /\ [][Next]_vars
<1>1. FlowInit => Init
  BY DEF FlowInit
<1>2. [FlowNext]_<<vars, flow>> => [Next]_vars
  <2> SUFFICES ASSUME [FlowNext]_<<vars, flow>> PROVE [Next]_vars
    OBVIOUS
  <2>1. CASE FlowNext
    <3>1. PICK p \in Participants : FlowParticipant(p)
      BY <2>1 DEF FlowNext
    <3>2. Participant(p)
      BY <3>1 DEF FlowParticipant, Participant
    <3> QED
      BY <3>2 DEF Next
  <2>2. CASE UNCHANGED <<vars, flow>>
    BY <2>2
  <2> QED
    BY <2>1, <2>2
<1> QED
  BY <1>1, <1>2, PTL DEF FlowSpec

\* With mapped data too the types are kept, and the solver is where the scheme
\* is and its checkpoint at the start of the window.
THEOREM ParallelFlowFollowsScheme == FlowSpec => [](TypeOK /\ SolverFollowsScheme)
<1>1. IInv => TypeOK /\ SolverFollowsScheme
  BY ConsistentFollows DEF IInv
<1> QED
  BY <1>1, ParallelFlowSteps, ParallelInductive, PTL

--------------------------------------------------------------------------------
(* The rounds of the two participants *)

ParallelPlaces(p) ==
  {"constructed", "solving", "sendData", "receiveData"} \cup Leaving
  \cup (IF p \in Initializes THEN {"initSendData"} ELSE {})
  \cup (IF Other(p) \in Initializes THEN {"initReceiveData"} ELSE {})
  \cup (IF ~Implicit THEN {} ELSE IF p = First THEN {"receiveConvergence"}
        ELSE {"sendConvergence"})

\* Where p knows the verdict on its round, until secondExchange() uses it
Told(p) == IF p = First THEN "receiveData" ELSE "sendData"

\* How much of the stream of messages p has sent, and how much it has read
SentAt(p, place, c) ==
  LET r == RoundAt(place, c)
      q == Other(p)
  IN  IF place = "constructed" \/ (p = Second /\ place = "initReceiveData") THEN Beginning(q)
      ELSE IF place = "initSendData" THEN Data(q, 0)
      ELSE IF place = "sendData" THEN Data(q, r)
      ELSE IF p = First /\ place \in {"receiveConvergence", "receiveData"} THEN Header(q, r + 1)
      ELSE Header(q, r)

ReadAt(p, place, c) ==
  LET r == RoundAt(place, c)
  IN  IF place = "constructed" \/ (p = First /\ place = "initSendData") THEN Beginning(p)
      ELSE IF place = "initReceiveData" THEN Data(p, 0)
      ELSE IF place = "receiveData" THEN Data(p, r)
      ELSE IF p = Second /\ place \in {"sendConvergence", "sendData"} THEN Header(p, r + 1)
      ELSE Header(p, r)

\* p with its scheme c at a place goes by the ledger.
Joins(L, p, place, c) ==
  /\ place \in ParallelPlaces(p)
  /\ Tracks(L, p, place, c)
  /\ Implicit /\ place = Told(p) =>
       LET e == L[RoundAt(place, c)] IN Judged(e) /\ c.hasConverged = e.converged

\* The messages on their way to q, with the other side at there
Delivers(L, q, place, c, there, d, messages) ==
  Carries(L, q, messages, ReadAt(q, place, c), SentAt(Other(q), there, d),
          Bye(q, place, there))

Agree(L) ==
  \A p \in Participants :
    /\ Joins(L, p, pc[p], scheme[p])
    /\ LeavesInOrder(p, pc[p], pc[Other(p)])
    /\ Delivers(L, p, pc[p], scheme[p], pc[Other(p)], scheme[Other(p)], channel[p])

\* K has the ends and roots of the rounds that a participant has come to from L.
Keeps(L, K) ==
  \A p \in Participants : \A k \in Nat :
    k <= RoundAt(pc[p], scheme[p]) => Stamp(K, k) = Stamp(L, k) /\ Root(K, k) = Root(L, k)

Agreement == IInv /\ (Broken \/ \E L \in Ledgers : Agree(L))

\* The configuration is all that these definitions read of the state.
LEMMA JoinsNext ==
  ASSUME config' = config, NEW L, NEW p, NEW place, NEW c, NEW there, NEW d, NEW s
  PROVE  /\ Joins(L, p, place, c)' <=> Joins(L, p, place, c)
         /\ Delivers(L, p, place, c, there, d, s)' <=> Delivers(L, p, place, c, there, d, s)
         /\ LeavesInOrder(p, place, there)' <=> LeavesInOrder(p, place, there)
<1>1. UNCHANGED <<Initializes, Implicit>>
  BY DEF Initializes, Implicit
<1>2. RoundAt(place, c)' = RoundAt(place, c)
  BY KeptNext
<1>3. Tracks(L, p, place, c)' <=> Tracks(L, p, place, c)
  BY <1>2, KeptNext DEF Tracks
<1>4. \A e : Judged(e)' <=> Judged(e)
  BY KeptNext
<1>5. Joins(L, p, place, c)' <=> Joins(L, p, place, c)
  BY <1>1, <1>2, <1>3, <1>4 DEF Joins, ParallelPlaces, Told, Leaving
<1>6. ASSUME NEW x, NEW y, NEW a
      PROVE  SentAt(x, y, a)' = SentAt(x, y, a) /\ ReadAt(x, y, a)' = ReadAt(x, y, a)
  <2>1. RoundAt(y, a)' = RoundAt(y, a)
    BY KeptNext
  <2> QED
    BY <2>1, CarriesNext DEF SentAt, ReadAt
<1>7. Delivers(L, p, place, c, there, d, s)' <=> Delivers(L, p, place, c, there, d, s)
  BY <1>6, CarriesNext DEF Delivers
<1> QED
  BY <1>5, <1>7, CarriesNext

\* A step of p after which both participants go by a ledger
LEMMA StepAgrees ==
  ASSUME TypeOK, config' = config, NEW p \in Participants, NEW place, NEW c,
         pc' = [pc EXCEPT ![p] = place], scheme' = [scheme EXCEPT ![p] = c],
         NEW M \in Ledgers, Joins(M, p, place, c),
         Joins(M, Other(p), pc[Other(p)], scheme[Other(p)]),
         LeavesInOrder(p, place, pc[Other(p)]), LeavesInOrder(Other(p), pc[Other(p)], place),
         Delivers(M, p, place, c, pc[Other(p)], scheme[Other(p)], channel'[p]),
         Delivers(M, Other(p), pc[Other(p)], scheme[Other(p)], place, c, channel'[Other(p)])
  PROVE  Agree(M)'
<1>1. Other(p) \in Participants /\ Other(p) # p /\ Other(Other(p)) = p
      /\ \A q \in Participants : q = p \/ q = Other(p)
  BY Others DEF TypeOK
<1>2. /\ pc'[p] = place /\ scheme'[p] = c
      /\ pc'[Other(p)] = pc[Other(p)] /\ scheme'[Other(p)] = scheme[Other(p)]
  BY <1>1 DEF TypeOK
<1>3. ASSUME NEW q \in Participants
      PROVE  /\ Joins(M, q, pc'[q], scheme'[q])
             /\ LeavesInOrder(q, pc'[q], pc'[Other(q)])
             /\ Delivers(M, q, pc'[q], scheme'[q], pc'[Other(q)], scheme'[Other(q)], channel'[q])
  BY <1>1, <1>2
<1> SUFFICES ASSUME NEW q \in Participants
             PROVE  /\ Joins(M, q, pc[q], scheme[q])'
                    /\ LeavesInOrder(q, pc[q], pc[Other(q)])'
                    /\ Delivers(M, q, pc[q], scheme[q], pc[Other(q)], scheme[Other(q)],
                                channel[q])'
  BY DEF Agree, Participants
<1> QED
  BY <1>3, JoinsNext

\* What a participant knows, from the agreement
LEMMA AgreeAt ==
  ASSUME TypeOK, NEW L \in Ledgers, Agree(L), NEW p \in Participants
  PROVE  /\ scheme[p] \in Schemes /\ channel[p] \in Seq(Messages) /\ Other(p) \in Participants
         /\ Joins(L, p, pc[p], scheme[p]) /\ Tracks(L, p, pc[p], scheme[p])
         /\ RoundAt(pc[p], scheme[p]) \in Nat \ {0} /\ L[RoundAt(pc[p], scheme[p])] \in Entries
         /\ Proper(L[RoundAt(pc[p], scheme[p])])
         /\ InRound(p, pc[p], scheme[p], L[RoundAt(pc[p], scheme[p])])
         /\ LeavesInOrder(p, pc[p], pc[Other(p)])
         /\ Delivers(L, p, pc[p], scheme[p], pc[Other(p)], scheme[Other(p)], channel[p])
<1>1. /\ Joins(L, p, pc[p], scheme[p])
      /\ LeavesInOrder(p, pc[p], pc[Other(p)])
      /\ Delivers(L, p, pc[p], scheme[p], pc[Other(p)], scheme[Other(p)], channel[p])
  BY DEF Agree
<1>2. Tracks(L, p, pc[p], scheme[p])
  BY <1>1 DEF Joins
<1> QED
  BY <1>1, <1>2, Types DEF Tracks, Kept, Ledgers

\* A step of p in which it neither changes the ledger nor leaves
LEMMA MidStep ==
  ASSUME TypeOK, config' = config, NEW L \in Ledgers, Agree(L), NEW p \in Participants,
         NEW place, NEW c, pc[p] \notin Leaving, place \notin Leaving,
         pc' = [pc EXCEPT ![p] = place], scheme' = [scheme EXCEPT ![p] = c],
         NEW M \in Ledgers, Joins(M, p, place, c),
         Joins(M, Other(p), pc[Other(p)], scheme[Other(p)]),
         NEW n, n = SentAt(Other(p), pc[Other(p)], scheme[Other(p)]),
         Carries(M, p, channel'[p], ReadAt(p, place, c), n, Bye(p, pc[p], pc[Other(p)])),
         NEW m, m = ReadAt(Other(p), pc[Other(p)], scheme[Other(p)]),
         Carries(M, Other(p), channel'[Other(p)], m, SentAt(p, place, c), "nothing")
  PROVE  Agree(M)'
<1>1. Other(p) \in Participants /\ Other(Other(p)) = p
  BY Others DEF TypeOK
<1>2. LeavesInOrder(p, pc[p], pc[Other(p)]) /\ LeavesInOrder(Other(p), pc[Other(p)], pc[p])
  BY <1>1, AgreeAt
<1>3. /\ LeavesInOrder(p, place, pc[Other(p)]) /\ LeavesInOrder(Other(p), pc[Other(p)], place)
      /\ Bye(p, place, pc[Other(p)]) = Bye(p, pc[p], pc[Other(p)])
      /\ Bye(Other(p), pc[Other(p)], place) = "nothing"
  BY <1>2, StaysOn DEF TypeOK
<1>4. /\ Delivers(M, p, place, c, pc[Other(p)], scheme[Other(p)], channel'[p])
      /\ Delivers(M, Other(p), pc[Other(p)], scheme[Other(p)], place, c, channel'[Other(p)])
  BY <1>1, <1>3 DEF Delivers
<1> QED
  BY <1>3, <1>4, StepAgrees

\* The messages to p and to the other, while p has not left
LEMMA Streams ==
  ASSUME TypeOK, NEW L \in Ledgers, Agree(L), NEW p \in Participants, pc[p] \notin Leaving
  PROVE  /\ Carries(L, p, channel[p], ReadAt(p, pc[p], scheme[p]),
                    SentAt(Other(p), pc[Other(p)], scheme[Other(p)]),
                    Bye(p, pc[p], pc[Other(p)]))
         /\ Carries(L, Other(p), channel[Other(p)],
                    ReadAt(Other(p), pc[Other(p)], scheme[Other(p)]),
                    SentAt(p, pc[p], scheme[p]), "nothing")
<1>1. Other(p) \in Participants /\ Other(Other(p)) = p
  BY Others DEF TypeOK
<1>2. LeavesInOrder(p, pc[p], pc[Other(p)]) /\ LeavesInOrder(Other(p), pc[Other(p)], pc[p])
  BY <1>1, AgreeAt
<1>3. Bye(Other(p), pc[Other(p)], pc[p]) = "nothing"
  BY <1>2, StaysOn DEF TypeOK
<1>4. /\ Delivers(L, p, pc[p], scheme[p], pc[Other(p)], scheme[Other(p)], channel[p])
      /\ Delivers(L, Other(p), pc[Other(p)], scheme[Other(p)], pc[p], scheme[p],
                  channel[Other(p)])
  BY <1>1, AgreeAt
<1> QED
  BY <1>1, <1>3, <1>4 DEF Delivers

\* The size of a window is configured; no header comes to Second.
LEMMA ParallelSizes ==
  ASSUME config \in Configurations
  PROVE  /\ TimeWindowSize # Undefined /\ (\A p : ~SetsSize(p))
         /\ ~HasHeader(Second) /\ (HasHeader(First) <=> Implicit)
BY ParallelAssumption, ConfigTypes DEF TimeWindowSize, SetsSize, HasHeader

\* How far a participant is in the streams, by the round it is in
LEMMA Bounds ==
  ASSUME config \in Configurations, NEW L, NEW p \in Participants, NEW place, NEW c,
         Joins(L, p, place, c), NEW r, r = RoundAt(place, c), NEW q, q = Other(p)
  PROVE  /\ SentAt(p, place, c) \in Nat /\ ReadAt(p, place, c) \in Nat
         /\ SentAt(p, place, c) <= Header(q, r + 1)
         /\ place \notin ExchangeSteps => SentAt(p, place, c) <= Header(q, r)
         /\ place \notin Early => ReadAt(p, place, c) >= Header(p, r)
         /\ place \in Leaving => SentAt(p, place, c) = Header(q, r) /\ ReadAt(p, place, c) = Header(p, r)
<1>1. r \in Nat /\ r >= 1 /\ 1 \in Nat /\ r + 1 \in Nat /\ 0 \in Nat /\ r + 1 >= 1 /\ 0 + 1 = 1
  BY DEF Joins, Tracks
<1>2. place \in Early => r = 1
  BY DEF Joins, Tracks, InRound
<1>3. \A x : /\ Header(x, r) \in Nat /\ Data(x, r) \in Nat /\ Header(x, r + 1) \in Nat
             /\ Data(x, 0) \in Nat /\ Header(x, 1) \in Nat
             /\ Header(x, r) <= Data(x, r) /\ Data(x, r) <= Header(x, r + 1)
             /\ Data(x, 0) <= Header(x, 1)
  <2> TAKE x
  <2>1. /\ Header(x, r) \in Nat /\ Data(x, r) \in Nat /\ Header(x, r + 1) \in Nat
        /\ Data(x, 0) \in Nat /\ Header(x, 1) \in Nat
    BY <1>1, Positions
  <2>2. /\ Header(x, r + 1) = Data(x, r) + (IF HasData(x) THEN 1 ELSE 0)
        /\ Data(x, r) = Header(x, r) + (IF HasHeader(x) THEN 1 ELSE 0)
        /\ Header(x, 0 + 1) = Data(x, 0) + (IF HasData(x) THEN 1 ELSE 0)
    BY <1>1, Positions
  <2> QED
    BY <1>1, <2>1, <2>2
<1>4. \A x : Beginning(x) \in Nat /\ Beginning(x) <= Header(x, 1)
  BY <1>3 DEF Beginning
<1>5. "sendData" \in ExchangeSteps /\ "receiveData" \in ExchangeSteps
      /\ "sendConvergence" \in ExchangeSteps /\ "receiveConvergence" \in ExchangeSteps
      /\ "constructed" \in Early /\ "initSendData" \in Early /\ "initReceiveData" \in Early
  BY DEF ExchangeSteps, Early, InitializeSteps
<1>6. Early \cap Leaving = {} /\ ExchangeSteps \cap Leaving = {}
  BY DEF ExchangeSteps, Early, InitializeSteps, Leaving
<1>7. /\ SentAt(p, place, c) \in Nat
      /\ SentAt(p, place, c) <= Header(q, r + 1)
      /\ place \notin ExchangeSteps => SentAt(p, place, c) <= Header(q, r)
  BY <1>1, <1>2, <1>3, <1>4, <1>5 DEF SentAt
<1>8. ReadAt(p, place, c) \in Nat /\ (place \notin Early => ReadAt(p, place, c) >= Header(p, r))
  BY <1>1, <1>2, <1>3, <1>4, <1>5 DEF ReadAt
<1>9. place \in Leaving => SentAt(p, place, c) = Header(q, r) /\ ReadAt(p, place, c) = Header(p, r)
  BY <1>5, <1>6 DEF SentAt, ReadAt
<1> QED
  BY <1>7, <1>8, <1>9

--------------------------------------------------------------------------------
(* initialize() goes by the ledger *)

\* Where initialize() goes, it is in the first round.
LEMMA EarlyJoins ==
  ASSUME config \in Configurations, NEW L \in Ledgers, NEW p \in Participants,
         NEW place \in Early, NEW c \in Schemes, Joins(L, p, place, c),
         NEW d \in Schemes, Alike(c, d),
         NEW to \in ParallelPlaces(p) \cap (Early \cup {"solving"})
  PROVE  Joins(L, p, to, d) /\ RoundAt(to, d) = 1 /\ RoundAt(place, c) = 1
<1> DEFINE e == L[RoundAt(place, c)]
<1>1. /\ RoundAt(place, c) = 1 /\ Kept(L, 1) /\ InRound(p, place, c, e) /\ e \in Entries
      /\ e = L[1]
  BY DEF Joins, Tracks, InRound, Ledgers
<1>2. Proper(e) /\ Open(e)
  BY <1>1, FirstIsOpen DEF Kept
<1> HIDE DEF e
<1>3. InRound(p, to, d, e) /\ RoundAt(to, d) = RoundAt(place, c)
  <2>1. CASE to \in Early
    BY <1>1, <2>1, EarlyInRound
  <2>2. CASE to = "solving"
    <3>1. TimeWindowSize # Undefined /\ c.timeWindowSize = TimeWindowSize
      BY <1>1, ParallelSizes DEF InRound
    <3>2. d.timeWindowSize = TimeWindowSize
      BY <3>1 DEF Alike
    <3>3. Alike(c, [d EXCEPT !.timeWindowSize = c.timeWindowSize])
      BY DEF Alike, Schemes
    <3> QED
      BY <1>1, <1>2, <2>2, <3>1, <3>2, <3>3, InitializedInRound
  <2> QED
    BY <2>1, <2>2
<1>4. to # Told(p)
  BY DEF Told, Early, InitializeSteps
<1> QED
  BY <1>1, <1>3, <1>4 DEF Joins, Tracks

\* initialize() begins before the first message, on both ways.
LEMMA InitializePositions ==
  ASSUME config \in Configurations, NEW p \in Participants, NEW b, NEW c,
         NEW place, place = InitialExchange(p), RoundAt(place, c) = 1
  PROVE  /\ ReadAt(p, place, c) = ReadAt(p, "constructed", b)
         /\ SentAt(p, place, c) = SentAt(p, "constructed", b)
<1> DEFINE q == Other(p)
<1>1. ReadAt(p, "constructed", b) = Beginning(p) /\ SentAt(p, "constructed", b) = Beginning(q)
  BY DEF ReadAt, SentAt
<1>2. /\ Beginning(p) = IF q \in Initializes THEN Data(p, 0) ELSE Header(p, 1)
      /\ Beginning(q) = IF p \in Initializes THEN Data(q, 0) ELSE Header(q, 1)
  BY Others DEF Beginning
<1>3. CASE p = First
  <2>1. q = Second /\ First # Second
    BY <1>3, ConfigTypes DEF Other
  <2>2. place = IF p \in Initializes THEN "initSendData"
                ELSE IF q \in Initializes THEN "initReceiveData" ELSE "solving"
    BY <1>3, <2>1 DEF InitialExchange
  <2> HIDE DEF q
  <2> QED
    BY <1>1, <1>2, <1>3, <2>1, <2>2 DEF ReadAt, SentAt, q
<1>4. CASE p = Second
  <2>1. q = First /\ First # Second
    BY <1>4, ConfigTypes DEF Other
  <2>2. place = IF q \in Initializes THEN "initReceiveData"
                ELSE IF p \in Initializes THEN "initSendData" ELSE "solving"
    BY <1>4, <2>1 DEF InitialExchange
  <2> HIDE DEF q
  <2> QED
    BY <1>1, <1>2, <1>4, <2>1, <2>2 DEF ReadAt, SentAt, q
<1> QED
  BY <1>3, <1>4 DEF Participants

\* initialize() up to the first exchange that is configured
LEMMA InitializeAgrees ==
  ASSUME IInv, config' = config, NEW L \in Ledgers, Agree(L), NEW p \in Participants,
         Initialize(p, InitialExchange(p)), IInv'
  PROVE  Agree(L)'
<1> DEFINE fulfilled == scheme[p].fulfilledActions \cup scheme[p].requiredActions
           required == scheme[p].requiredActions
                         \cup (IF Implicit THEN {"WriteCheckpoint"} ELSE {})
           c == [scheme[p] EXCEPT !.fulfilledActions = fulfilled, !.requiredActions = required]
           place == InitialExchange(p)
           q == Other(p)
<1>1. TypeOK /\ TypeOK' /\ config \in Configurations /\ pc[p] = "constructed"
  BY DEF IInv, TypeOK, Initialize
<1>2. /\ pc' = [pc EXCEPT ![p] = place] /\ scheme' = [scheme EXCEPT ![p] = c]
      /\ channel' = channel
  BY <1>1 DEF Initialize, Goto, TypeOK
<1>3. /\ scheme[p] \in Schemes /\ Joins(L, p, "constructed", scheme[p])
      /\ q \in Participants /\ q # p /\ Other(q) = p /\ Joins(L, q, pc[q], scheme[q])
  BY <1>1, AgreeAt, Others
<1>4. c \in Schemes
  BY <1>1, <1>2, Types DEF TypeOK
<1>5. Alike(scheme[p], c)
  BY <1>3, AlikeMembers
<1>6. place \in ParallelPlaces(p) \cap (Early \cup {"solving"})
      /\ pc[p] \notin Leaving /\ place \notin Leaving
  BY <1>1, Others DEF InitialExchange, ParallelPlaces, Early, InitializeSteps, Leaving, Other, Participants
<1> HIDE DEF c
<1>7. Joins(L, p, place, c) /\ RoundAt(place, c) = 1
  BY <1>1, <1>3, <1>4, <1>5, <1>6, EarlyJoins DEF Early
<1>8. /\ ReadAt(p, place, c) = ReadAt(p, pc[p], scheme[p])
      /\ SentAt(p, place, c) = SentAt(p, pc[p], scheme[p])
  BY <1>1, <1>7, InitializePositions
<1> HIDE DEF place
<1>9. /\ Carries(L, p, channel[p], ReadAt(p, place, c), SentAt(q, pc[q], scheme[q]),
                 Bye(p, pc[p], pc[q]))
      /\ Carries(L, q, channel[q], ReadAt(q, pc[q], scheme[q]), SentAt(p, place, c), "nothing")
  BY <1>1, <1>6, <1>8, Streams
<1> QED
  BY <1>1, <1>2, <1>3, <1>6, <1>7, <1>9, MidStep

\* The initial data goes out before all else.
LEMMA InitSendAgrees ==
  ASSUME IInv, config' = config, NEW L \in Ledgers, Agree(L), NEW p \in Participants, InitSend(p)
  PROVE  Agree(L)'
<1> DEFINE place == IF p = First /\ Second \in Initializes THEN "initReceiveData" ELSE "solving"
           c == scheme[p]
           q == Other(p)
<1>1. TypeOK /\ config \in Configurations /\ pc[p] = "initSendData" /\ SendStored(p, written[p])
  BY DEF IInv, TypeOK, InitSend, InitSendData, At
<1>2. pc' = [pc EXCEPT ![p] = place] /\ scheme' = [scheme EXCEPT ![p] = c]
  BY <1>1, Unchanged DEF InitSend, InitSendData, Goto
<1>3. /\ c \in Schemes /\ Joins(L, p, "initSendData", c) /\ channel[q] \in Seq(Messages)
      /\ q \in Participants /\ q # p /\ Other(q) = p /\ Joins(L, q, pc[q], scheme[q])
  BY <1>1, AgreeAt, Others
<1>4. Alike(c, c)
  BY <1>3, AlikeMembers
<1>5. place \in ParallelPlaces(p) \cap (Early \cup {"solving"})
      /\ pc[p] \notin Leaving /\ place \notin Leaving
  BY <1>1 DEF ParallelPlaces, Early, InitializeSteps, Leaving, Other, Participants
<1>6. Joins(L, p, place, c) /\ RoundAt(place, c) = 1
  BY <1>1, <1>3, <1>4, <1>5, EarlyJoins DEF Early, InitializeSteps
<1>7. /\ SentAt(p, "initSendData", c) = Data(q, 0) /\ SentAt(p, place, c) = Header(q, 0 + 1)
      /\ ReadAt(p, place, c) = ReadAt(p, "initSendData", c)
  <2>1. RoundAt("initSendData", c) = 1
    BY <1>3 DEF Joins, Tracks, InRound, Early, InitializeSteps
  <2> QED
    BY <1>1, <1>6, <2>1, ConfigTypes DEF SentAt, ReadAt, Beginning, Other, Participants
<1> HIDE DEF place
<1>8. /\ channel'[p] = channel[p] /\ channel'[q] \in Seq(Messages)
      /\ IF HasData(q) THEN \E m \in Messages : m.kind = "data" /\ channel'[q] = Append(channel[q], m)
         ELSE channel'[q] = channel[q]
  BY <1>1, <1>3, SendsData
<1> DEFINE n == ReadAt(q, pc[q], scheme[q])
<1>9. /\ Carries(L, p, channel[p], ReadAt(p, place, c), SentAt(q, pc[q], scheme[q]),
                 Bye(p, pc[p], pc[q]))
      /\ Carries(L, q, channel[q], n, Data(q, 0), "nothing")
  BY <1>1, <1>5, <1>7, Streams
<1> HIDE DEF n
<1>10. Carries(L, q, channel'[q], n, SentAt(p, place, c), "nothing")
  BY <1>3, <1>7, <1>8, <1>9, DataIsSent
<1> QED
  BY <1>1, <1>2, <1>3, <1>5, <1>6, <1>8, <1>9, <1>10, MidStep DEF n

\* The initial data that is read is the first of all messages.
LEMMA InitReceiveAgrees ==
  ASSUME IInv, config' = config, NEW L \in Ledgers, Agree(L), NEW p \in Participants, InitReceive(p)
  PROVE  Agree(L)'
<1> DEFINE place == IF p = Second /\ Second \in Initializes THEN "initSendData" ELSE "solving"
           c == NotifyDataHasBeenReceived(scheme[p])
           q == Other(p)
<1>1. /\ TypeOK /\ config \in Configurations /\ pc[p] = "initReceiveData"
      /\ CanReceiveData(p) /\ ReceiveDataMessage(p)
  BY DEF IInv, TypeOK, InitReceive, InitReceiveData, At
<1>2. pc' = [pc EXCEPT ![p] = place] /\ scheme' = [scheme EXCEPT ![p] = c]
  BY <1>1 DEF InitReceive, InitReceiveData, Goto
<1>3. /\ scheme[p] \in Schemes /\ Joins(L, p, "initReceiveData", scheme[p])
      /\ channel[p] \in Seq(Messages)
      /\ q \in Participants /\ q # p /\ Other(q) = p /\ Joins(L, q, pc[q], scheme[q])
  BY <1>1, AgreeAt, Others
<1>4. Alike(scheme[p], c) /\ c \in Schemes
  BY <1>3, AlikeMembers, NotifyMembers
<1>5. place \in ParallelPlaces(p) \cap (Early \cup {"solving"})
      /\ pc[p] \notin Leaving /\ place \notin Leaving
  BY <1>1 DEF ParallelPlaces, Early, InitializeSteps, Leaving, Other, Participants
<1> HIDE DEF c
<1>6. Joins(L, p, place, c) /\ RoundAt(place, c) = 1 /\ RoundAt("initReceiveData", scheme[p]) = 1
  BY <1>1, <1>3, <1>4, <1>5, EarlyJoins DEF Early, InitializeSteps
<1>7. /\ ReadAt(p, "initReceiveData", scheme[p]) = Data(p, 0)
      /\ ReadAt(p, place, c) = Header(p, 0 + 1)
      /\ SentAt(p, place, c) = SentAt(p, "initReceiveData", scheme[p])
  BY <1>1, <1>3, <1>6, ConfigTypes DEF SentAt, ReadAt, Beginning, Other, Participants
<1> HIDE DEF place
<1>8. /\ channel'[q] = channel[q]
      /\ HasData(p) => channel[p] # <<>> /\ Head(channel[p]).kind = "data"
      /\ channel'[p] = IF HasData(p) THEN Tail(channel[p]) ELSE channel[p]
  BY <1>1, ReadsData
<1> DEFINE n == SentAt(q, pc[q], scheme[q])
           bye == Bye(p, pc[p], pc[q])
<1>9. /\ Carries(L, p, channel[p], Data(p, 0), n, bye)
      /\ Carries(L, q, channel[q], ReadAt(q, pc[q], scheme[q]), SentAt(p, place, c), "nothing")
  BY <1>1, <1>5, <1>7, Streams
<1> HIDE DEF n, bye
<1>10. Carries(L, p, channel'[p], ReadAt(p, place, c), n, bye)
  BY <1>3, <1>7, <1>8, <1>9, DataIsRead
<1> QED
  BY <1>1, <1>2, <1>3, <1>5, <1>6, <1>8, <1>9, <1>10, MidStep DEF n, bye

--------------------------------------------------------------------------------
(* advance() goes by the ledger *)

\* Reading and writing a checkpoint is nothing to the other.
LEMMA CheckpointAgrees ==
  ASSUME IInv, config' = config, NEW L \in Ledgers, Agree(L), NEW p \in Participants,
         RequiresWritingCheckpoint(p) \/ RequiresReadingCheckpoint(p)
  PROVE  Agree(L)'
<1> DEFINE q == Other(p)
<1>1. /\ TypeOK /\ config \in Configurations /\ pc[p] = "solving" /\ "solving" \notin Leaving
      /\ channel' = channel
  BY DEF IInv, TypeOK, RequiresWritingCheckpoint, RequiresReadingCheckpoint, Leaving
<1>2. PICK fulfilled :
        scheme' = [scheme EXCEPT ![p] = [scheme[p] EXCEPT !.fulfilledActions = fulfilled]]
  BY <1>1 DEF RequiresWritingCheckpoint, RequiresReadingCheckpoint, TypeOK
<1> DEFINE c == [scheme[p] EXCEPT !.fulfilledActions = fulfilled]
<1>3. pc' = [pc EXCEPT ![p] = "solving"]
  BY <1>1 DEF RequiresWritingCheckpoint, RequiresReadingCheckpoint, TypeOK
<1>4. /\ scheme[p] \in Schemes /\ Joins(L, p, "solving", scheme[p])
      /\ q \in Participants /\ Other(q) = p /\ Joins(L, q, pc[q], scheme[q])
  BY <1>1, AgreeAt, Others
<1>5. Alike(scheme[p], c)
  BY <1>4, AlikeMembers
<1>6. scheme' = [scheme EXCEPT ![p] = c]
  BY <1>2
<1> HIDE DEF c
<1>7. RoundAt("solving", c) = RoundAt("solving", scheme[p])
  BY <1>4, <1>5, InRoundAlike DEF Joins, Tracks
<1>8. Joins(L, p, "solving", c)
  BY <1>4, <1>5, <1>7, InRoundAlike DEF Joins, Tracks, Told
<1>9. /\ ReadAt(p, "solving", c) = ReadAt(p, "solving", scheme[p])
      /\ SentAt(p, "solving", c) = SentAt(p, "solving", scheme[p])
  BY <1>7 DEF ReadAt, SentAt
<1>10. /\ Carries(L, p, channel[p], ReadAt(p, "solving", c), SentAt(q, pc[q], scheme[q]),
                  Bye(p, pc[p], pc[q]))
       /\ Carries(L, q, channel[q], ReadAt(q, pc[q], scheme[q]), SentAt(p, "solving", c), "nothing")
  BY <1>1, <1>9, Streams
<1> QED
  BY <1>1, <1>3, <1>4, <1>6, <1>8, <1>10, MidStep

\* A step of the solver, in the window or to its end, stays in the round.
LEMMA AdvanceAgrees ==
  ASSUME IInv, config' = config, NEW L \in Ledgers, Agree(L), NEW p \in Participants,
         Advance(p, ExchangeFirstData(p))
  PROVE  Agree(L)'
<1> DEFINE q == Other(p)
           r == RoundAt("solving", scheme[p])
<1>1. /\ TypeOK /\ config \in Configurations /\ pc[p] = "solving" /\ channel' = channel
      /\ IsCouplingOngoing(scheme[p]) /\ StepBound \in Nat
  BY ConfigAssumption DEF IInv, TypeOK, Advance, At
<1>2. PICK dt \in 1 .. StepBound :
        LET a == AddComputedTime(scheme[p], dt)
        IN  /\ dt <= NextTimeStepMaxSize(scheme[p])
            /\ scheme' = [scheme EXCEPT ![p] = FirstExchange(a)]
            /\ Goto(p, IF ReachedEndOfTimeWindow(a) THEN ExchangeFirstData(p) ELSE "solving")
  BY DEF Advance
<1> DEFINE a == AddComputedTime(scheme[p], dt)
           c == FirstExchange(a)
           place == IF ReachedEndOfTimeWindow(a) THEN ExchangeFirstData(p) ELSE "solving"
<1>3. /\ dt \in Nat \ {0} /\ dt <= NextTimeStepMaxSize(scheme[p])
      /\ pc' = [pc EXCEPT ![p] = place] /\ scheme' = [scheme EXCEPT ![p] = c]
  BY <1>1, <1>2 DEF Goto
<1>4. /\ scheme[p] \in Schemes /\ Joins(L, p, "solving", scheme[p])
      /\ L[r] \in Entries /\ Proper(L[r]) /\ InRound(p, "solving", scheme[p], L[r])
      /\ q \in Participants /\ Other(q) = p /\ Joins(L, q, pc[q], scheme[q])
  BY <1>1, AgreeAt, Others
<1>5. ~SetsSize(p) /\ ExchangeFirstData(p) \in {"sendData", "receiveData"}
      /\ EndSet(p, L[r], c) = L[r] /\ {"sendData", "receiveData"} \subseteq ExchangeSteps
  BY <1>1, ParallelSizes DEF ExchangeFirstData, EndSet, ExchangeSteps
<1> HIDE DEF a, c, r
<1>6. InRound(p, place, c, L[r]) /\ RoundAt(place, c) = r
  BY <1>1, <1>3, <1>4, <1>5, AdvanceInRound DEF a, c, r
<1>7. /\ "solving" \notin Leaving /\ place \notin Leaving /\ place # Told(p)
      /\ place \in ParallelPlaces(p)
  BY <1>1, ConfigTypes DEF ExchangeFirstData, Leaving, Told, ParallelPlaces, Participants
<1>8. Joins(L, p, place, c)
  BY <1>4, <1>6, <1>7 DEF Joins, Tracks, r
<1>9. /\ ReadAt(p, place, c) = ReadAt(p, "solving", scheme[p])
      /\ SentAt(p, place, c) = SentAt(p, "solving", scheme[p])
  <2>1. p = First => Data(q, r) = Header(q, r)
    <3>1. p = First => q = Second
      BY DEF Other
    <3>2. p = First => ~HasHeader(q)
      BY <1>1, <3>1, ParallelSizes
    <3> QED
      BY <3>2 DEF Data, Header
  <2>2. p = Second => Data(p, r) = Header(p, r)
    BY <1>1, ParallelSizes DEF Data, Header
  <2>3. First # Second
    BY <1>1, ConfigTypes
  <2>4. /\ p = First => place \in {"sendData", "solving"}
        /\ p = Second => place \in {"receiveData", "solving"}
    BY <2>3 DEF ExchangeFirstData
  <2> HIDE DEF place
  <2>5. /\ ReadAt(p, "solving", scheme[p]) = Header(p, r)
        /\ SentAt(p, "solving", scheme[p]) = Header(q, r)
    BY DEF ReadAt, SentAt, r
  <2>6. p = First => ReadAt(p, place, c) = Header(p, r) /\ SentAt(p, place, c) = Header(q, r)
    BY <1>6, <2>1, <2>3, <2>4 DEF ReadAt, SentAt
  <2>7. p = Second => ReadAt(p, place, c) = Header(p, r) /\ SentAt(p, place, c) = Header(q, r)
    BY <1>6, <2>2, <2>3, <2>4 DEF ReadAt, SentAt
  <2> QED
    BY <2>5, <2>6, <2>7 DEF Participants
<1> HIDE DEF place
<1>10. /\ Carries(L, p, channel[p], ReadAt(p, place, c), SentAt(q, pc[q], scheme[q]),
                  Bye(p, pc[p], pc[q]))
       /\ Carries(L, q, channel[q], ReadAt(q, pc[q], scheme[q]), SentAt(p, place, c), "nothing")
  BY <1>1, <1>7, <1>9, Streams
<1> QED
  BY <1>1, <1>3, <1>4, <1>7, <1>8, <1>10, MidStep

\* First's data goes out in its place of the stream.
LEMMA FirstSendsDataAgrees ==
  ASSUME IInv, config' = config, NEW L \in Ledgers, Agree(L), NEW p \in Participants,
         FirstSendsData(p)
  PROVE  Agree(L)'
<1> DEFINE place == IF Implicit THEN "receiveConvergence" ELSE "receiveData"
           c == scheme[p]
           q == Other(p)
           r == RoundAt("sendData", c)
<1>1. /\ TypeOK /\ config \in Configurations /\ pc[p] = "sendData" /\ p = First
      /\ SendStored(p, written[p]) /\ First # Second
  BY ConfigTypes DEF IInv, TypeOK, FirstSendsData, At
<1>2. pc' = [pc EXCEPT ![p] = place] /\ scheme' = [scheme EXCEPT ![p] = c]
  BY <1>1, Unchanged DEF FirstSendsData, Goto
<1>3. /\ c \in Schemes /\ Joins(L, p, "sendData", c) /\ channel[q] \in Seq(Messages)
      /\ r \in Nat /\ InRound(p, "sendData", c, L[r])
      /\ q \in Participants /\ Other(q) = p /\ Joins(L, q, pc[q], scheme[q])
  BY <1>1, AgreeAt, Others DEF TypeOK
<1>4. /\ "sendData" \notin Leaving /\ place \notin Leaving /\ place \in ParallelPlaces(p)
      /\ {"sendData", place} \subseteq ExchangeSteps /\ place # "sendTimeWindowSize"
  BY <1>1 DEF Leaving, ParallelPlaces, ExchangeSteps
<1>5. InRound(p, place, c, L[r]) /\ RoundAt(place, c) = r
  BY <1>3, <1>4, ExchangeInRound
<1>6. Joins(L, p, place, c)
  BY <1>1, <1>3, <1>4, <1>5 DEF Joins, Tracks, Told
<1>7. /\ SentAt(p, "sendData", c) = Data(q, r) /\ SentAt(p, place, c) = Header(q, r + 1)
      /\ ReadAt(p, "sendData", c) = Header(p, r)
  BY <1>1, <1>5 DEF SentAt, ReadAt
<1>8. ReadAt(p, place, c) = Header(p, r)
  <2>1. ~Implicit => Data(p, r) = Header(p, r)
    BY <1>1, ParallelSizes DEF Data, Header
  <2> QED
    BY <1>1, <1>5, <2>1 DEF ReadAt
<1> HIDE DEF place, r
<1>9. /\ channel'[p] = channel[p]
      /\ IF HasData(q) THEN \E m \in Messages : m.kind = "data" /\ channel'[q] = Append(channel[q], m)
         ELSE channel'[q] = channel[q]
      /\ channel'[q] \in Seq(Messages)
  BY <1>1, <1>3, SendsData
<1> DEFINE n == ReadAt(q, pc[q], scheme[q])
<1>10. /\ Carries(L, p, channel[p], ReadAt(p, place, c), SentAt(q, pc[q], scheme[q]),
                  Bye(p, pc[p], pc[q]))
       /\ Carries(L, q, channel[q], n, Data(q, r), "nothing")
  BY <1>1, <1>4, <1>7, <1>8, Streams
<1> HIDE DEF n
<1>11. Carries(L, q, channel'[q], n, SentAt(p, place, c), "nothing")
  BY <1>3, <1>7, <1>9, <1>10, DataIsSent
<1> QED
  BY <1>1, <1>2, <1>3, <1>4, <1>6, <1>9, <1>10, <1>11, MidStep DEF n

\* Second has read First's data and only then measures, or sends its own.
LEMMA SecondReceivesDataAgrees ==
  ASSUME IInv, config' = config, NEW L \in Ledgers, Agree(L), NEW p \in Participants,
         SecondReceivesData(p)
  PROVE  Agree(L)'
<1> DEFINE place == IF Implicit THEN "sendConvergence" ELSE "sendData"
           c == NotifyDataHasBeenReceived(scheme[p])
           q == Other(p)
           r == RoundAt("receiveData", scheme[p])
<1>1. /\ TypeOK /\ config \in Configurations /\ pc[p] = "receiveData" /\ p = Second
      /\ CanReceiveData(p) /\ ReceiveDataMessage(p) /\ First # Second
  BY ConfigTypes DEF IInv, TypeOK, SecondReceivesData, At
<1>2. pc' = [pc EXCEPT ![p] = place] /\ scheme' = [scheme EXCEPT ![p] = c]
  BY <1>1 DEF SecondReceivesData, Goto, TypeOK
<1>3. /\ scheme[p] \in Schemes /\ Joins(L, p, "receiveData", scheme[p])
      /\ channel[p] \in Seq(Messages)
      /\ r \in Nat /\ InRound(p, "receiveData", scheme[p], L[r])
      /\ q \in Participants /\ Other(q) = p /\ Joins(L, q, pc[q], scheme[q])
  BY <1>1, AgreeAt, Others DEF TypeOK
<1>4. /\ "receiveData" \notin Leaving /\ place \notin Leaving /\ place \in ParallelPlaces(p)
      /\ {"receiveData", place} \subseteq ExchangeSteps /\ place # "sendTimeWindowSize"
  BY <1>1 DEF Leaving, ParallelPlaces, ExchangeSteps
<1>5. Alike(scheme[p], c)
  BY <1>3, AlikeMembers
<1> HIDE DEF c
<1>6. InRound(p, place, c, L[r]) /\ RoundAt(place, c) = r
  <2>1. /\ c.time = scheme[p].time /\ c.timeWindows = scheme[p].timeWindows
        /\ c.timeWindowSize = scheme[p].timeWindowSize /\ c.iterations = scheme[p].iterations
        /\ c.totalIterations = scheme[p].totalIterations
        /\ c.nextTimeWindowSize = scheme[p].nextTimeWindowSize
    BY <1>5 DEF Alike
  <2>2. /\ "receiveData" \in ExchangeSteps /\ place \in ExchangeSteps
        /\ place # "sendTimeWindowSize"
    BY <1>4
  <2> HIDE DEF place
  <2> QED
    BY <1>3, <2>1, <2>2, ExchangeInRound
<1>7. Joins(L, p, place, c)
  BY <1>1, <1>3, <1>4, <1>6 DEF Joins, Tracks, Told
<1>8. /\ ReadAt(p, "receiveData", scheme[p]) = Data(p, r) /\ ReadAt(p, place, c) = Header(p, r + 1)
      /\ SentAt(p, "receiveData", scheme[p]) = Header(q, r)
  BY <1>1, <1>6 DEF SentAt, ReadAt
<1>9. SentAt(p, place, c) = Header(q, r)
  <2>1. ~Implicit => Data(q, r) = Header(q, r)
    <3>1. q = First
      BY <1>1 DEF Other
    <3> QED
      BY <1>1, <3>1, ParallelSizes DEF Data, Header
  <2> QED
    BY <1>1, <1>6, <2>1 DEF SentAt
<1> HIDE DEF place, r
<1>10. /\ channel'[q] = channel[q]
       /\ HasData(p) => channel[p] # <<>> /\ Head(channel[p]).kind = "data"
       /\ channel'[p] = IF HasData(p) THEN Tail(channel[p]) ELSE channel[p]
  BY <1>1, ReadsData
<1> DEFINE n == SentAt(q, pc[q], scheme[q])
           bye == Bye(p, pc[p], pc[q])
<1>11. /\ Carries(L, p, channel[p], Data(p, r), n, bye)
       /\ Carries(L, q, channel[q], ReadAt(q, pc[q], scheme[q]), SentAt(p, place, c), "nothing")
  BY <1>1, <1>4, <1>8, <1>9, Streams
<1> HIDE DEF n, bye
<1>12. Carries(L, p, channel'[p], ReadAt(p, place, c), n, bye)
  BY <1>3, <1>8, <1>10, <1>11, DataIsRead
<1> QED
  BY <1>1, <1>2, <1>3, <1>4, <1>7, <1>10, <1>11, <1>12, MidStep DEF n, bye

\* While Second measures, First is in the same round and waits for the verdict.
LEMMA FirstAwaitsVerdict ==
  ASSUME TypeOK, NEW L \in Ledgers, Agree(L), pc[Second] = "sendConvergence"
  PROVE  /\ Implicit /\ pc[First] = "receiveConvergence" /\ channel[First] = <<>>
         /\ RoundAt(pc[First], scheme[First]) = RoundAt(pc[Second], scheme[Second])
<1> DEFINE r == RoundAt(pc[Second], scheme[Second])
           s == RoundAt(pc[First], scheme[First])
<1>1. /\ config \in Configurations /\ First # Second /\ Other(Second) = First
      /\ Other(First) = Second /\ First \in Participants /\ Second \in Participants
      /\ pc[Second] \notin Leaving
  BY ConfigTypes DEF TypeOK, Other, Participants, Leaving
<1>2. Joins(L, Second, pc[Second], scheme[Second]) /\ Joins(L, First, pc[First], scheme[First])
  BY <1>1 DEF Agree
<1>3. r \in Nat \ {0} /\ s \in Nat \ {0}
  BY <1>2 DEF Joins, Tracks
<1>4. Implicit
  BY <1>1, <1>2 DEF Joins, ParallelPlaces, Leaving
<1>5. HasData(First) /\ HasData(Second) /\ HasHeader(First)
  BY <1>1, <1>4, ConfigTypes DEF HasData, HasHeader
<1>6. /\ SentAt(Second, pc[Second], scheme[Second]) = Header(First, r)
      /\ ReadAt(Second, pc[Second], scheme[Second]) = Header(Second, r + 1)
  BY <1>1 DEF SentAt, ReadAt
<1>7. /\ ReadAt(First, pc[First], scheme[First]) <= Header(First, r)
      /\ Header(Second, r + 1) <= SentAt(First, pc[First], scheme[First])
      /\ Len(channel[First]) = Header(First, r) - ReadAt(First, pc[First], scheme[First])
  <2>1. Carries(L, Second, channel[Second], Header(Second, r + 1),
                SentAt(First, pc[First], scheme[First]), Bye(Second, pc[Second], pc[First]))
    BY <1>1, <1>6, Streams
  <2>2. Carries(L, First, channel[First], ReadAt(First, pc[First], scheme[First]),
                Header(First, r), "nothing")
    BY <1>1, <1>6, Streams
  <2> QED
    BY <2>1, <2>2 DEF Carries
<1>8. /\ SentAt(First, pc[First], scheme[First]) <= Header(Second, s + 1)
      /\ pc[First] \notin ExchangeSteps =>
           SentAt(First, pc[First], scheme[First]) <= Header(Second, s)
      /\ pc[First] \notin Early => ReadAt(First, pc[First], scheme[First]) >= Header(First, s)
      /\ SentAt(First, pc[First], scheme[First]) \in Nat
      /\ ReadAt(First, pc[First], scheme[First]) \in Nat
  BY <1>1, <1>2, Bounds
<1>9. pc[First] \in Early => s = 1 /\ pc[First] \notin ExchangeSteps
  BY <1>2 DEF Joins, Tracks, InRound, Early, InitializeSteps, ExchangeSteps
<1> HIDE DEF r, s
<1>10. r = s /\ pc[First] \in ExchangeSteps
  <2>1. /\ Header(Second, r + 1) \in Nat /\ Header(Second, s + 1) \in Nat
        /\ Header(Second, s) \in Nat /\ Header(First, r) \in Nat /\ Header(First, s) \in Nat
    BY <1>3, Positions
  <2>2. r + 1 <= s + 1
    BY <1>3, <1>5, <1>7, <1>8, <2>1, EarlierRound
  <2>3. pc[First] \notin ExchangeSteps => r + 1 <= s
    BY <1>3, <1>5, <1>7, <1>8, <2>1, EarlierRound
  <2>4. pc[First] \notin Early => s <= r
    BY <1>3, <1>5, <1>7, <1>8, <2>1, EarlierRound
  <2> QED
    BY <1>3, <1>9, <2>2, <2>3, <2>4
<1>11. pc[First] \in {"sendData", "receiveData", "receiveConvergence"}
  BY <1>1, <1>2, <1>10 DEF Joins, ParallelPlaces, ExchangeSteps, Leaving
<1>12. /\ Data(Second, r) < Header(Second, r + 1) /\ Header(First, r) < Data(First, r)
       /\ Header(First, r) \in Nat
  <2>1. /\ Header(Second, r + 1) = Data(Second, r) + 1 /\ Data(First, r) = Header(First, r) + 1
        /\ Data(Second, r) \in Nat /\ Header(First, r) \in Nat
    BY <1>3, <1>5, Positions
  <2> QED
    BY <2>1
<1>13. /\ pc[First] = "sendData" => SentAt(First, pc[First], scheme[First]) = Data(Second, s)
       /\ pc[First] = "receiveData" => ReadAt(First, pc[First], scheme[First]) = Data(First, s)
       /\ pc[First] = "receiveConvergence" =>
            ReadAt(First, pc[First], scheme[First]) = Header(First, s)
  BY <1>1 DEF SentAt, ReadAt, s
<1>14. pc[First] # "sendData" /\ pc[First] # "receiveData"
  <2>1. Data(Second, r) \in Nat /\ Header(Second, r + 1) \in Nat /\ Data(First, r) \in Nat
    BY <1>3, Positions
  <2> QED
    BY <1>7, <1>10, <1>12, <1>13, <2>1
<1>15. pc[First] = "receiveConvergence" /\ Len(channel[First]) = 0
  BY <1>7, <1>10, <1>11, <1>12, <1>13, <1>14
<1>16. channel[First] = <<>>
  BY <1>1, <1>15 DEF TypeOK
<1> QED
  BY <1>4, <1>10, <1>15, <1>16 DEF r, s

\* The verdict is written into the ledger when Second sends it; if a strict
\* measure ends the coupling instead, First waits with nothing to read.
LEMMA SendConvergenceAgrees ==
  ASSUME IInv, config' = config, NEW L \in Ledgers, Agree(L), NEW p \in Participants,
         SendConvergence(p), IInv'
  PROVE  Broken' \/ (pc'[p] # "failed" /\ \E K \in Ledgers : Agree(K)' /\ Keeps(L, K))
<1> DEFINE r == RoundAt("sendConvergence", scheme[p])
<1>1. /\ TypeOK /\ TypeOK' /\ config \in Configurations /\ pc[p] = "sendConvergence"
      /\ First # Second
  BY ConfigTypes DEF IInv, TypeOK, SendConvergence, At
<1>2. /\ scheme[p] \in Schemes /\ Joins(L, p, "sendConvergence", scheme[p])
      /\ r \in Nat \ {0} /\ InRound(p, "sendConvergence", scheme[p], L[r])
      /\ L[r] \in Entries /\ Proper(L[r]) /\ Kept(L, r)
      /\ channel[p] \in Seq(Messages) /\ channel[First] \in Seq(Messages)
  BY <1>1, AgreeAt DEF TypeOK, Tracks, Participants
<1>3. p = Second /\ Implicit /\ p # First
  BY <1>1, <1>2 DEF Joins, ParallelPlaces, Leaving, Participants
<1>4. Other(p) = First /\ Other(First) = p /\ First \in Participants
  BY <1>1, <1>3 DEF Other, Participants
<1>5. /\ pc[First] = "receiveConvergence" /\ channel[First] = <<>>
      /\ RoundAt(pc[First], scheme[First]) = r /\ Joins(L, First, pc[First], scheme[First])
  BY <1>1, <1>3, <1>4, FirstAwaitsVerdict DEF Agree
<1>6. PICK converged \in SUBSET Measuring :
        LET c == DoImplicitStep(scheme[p], converged)
        IN  IF StrictMeasureFails(scheme[p], converged)
            THEN Goto(p, "failed") /\ UNCHANGED <<scheme, channel>>
            ELSE /\ Goto(p, "sendData")
                 /\ scheme' = [scheme EXCEPT ![p] = c]
                 /\ Send(p, [kind |-> "convergence", hasConverged |-> c.hasConverged])
  BY DEF SendConvergence
<1>7. CASE StrictMeasureFails(scheme[p], converged)
  <2>1. pc'[Second] = "failed" /\ pc'[First] = "receiveConvergence" /\ channel'[First] = <<>>
    BY <1>1, <1>3, <1>4, <1>5, <1>6, <1>7 DEF Goto, TypeOK
  <2>2. Implicit'
    BY <1>3 DEF Implicit
  <2> QED
    BY <2>1, <2>2 DEF Broken
<1>8. CASE ~StrictMeasureFails(scheme[p], converged)
  <2> DEFINE c == DoImplicitStep(scheme[p], converged)
             m == [kind |-> "convergence", hasConverged |-> c.hasConverged]
             f == [L[r] EXCEPT !.converged = c.hasConverged]
  <2>0. c = DoImplicitStep(scheme[p], converged)
    OBVIOUS
  <2> HIDE DEF c
  <2>1. /\ c \in Schemes /\ c.time = scheme[p].time /\ c.timeWindows = scheme[p].timeWindows
        /\ c.timeWindowSize = scheme[p].timeWindowSize
        /\ c.nextTimeWindowSize = scheme[p].nextTimeWindowSize
        /\ c.iterations = scheme[p].iterations /\ c.totalIterations = scheme[p].totalIterations
    <3>1. scheme[p] \in Schemes
      BY <1>2
    <3> QED
      BY <2>0, <3>1, DoImplicitStepMembers
  <2>2. /\ f \in Entries /\ Proper(f) /\ Judged(f) /\ f.converged = c.hasConverged
        /\ f.window = L[r].window /\ f.start = L[r].start /\ f.end = L[r].end
        /\ f.iteration = L[r].iteration
    <3>1. L[r].iteration = scheme[p].iterations
      BY <1>2 DEF InRound
    <3> QED
      BY <1>1, <1>2, <2>0, <3>1, VerdictIsJudged
  <2>3. m \in Messages /\ m.kind = "convergence" /\ m.hasConverged = c.hasConverged
    BY <2>1 DEF Messages, Schemes
  <2>4. /\ pc' = [pc EXCEPT ![p] = "sendData"] /\ scheme' = [scheme EXCEPT ![p] = c]
        /\ Send(p, m)
    BY <1>6, <1>8, <2>0 DEF Goto
  <2> HIDE DEF m, f
  <2>5. PICK M \in Ledgers : M[r] = f /\ (\A k \in Nat : k # r => M[k] = L[k]) /\ Kept(M, r)
    <3> HIDE DEF r
    <3>1. r \in Nat \ {0} /\ Kept(L, r) /\ f \in Entries /\ Proper(f)
      BY <1>2, <2>2
    <3>2. f.window = L[r].window /\ f.start = L[r].start /\ f.iteration = L[r].iteration
      BY <2>2
    <3> DEFINE K == [L EXCEPT ![r] = f]
    <3>3. /\ K \in Ledgers /\ K[r] = f /\ (\A k \in Nat : k # r => K[k] = L[k])
          /\ Kept(K, r)
      BY <3>1, <3>2, KeptUpToLast
    <3> HIDE DEF K
    <3> QED
      BY <3>3
  <2> HIDE DEF r
  <2>6. /\ "sendConvergence" \in ExchangeSteps /\ "sendData" \in ExchangeSteps
        /\ "sendData" \notin Leaving /\ "sendConvergence" \notin Leaving
        /\ "sendData" \in ParallelPlaces(p)
    BY DEF ExchangeSteps, Leaving, ParallelPlaces
  <2>7. /\ InRound(p, "sendConvergence", scheme[p], f)
        /\ InRound(First, pc[First], scheme[First], f)
    <3>1. InRound(First, pc[First], scheme[First], L[r])
      BY <1>5 DEF Joins, Tracks
    <3>2. (Open(f) <=> Open(L[r])) /\ Size(f) = Size(L[r])
      BY <2>2 DEF Open, Size
    <3> QED
      BY <1>2, <2>2, <3>1, <3>2 DEF InRound
  <2>8. InRound(p, "sendData", c, f) /\ RoundAt("sendData", c) = r
    BY <2>1, <2>6, <2>7, ExchangeInRound DEF r
  <2>9. Joins(M, p, "sendData", c)
    BY <1>2, <2>2, <2>5, <2>6, <2>8 DEF Joins, Tracks
  <2>10. Joins(M, First, pc[First], scheme[First])
    BY <1>1, <1>2, <1>5, <2>5, <2>7 DEF Joins, Tracks, Told
  <2>11. /\ SentAt(p, "sendConvergence", scheme[p]) = Header(First, r)
         /\ SentAt(p, "sendData", c) = Data(First, r)
         /\ ReadAt(p, "sendConvergence", scheme[p]) = Header(p, r + 1)
         /\ ReadAt(p, "sendData", c) = Header(p, r + 1)
    BY <1>1, <1>3, <1>4, <2>8 DEF SentAt, ReadAt, r
  <2> DEFINE n == SentAt(First, pc[First], scheme[First])
             k == ReadAt(First, pc[First], scheme[First])
             bye == Bye(p, pc[p], pc[First])
  <2>12. /\ Carries(L, p, channel[p], Header(p, r + 1), n, bye)
         /\ Carries(L, First, channel[First], k, Header(First, r), "nothing")
    BY <1>1, <1>4, <2>6, <2>11, Streams
  <2> HIDE DEF n, k, bye
  <2>13. channel'[p] = channel[p] /\ channel'[First] = Append(channel[First], m)
    BY <1>1, <1>4, <2>3, <2>4, Sends1
  <2>14. Carries(M, p, channel'[p], Header(p, r + 1), n, bye)
    <3>1. ~HasHeader(p)
      BY <1>1, <1>3, ParallelSizes
    <3>2. Len(channel[p]) \in Nat
      BY <1>2
    <3> QED
      BY <2>12, <2>13, <3>1, <3>2, CarriesAlike
  <2>15. Carries(M, First, channel'[First], k, Data(First, r), "nothing")
    <3>1. r - 1 \in Nat /\ (r - 1) + 1 = r /\ Header(First, r) \in Nat
      <4>1. r \in Nat \ {0}
        BY <1>2
      <4>2. r \in Nat /\ r >= 1 /\ r - 1 \in Nat /\ (r - 1) + 1 = r
        BY <4>1
      <4> QED
        BY <4>2, Positions
    <3>2. \A j \in Nat : j <= r - 1 => M[j] = L[j]
      BY <1>2, <2>5
    <3>3. Carries(M, First, channel[First], k, Header(First, r), "nothing")
      <4> DEFINE x == r - 1
      <4>1. x \in Nat /\ Header(First, r) <= Header(First, x + 1)
        BY <3>1
      <4> HIDE DEF x
      <4>2. \A j \in Nat : j <= x => M[j] = L[j]
        BY <3>2 DEF x
      <4> QED
        BY <1>2, <2>12, <4>1, <4>2, CarriesUpTo
    <3>4. HasHeader(First) /\ Tells(First, M[r], m)
      BY <1>1, <1>3, <2>2, <2>3, <2>5 DEF HasHeader, Tells
    <3> QED
      BY <1>2, <2>3, <2>13, <3>3, <3>4, HeaderIsSent
  <2>16. Agree(M)'
    BY <1>1, <1>4, <2>4, <2>5, <2>6, <2>9, <2>10, <2>11, <2>14, <2>15, MidStep DEF n, k, bye
  <2>17. Keeps(L, M)
    BY <1>2, <2>2, <2>5 DEF Keeps, Stamp, Root, RoundAt
  <2>18. pc'[p] # "failed"
    BY <1>1, <2>4 DEF TypeOK
  <2> QED
    BY <2>5, <2>16, <2>17, <2>18
<1> QED
  BY <1>7, <1>8

\* The verdict that First reads is the one on its round.
LEMMA ReceiveConvergenceAgrees ==
  ASSUME IInv, config' = config, NEW L \in Ledgers, Agree(L), NEW p \in Participants,
         ReceiveConvergence(p)
  PROVE  Agree(L)'
<1> DEFINE c == [scheme[p] EXCEPT !.hasConverged = Head(channel[p]).hasConverged]
           q == Other(p)
           r == RoundAt("receiveConvergence", scheme[p])
<1>1. /\ TypeOK /\ config \in Configurations /\ pc[p] = "receiveConvergence"
      /\ HasMessage(p, "convergence") /\ Receive(p) /\ First # Second
  BY ConfigTypes DEF IInv, TypeOK, ReceiveConvergence, At
<1>2. pc' = [pc EXCEPT ![p] = "receiveData"] /\ scheme' = [scheme EXCEPT ![p] = c]
  BY <1>1 DEF ReceiveConvergence, Goto, TypeOK
<1>3. /\ scheme[p] \in Schemes /\ Joins(L, p, "receiveConvergence", scheme[p])
      /\ channel[p] \in Seq(Messages) /\ Kept(L, r)
      /\ r \in Nat \ {0} /\ InRound(p, "receiveConvergence", scheme[p], L[r])
      /\ q \in Participants /\ Other(q) = p /\ Joins(L, q, pc[q], scheme[q])
  BY <1>1, AgreeAt, Others DEF TypeOK, Tracks
<1>4. p = First /\ Implicit
  BY <1>1, <1>3 DEF Joins, ParallelPlaces, Leaving, Participants
<1>5. channel[p] # <<>> /\ Head(channel[p]).kind = "convergence"
      /\ Head(channel[p]).hasConverged \in BOOLEAN
  BY <1>1, HeadType DEF HasMessage
<1>6. /\ c.time = scheme[p].time /\ c.timeWindows = scheme[p].timeWindows
      /\ c.timeWindowSize = scheme[p].timeWindowSize
      /\ c.nextTimeWindowSize = scheme[p].nextTimeWindowSize
      /\ c.iterations = scheme[p].iterations /\ c.totalIterations = scheme[p].totalIterations
      /\ c.hasConverged = Head(channel[p]).hasConverged
  BY <1>3 DEF Schemes
<1> HIDE DEF c
<1>7. /\ "receiveConvergence" \in ExchangeSteps /\ "receiveData" \in ExchangeSteps
      /\ "receiveConvergence" \notin Leaving /\ "receiveData" \notin Leaving
      /\ "receiveData" \in ParallelPlaces(p)
  BY DEF ExchangeSteps, Leaving, ParallelPlaces
<1>8. InRound(p, "receiveData", c, L[r]) /\ RoundAt("receiveData", c) = r
  <2> DEFINE e == L[r]
  <2>1. InRound(p, "receiveConvergence", scheme[p], e)
    BY <1>3
  <2> HIDE DEF e
  <2>2. /\ InRound(p, "receiveData", c, e)
        /\ RoundAt("receiveData", c) = RoundAt("receiveConvergence", scheme[p])
    BY <1>6, <1>7, <2>1, ExchangeInRound
  <2> QED
    BY <2>2 DEF e
<1>9. /\ ReadAt(p, "receiveConvergence", scheme[p]) = Header(p, r)
      /\ ReadAt(p, "receiveData", c) = Data(p, r)
      /\ SentAt(p, "receiveData", c) = SentAt(p, "receiveConvergence", scheme[p])
  BY <1>1, <1>4, <1>8 DEF ReadAt, SentAt
<1> HIDE DEF r
<1> DEFINE n == SentAt(q, pc[q], scheme[q])
           bye == Bye(p, pc[p], pc[q])
<1>10. /\ Carries(L, p, channel[p], Header(p, r), n, bye)
       /\ Carries(L, q, channel[q], ReadAt(q, pc[q], scheme[q]), SentAt(p, "receiveData", c),
                  "nothing")
  BY <1>1, <1>7, <1>9, Streams
<1> HIDE DEF n, bye
<1>11. Tells(p, L[r], Head(channel[p])) /\ Carries(L, p, Tail(channel[p]), Data(p, r), n, bye)
  <2>1. HasHeader(p)
    BY <1>1, <1>4, ParallelSizes
  <2> QED
    BY <1>3, <1>5, <1>10, <2>1, HeaderIsRead
<1>12. Judged(L[r]) /\ c.hasConverged = L[r].converged
  BY <1>1, <1>4, <1>6, <1>11 DEF Tells
<1>13. Joins(L, p, "receiveData", c)
  BY <1>3, <1>7, <1>8, <1>12 DEF Joins, Tracks
<1>14. channel'[q] = channel[q] /\ channel'[p] = Tail(channel[p])
  BY <1>1, Reads1
<1> QED
  BY <1>1, <1>2, <1>3, <1>7, <1>9, <1>10, <1>11, <1>13, <1>14, MidStep DEF n, bye

\* secondExchange() goes on to the next round of the ledger, which is what the
\* other has made of it or will have to.
LEMMA FinishAgrees ==
  ASSUME IInv, config' = config, NEW L \in Ledgers, Agree(L), NEW p \in Participants,
         pc[p] = Told(p), NEW c \in Schemes, Alike(scheme[p], c),
         pc' = [pc EXCEPT ![p] = "solving"], scheme' = [scheme EXCEPT ![p] = SecondExchange(c)],
         NEW q, q = Other(p), NEW r, r = RoundAt(pc[p], scheme[p]),
         channel'[p] \in Seq(Messages), channel'[q] \in Seq(Messages),
         NEW n, n = SentAt(q, pc[q], scheme[q]),
         Carries(L, p, channel'[p], Header(p, r + 1), n, Bye(p, pc[p], pc[q])),
         NEW m, m = ReadAt(q, pc[q], scheme[q]),
         Carries(L, q, channel'[q], m, Header(q, r + 1), "nothing")
  PROVE  \E K \in Ledgers : Agree(K)' /\ Keeps(L, K)
<1> DEFINE s == RoundAt(pc[q], scheme[q])
           d == SecondExchange(c)
           bye == Bye(p, pc[p], pc[q])
<1>1. TypeOK /\ config \in Configurations /\ q \in Participants /\ Other(q) = p
  BY Others DEF IInv, TypeOK
<1>2. /\ Joins(L, p, pc[p], scheme[p]) /\ r \in Nat \ {0} /\ Kept(L, r)
      /\ L[r] \in Entries /\ Proper(L[r]) /\ InRound(p, pc[p], scheme[p], L[r])
      /\ Joins(L, q, pc[q], scheme[q]) /\ Tracks(L, q, pc[q], scheme[q])
      /\ s \in Nat \ {0} /\ Kept(L, s)
  BY <1>1, AgreeAt DEF Tracks
<1>3. /\ pc[p] \in ExchangeSteps \ {"sendTimeWindowSize"} /\ pc[p] \notin Leaving
      /\ "solving" \notin Leaving /\ "solving" \in ParallelPlaces(p) /\ "solving" # Told(p)
  BY DEF Told, ExchangeSteps, Leaving, ParallelPlaces
<1>4. /\ InRound(p, pc[p], c, L[r]) /\ r = RoundAt(pc[p], c)
      /\ SizeIsKnown(pc[p], c)
  <2>1. SizeIsKnown(pc[p], scheme[p])
    BY DEF IInv, Consistent
  <2>2. SizeIsKnown(pc[p], c)
    BY <2>1 DEF SizeIsKnown, Alike
  <2> QED
    BY <1>2, <2>2, InRoundAlike
<1>5. Open(L[r]) /\ L[r].start < L[r].end
  <2>1. /\ Open(L[r]) /\ L[r].start = c.time.start /\ Time!TimeOf(c.time) = L[r].end
        /\ c.time.progress > 0 /\ c.time \in Time!TimeHandlers
    BY <1>3, <1>4 DEF InRound, Schemes
  <2> QED
    BY <2>1 DEF Time!TimeOf, Time!TimeHandlers
<1>6. /\ Implicit => Judged(L[r]) /\ c.hasConverged = L[r].converged
      /\ Complete(c) <=> Done(L[r])
  BY <1>2 DEF Joins, Alike, Complete, Done
<1>7. PICK M \in Ledgers : /\ Kept(M, r + 1)
                           /\ \A k \in Nat : k <= r \/ k <= s => M[k] = L[k]
  BY <1>1, <1>2, <1>5, <1>6, LedgerGoesOn
<1> HIDE DEF s, d, bye
<1>8. /\ M[r] = L[r] /\ M[s] = L[s] /\ r + 1 \in Nat \ {0}
      /\ M[r + 1] \in Entries /\ Proper(M[r + 1]) /\ Follows(L[r], M[r + 1])
  <2>1. r + 1 \in 1 .. r + 1 /\ r \in 1 .. (r + 1) - 1 /\ r + 1 \in Nat /\ r \in Nat /\ s \in Nat
    BY <1>2
  <2>2. M[r] = L[r] /\ M[s] = L[s]
    BY <1>7, <2>1
  <2>3. Proper(M[r + 1]) /\ Follows(M[r], M[r + 1])
    BY <1>7, <2>1 DEF Kept
  <2> QED
    BY <1>7, <2>1, <2>2, <2>3 DEF Ledgers
<1>9. InRound(p, "solving", d, M[r + 1]) /\ RoundAt("solving", d) = r + 1
  <2>1. TimeWindowSize # Undefined
    BY <1>1, ParallelSizes
  <2> QED
    BY <1>1, <1>2, <1>3, <1>4, <1>6, <1>8, <2>1, FinishInRound DEF d
<1>10. Joins(M, p, "solving", d)
  BY <1>3, <1>7, <1>8, <1>9 DEF Joins, Tracks
<1>11. Joins(M, q, pc[q], scheme[q])
  <2>1. Tracks(M, q, pc[q], scheme[q])
    BY <1>2, <1>7, TracksAlike DEF s
  <2> QED
    BY <1>2, <1>8, <2>1 DEF Joins, s
<1>12. /\ ReadAt(p, "solving", d) = Header(p, r + 1) /\ SentAt(p, "solving", d) = Header(q, r + 1)
  BY <1>9 DEF ReadAt, SentAt
<1>13. Carries(M, p, channel'[p], Header(p, r + 1), n, bye)
  <2>1. n <= Header(p, s + 1)
    BY <1>1, <1>2, Bounds DEF s
  <2>2. s \in Nat /\ \A k \in Nat : k <= s => M[k] = L[k]
    BY <1>2, <1>7
  <2> QED
    BY <2>1, <2>2, CarriesUpTo DEF bye
<1>14. Carries(M, q, channel'[q], m, Header(q, r + 1), "nothing")
  <2>1. r \in Nat /\ (\A k \in Nat : k <= r => M[k] = L[k]) /\ r + 1 >= 1 /\ r + 1 \in Nat
    BY <1>2, <1>7
  <2>2. Header(q, r + 1) <= Header(q, r + 1)
    <3>1. Header(q, r + 1) \in Nat
      BY <2>1, Positions
    <3> QED
      BY <3>1
  <2> QED
    BY <2>1, <2>2, CarriesUpTo
<1>15. Agree(M)'
  BY <1>1, <1>3, <1>10, <1>11, <1>12, <1>13, <1>14, MidStep DEF d, bye
<1>16. Keeps(L, M)
  BY <1>1, <1>2, <1>7, Others DEF Keeps, Stamp, Root, s
<1> QED
  BY <1>15, <1>16

\* Second sends its data as the last of its round.
LEMMA SecondSendsDataAgrees ==
  ASSUME IInv, config' = config, NEW L \in Ledgers, Agree(L), NEW p \in Participants,
         SecondSendsData(p), IInv'
  PROVE  \E K \in Ledgers : Agree(K)' /\ Keeps(L, K)
<1> DEFINE c == scheme[p]
           q == Other(p)
           r == RoundAt("sendData", c)
<1>1. /\ TypeOK /\ TypeOK' /\ config \in Configurations /\ pc[p] = "sendData" /\ p = Second
      /\ SendStored(p, written[p]) /\ First # Second /\ pc[p] \notin Leaving
  BY ConfigTypes DEF IInv, TypeOK, SecondSendsData, At, Leaving
<1>2. /\ pc' = [pc EXCEPT ![p] = "solving"]
      /\ scheme' = [scheme EXCEPT ![p] = SecondExchange(c)]
  BY DEF SecondSendsData, FinishAdvance, Goto
<1>3. /\ c \in Schemes /\ Joins(L, p, "sendData", c) /\ r \in Nat
      /\ q \in Participants /\ Other(q) = p
      /\ channel[p] \in Seq(Messages) /\ channel[q] \in Seq(Messages)
  BY <1>1, AgreeAt, Others DEF TypeOK
<1>4. SentAt(p, "sendData", c) = Data(q, r) /\ ReadAt(p, "sendData", c) = Header(p, r + 1)
  BY <1>1 DEF SentAt, ReadAt
<1>5. /\ channel'[p] = channel[p]
      /\ IF HasData(q) THEN \E m \in Messages : m.kind = "data" /\ channel'[q] = Append(channel[q], m)
         ELSE channel'[q] = channel[q]
      /\ channel'[q] \in Seq(Messages)
  BY <1>1, <1>3, SendsData
<1> DEFINE n == SentAt(q, pc[q], scheme[q])
           m == ReadAt(q, pc[q], scheme[q])
<1>6. /\ Carries(L, p, channel'[p], Header(p, r + 1), n, Bye(p, pc[p], pc[q]))
      /\ Carries(L, q, channel[q], m, Data(q, r), "nothing")
  BY <1>1, <1>4, <1>5, Streams
<1> HIDE DEF m, n
<1>7. Carries(L, q, channel'[q], m, Header(q, r + 1), "nothing")
  BY <1>3, <1>5, <1>6, DataIsSent
<1>8. Alike(c, c) /\ pc[p] = Told(p)
  BY <1>1 DEF Alike, Told
<1> QED
  BY <1>1, <1>2, <1>3, <1>5, <1>6, <1>7, <1>8, FinishAgrees DEF m, n

\* First reads Second's data as the last of its round.
LEMMA FirstReceivesDataAgrees ==
  ASSUME IInv, config' = config, NEW L \in Ledgers, Agree(L), NEW p \in Participants,
         FirstReceivesData(p), IInv'
  PROVE  \E K \in Ledgers : Agree(K)' /\ Keeps(L, K)
<1> DEFINE c == NotifyDataHasBeenReceived(scheme[p])
           q == Other(p)
           r == RoundAt("receiveData", scheme[p])
<1>1. /\ TypeOK /\ TypeOK' /\ config \in Configurations /\ pc[p] = "receiveData" /\ p = First
      /\ CanReceiveData(p) /\ ReceiveDataMessage(p) /\ First # Second /\ pc[p] \notin Leaving
  BY ConfigTypes DEF IInv, TypeOK, FirstReceivesData, At, Leaving
<1>2. /\ pc' = [pc EXCEPT ![p] = "solving"]
      /\ scheme' = [scheme EXCEPT ![p] = SecondExchange(c)]
  BY DEF FirstReceivesData, FinishAdvance, Goto
<1>3. /\ scheme[p] \in Schemes /\ Joins(L, p, "receiveData", scheme[p]) /\ r \in Nat
      /\ q \in Participants /\ Other(q) = p
      /\ channel[p] \in Seq(Messages) /\ channel[q] \in Seq(Messages)
      /\ channel'[p] \in Seq(Messages)
  <2>1. channel'[p] \in Seq(Messages)
    BY <1>1, Types DEF TypeOK
  <2>2. q \in Participants /\ Other(q) = p /\ channel[q] \in Seq(Messages)
    BY <1>1, Others DEF TypeOK
  <2> QED
    BY <1>1, <2>1, <2>2, AgreeAt
<1>4. c \in Schemes /\ Alike(scheme[p], c) /\ pc[p] = Told(p)
  BY <1>1, <1>3, AlikeMembers, NotifyMembers DEF Told
<1>5. /\ ReadAt(p, "receiveData", scheme[p]) = Data(p, r)
      /\ SentAt(p, "receiveData", scheme[p]) = Header(q, r + 1)
  BY <1>1 DEF SentAt, ReadAt
<1>6. /\ channel'[q] = channel[q]
      /\ HasData(p) => channel[p] # <<>> /\ Head(channel[p]).kind = "data"
      /\ channel'[p] = IF HasData(p) THEN Tail(channel[p]) ELSE channel[p]
  BY <1>1, ReadsData
<1> HIDE DEF c
<1> DEFINE n == SentAt(q, pc[q], scheme[q])
           m == ReadAt(q, pc[q], scheme[q])
           bye == Bye(p, pc[p], pc[q])
<1>7. /\ Carries(L, p, channel[p], Data(p, r), n, bye)
      /\ Carries(L, q, channel[q], m, Header(q, r + 1), "nothing")
  BY <1>1, <1>5, Streams
<1> HIDE DEF m, n, bye
<1>8. Carries(L, p, channel'[p], Header(p, r + 1), n, bye)
  BY <1>3, <1>6, <1>7, DataIsRead
<1> QED
  BY <1>1, <1>2, <1>3, <1>4, <1>6, <1>7, <1>8, FinishAgrees DEF m, n, bye

--------------------------------------------------------------------------------
(* finalize() goes by the ledger *)

\* A participant that is past the last round has all the messages of it.
LEMMA AllIsRead ==
  ASSUME TypeOK, NEW L \in Ledgers, Agree(L), NEW p \in Participants,
         NEW q, q = Other(p), NEW r, r = RoundAt(pc[p], scheme[p]), ~Open(L[r]),
         pc[p] \in Leaving \cup {"solving"}
  PROVE  /\ ReadAt(p, pc[p], scheme[p]) = Header(p, r)
         /\ SentAt(q, pc[q], scheme[q]) = Header(p, r)
<1> DEFINE s == RoundAt(pc[q], scheme[q])
           n == ReadAt(p, pc[p], scheme[p])
           m == SentAt(q, pc[q], scheme[q])
<1>1. /\ config \in Configurations /\ q \in Participants /\ Other(q) = p
      /\ Tracks(L, p, pc[p], scheme[p]) /\ Tracks(L, q, pc[q], scheme[q])
      /\ Joins(L, q, pc[q], scheme[q]) /\ r \in Nat \ {0} /\ s \in Nat \ {0}
      /\ Delivers(L, p, pc[p], scheme[p], pc[q], scheme[q], channel[p])
  BY AgreeAt, Others DEF TypeOK
<1>2. s <= r /\ (pc[q] \in ExchangeSteps => s < r)
  BY <1>1, NobodyIsAhead
<1>3. m <= Header(p, s + 1) /\ (pc[q] \notin ExchangeSteps => m <= Header(p, s)) /\ m \in Nat
  BY <1>1, Bounds
<1>4. n = Header(p, r)
  BY DEF ReadAt, Leaving
<1>5. n <= m
  BY <1>1 DEF Delivers, Carries
<1> HIDE DEF s, n, m
<1>6. m <= Header(p, r)
  <2>1. Header(p, s) \in Nat /\ Header(p, s + 1) \in Nat /\ Header(p, r) \in Nat
    BY <1>1, Positions
  <2>2. s < r => Header(p, s + 1) <= Header(p, r)
    <3>1. CASE s + 1 = r
      BY <2>1, <3>1
    <3>2. CASE s + 1 # r
      BY <1>1, <3>2, PositionsInOrder
    <3> QED
      BY <3>1, <3>2
  <2>3. s < r => Header(p, s) <= Header(p, r)
    BY <1>1, PositionsInOrder
  <2> QED
    BY <1>1, <1>2, <1>3, <2>1, <2>2, <2>3
<1>7. Header(p, r) \in Nat
  BY <1>1, Positions
<1> QED
  BY <1>3, <1>4, <1>5, <1>6, <1>7 DEF n, m

\* Who leaves the coupling, or goes on leaving, stays in its last round.
LEMMA LeavingJoins ==
  ASSUME NEW L, NEW p, NEW place \in Leaving \cup {"solving"}, NEW c, Joins(L, p, place, c),
         ~Open(L[RoundAt(place, c)]), NEW d, Alike(c, d), NEW to \in Leaving
  PROVE  /\ Joins(L, p, to, d) /\ RoundAt(to, d) = RoundAt(place, c)
         /\ ReadAt(p, to, d) = ReadAt(p, place, c) /\ SentAt(p, to, d) = SentAt(p, place, c)
<1>1. InRound(p, to, d, L[RoundAt(place, c)]) /\ RoundAt(to, d) = RoundAt(place, c)
  BY LeavingInRound DEF Joins, Tracks
<1>2. to \in ParallelPlaces(p) /\ to # Told(p)
  BY DEF ParallelPlaces, Told, Leaving
<1>3. Joins(L, p, to, d)
  BY <1>1, <1>2 DEF Joins, Tracks
<1>4. ReadAt(p, to, d) = ReadAt(p, place, c) /\ SentAt(p, to, d) = SentAt(p, place, c)
  BY <1>1 DEF ReadAt, SentAt, Leaving
<1> QED
  BY <1>1, <1>3, <1>4

\* The requesting side sends its ping as the last message of all.
LEMMA FinalizeAgrees ==
  ASSUME IInv, config' = config, NEW L \in Ledgers, Agree(L), NEW p \in Participants, Finalize(p)
  PROVE  Agree(L)'
<1> DEFINE c == ClearActions(scheme[p])
           q == Other(p)
           r == RoundAt("solving", scheme[p])
           place == IF WaitInFinalize
                    THEN IF p = Requesting THEN "receivePong" ELSE "receivePing" ELSE "finalized"
           ping == [kind |-> "ping"]
<1>1. /\ TypeOK /\ config \in Configurations /\ pc[p] = "solving"
      /\ ~IsCouplingOngoing(scheme[p]) /\ scheme' = [scheme EXCEPT ![p] = c]
  BY DEF IInv, TypeOK, Finalize, At
<1>2. /\ scheme[p] \in Schemes /\ Joins(L, p, "solving", scheme[p])
      /\ InRound(p, "solving", scheme[p], L[r]) /\ L[r] \in Entries /\ Proper(L[r])
      /\ q \in Participants /\ q # p /\ Other(q) = p /\ Joins(L, q, pc[q], scheme[q])
      /\ \A x \in Participants : x = p \/ x = q
      /\ channel[q] \in Seq(Messages) /\ Requesting \in Participants
      /\ LeavesInOrder(p, "solving", pc[q]) /\ LeavesInOrder(q, pc[q], "solving")
  BY <1>1, AgreeAt, Others, ConfigTypes
<1>3. ~Open(L[r])
  BY <1>1, <1>2, OngoingIsOpen DEF ExchangeSteps
<1>4. Alike(scheme[p], c)
  BY <1>2, AlikeMembers
<1>5. place \in Leaving /\ "solving" \notin Leaving
  BY DEF Leaving
<1>6. /\ pc' = [pc EXCEPT ![p] = place]
      /\ IF WaitInFinalize /\ p = Requesting THEN Send(p, ping) ELSE UNCHANGED channel
  BY DEF Finalize, CloseCommunicationChannels, Goto
<1> HIDE DEF c
<1>7. /\ Joins(L, p, place, c) /\ ReadAt(p, place, c) = ReadAt(p, "solving", scheme[p])
      /\ SentAt(p, place, c) = SentAt(p, "solving", scheme[p])
  BY <1>2, <1>3, <1>4, <1>5, LeavingJoins
<1>8. LeavesInOrder(p, place, pc[q]) /\ LeavesInOrder(q, pc[q], place)
  BY <1>2 DEF LeavesInOrder
<1>9. Bye(p, place, pc[q]) = Bye(p, "solving", pc[q])
  BY <1>2 DEF Bye, LeavesInOrder
<1>10. Bye(q, pc[q], place) = IF WaitInFinalize /\ p = Requesting THEN "ping" ELSE "nothing"
  BY <1>2 DEF Bye, LeavesInOrder
<1> DEFINE n == ReadAt(q, pc[q], scheme[q])
           m == SentAt(p, "solving", scheme[p])
<1>11. /\ Carries(L, p, channel[p], ReadAt(p, "solving", scheme[p]),
                  SentAt(q, pc[q], scheme[q]), Bye(p, "solving", pc[q]))
       /\ Carries(L, q, channel[q], n, m, "nothing")
  BY <1>1, <1>5, Streams
<1>12. Delivers(L, p, place, c, pc[q], scheme[q], channel'[p])
  <2>1. channel'[p] = channel[p]
    <3>1. ping \in Messages
      BY DEF Messages
    <3> QED
      BY <1>1, <1>6, <3>1, Sends1
  <2> QED
    BY <1>7, <1>9, <1>11, <2>1 DEF Delivers
<1> HIDE DEF n, m, ping
<1>13. Carries(L, q, channel'[q], n, m, Bye(q, pc[q], place))
  <2>1. CASE WaitInFinalize /\ p = Requesting
    <3>1. ping \in Messages /\ ping.kind = "ping"
      BY DEF Messages, ping
    <3>2. channel'[q] = Append(channel[q], ping)
      BY <1>1, <1>6, <2>1, <3>1, Sends1
    <3> QED
      BY <1>2, <1>10, <1>11, <2>1, <3>1, <3>2, GoodbyeIsSent
  <2>2. CASE ~(WaitInFinalize /\ p = Requesting)
    BY <1>6, <1>10, <1>11, <2>2
  <2> QED
    BY <2>1, <2>2
<1> HIDE DEF place
<1>14. Delivers(L, q, pc[q], scheme[q], place, c, channel'[q])
  BY <1>2, <1>7, <1>13 DEF Delivers, n, m
<1> QED
  BY <1>1, <1>2, <1>6, <1>7, <1>8, <1>12, <1>14, StepAgrees

\* The answer to the ping is the last message to the requesting side.
LEMMA ReceivePingAgrees ==
  ASSUME IInv, config' = config, NEW L \in Ledgers, Agree(L), NEW p \in Participants, ReceivePing(p)
  PROVE  Agree(L)'
<1> DEFINE c == scheme[p]
           q == Other(p)
           r == RoundAt("receivePing", c)
           pong == [kind |-> "pong"]
<1>1. /\ TypeOK /\ config \in Configurations /\ pc[p] = "receivePing"
      /\ channel[p] # <<>> /\ Head(channel[p]).kind = "ping"
  BY DEF IInv, TypeOK, ReceivePing, At, HasMessage
<1>2. pc' = [pc EXCEPT ![p] = "finalized"] /\ scheme' = [scheme EXCEPT ![p] = c]
  BY <1>1, Unchanged DEF ReceivePing, Goto
<1>3. /\ c \in Schemes /\ Joins(L, p, "receivePing", c) /\ InRound(p, "receivePing", c, L[r])
      /\ q \in Participants /\ q # p /\ Other(q) = p /\ Joins(L, q, pc[q], scheme[q])
      /\ \A x \in Participants : x = p \/ x = q
      /\ channel[q] \in Seq(Messages) /\ channel[p] \in Seq(Messages)
      /\ Requesting \in Participants /\ Alike(c, c)
      /\ LeavesInOrder(p, "receivePing", pc[q]) /\ LeavesInOrder(q, pc[q], "receivePing")
      /\ Delivers(L, p, "receivePing", c, pc[q], scheme[q], channel[p])
      /\ Delivers(L, q, pc[q], scheme[q], "receivePing", c, channel[q])
  BY <1>1, AgreeAt, Others, ConfigTypes DEF Alike
<1>4. ~Open(L[r]) /\ "receivePing" \in Leaving /\ "finalized" \in Leaving
  BY <1>3 DEF InRound, Leaving
<1>5. /\ Joins(L, p, "finalized", c) /\ ReadAt(p, "finalized", c) = ReadAt(p, "receivePing", c)
      /\ SentAt(p, "finalized", c) = SentAt(p, "receivePing", c)
  BY <1>3, <1>4, LeavingJoins
<1> DEFINE n == Header(p, r)
           bye == Bye(p, "receivePing", pc[q])
<1>6. Carries(L, p, channel[p], n, n, bye) /\ ReadAt(p, "receivePing", c) = n
      /\ SentAt(q, pc[q], scheme[q]) = n
  <2>1. ReadAt(p, "receivePing", c) = n /\ SentAt(q, pc[q], scheme[q]) = n
    BY <1>1, <1>4, AllIsRead
  <2> QED
    BY <1>3, <2>1 DEF Delivers
<1>7. WaitInFinalize /\ p # Requesting /\ q = Requesting
  BY <1>3 DEF LeavesInOrder
<1> HIDE DEF n, bye
<1>8. bye = "ping" /\ Carries(L, p, Tail(channel[p]), n, n, "nothing")
  BY <1>1, <1>3, <1>6, GoodbyeIsRead
<1>9. pc[q] = "receivePong"
  BY <1>3, <1>7, <1>8 DEF Bye, LeavesInOrder, bye
<1>10. /\ LeavesInOrder(p, "finalized", pc[q]) /\ LeavesInOrder(q, pc[q], "finalized")
       /\ Bye(p, "finalized", pc[q]) = "nothing" /\ Bye(q, pc[q], "finalized") = "pong"
       /\ Bye(q, pc[q], "receivePing") = "nothing"
  BY <1>3, <1>7, <1>9 DEF LeavesInOrder, Bye
<1>11. channel'[p] = Tail(channel[p]) /\ channel'[q] = Append(channel[q], pong)
  BY <1>1, <1>3 DEF ReceivePing, TypeOK
<1>12. pong \in Messages /\ pong.kind = "pong"
  BY DEF Messages
<1> HIDE DEF pong
<1>13. Delivers(L, p, "finalized", c, pc[q], scheme[q], channel'[p])
  BY <1>5, <1>6, <1>8, <1>10, <1>11 DEF Delivers
<1>14. Delivers(L, q, pc[q], scheme[q], "finalized", c, channel'[q])
  <2> DEFINE m == ReadAt(q, pc[q], scheme[q])
             k == SentAt(p, "receivePing", c)
  <2>1. Carries(L, q, channel[q], m, k, "nothing")
    BY <1>3, <1>10 DEF Delivers
  <2> HIDE DEF m, k
  <2>2. Carries(L, q, Append(channel[q], pong), m, k, "pong")
    BY <1>3, <1>12, <2>1, GoodbyeIsSent
  <2> QED
    BY <1>3, <1>5, <1>10, <1>11, <2>2 DEF Delivers, m, k
<1> QED
  BY <1>1, <1>2, <1>3, <1>5, <1>10, <1>13, <1>14, StepAgrees

\* The answer to the ping ends the coupling for the requesting side.
LEMMA ReceivePongAgrees ==
  ASSUME IInv, config' = config, NEW L \in Ledgers, Agree(L), NEW p \in Participants, ReceivePong(p)
  PROVE  Agree(L)'
<1> DEFINE c == scheme[p]
           q == Other(p)
           r == RoundAt("receivePong", c)
<1>1. /\ TypeOK /\ config \in Configurations /\ pc[p] = "receivePong"
      /\ channel[p] # <<>> /\ Head(channel[p]).kind = "pong" /\ Receive(p)
  BY DEF IInv, TypeOK, ReceivePong, At, HasMessage
<1>2. pc' = [pc EXCEPT ![p] = "finalized"] /\ scheme' = [scheme EXCEPT ![p] = c]
  BY <1>1, Unchanged DEF ReceivePong, Goto
<1>3. /\ c \in Schemes /\ Joins(L, p, "receivePong", c) /\ InRound(p, "receivePong", c, L[r])
      /\ q \in Participants /\ q # p /\ Other(q) = p /\ Joins(L, q, pc[q], scheme[q])
      /\ \A x \in Participants : x = p \/ x = q
      /\ channel[p] \in Seq(Messages)
      /\ Requesting \in Participants /\ Alike(c, c)
      /\ LeavesInOrder(p, "receivePong", pc[q]) /\ LeavesInOrder(q, pc[q], "receivePong")
      /\ Delivers(L, p, "receivePong", c, pc[q], scheme[q], channel[p])
      /\ Delivers(L, q, pc[q], scheme[q], "receivePong", c, channel[q])
  BY <1>1, AgreeAt, Others, ConfigTypes DEF Alike
<1>4. ~Open(L[r]) /\ "receivePong" \in Leaving /\ "finalized" \in Leaving
  BY <1>3 DEF InRound, Leaving
<1>5. /\ Joins(L, p, "finalized", c) /\ ReadAt(p, "finalized", c) = ReadAt(p, "receivePong", c)
      /\ SentAt(p, "finalized", c) = SentAt(p, "receivePong", c)
  BY <1>3, <1>4, LeavingJoins
<1> DEFINE n == Header(p, r)
           bye == Bye(p, "receivePong", pc[q])
<1>6. Carries(L, p, channel[p], n, n, bye) /\ ReadAt(p, "receivePong", c) = n
      /\ SentAt(q, pc[q], scheme[q]) = n
  <2>1. ReadAt(p, "receivePong", c) = n /\ SentAt(q, pc[q], scheme[q]) = n
    BY <1>1, <1>4, AllIsRead
  <2> QED
    BY <1>3, <2>1 DEF Delivers
<1>7. WaitInFinalize /\ p = Requesting /\ q # Requesting
  BY <1>3 DEF LeavesInOrder
<1> HIDE DEF n, bye
<1>8. bye = "pong" /\ Carries(L, p, Tail(channel[p]), n, n, "nothing")
  BY <1>1, <1>3, <1>6, GoodbyeIsRead
<1>9. pc[q] = "finalized"
  BY <1>7, <1>8 DEF Bye, bye
<1>10. /\ LeavesInOrder(p, "finalized", pc[q]) /\ LeavesInOrder(q, pc[q], "finalized")
       /\ Bye(p, "finalized", pc[q]) = "nothing"
       /\ Bye(q, pc[q], "finalized") = Bye(q, pc[q], "receivePong")
  BY <1>3, <1>7, <1>9 DEF LeavesInOrder, Bye
<1>11. channel'[p] = Tail(channel[p]) /\ channel'[q] = channel[q]
  BY <1>1, Reads1
<1>12. Delivers(L, p, "finalized", c, pc[q], scheme[q], channel'[p])
  BY <1>5, <1>6, <1>8, <1>10, <1>11 DEF Delivers
<1>13. Delivers(L, q, pc[q], scheme[q], "finalized", c, channel'[q])
  BY <1>3, <1>5, <1>10, <1>11 DEF Delivers
<1> QED
  BY <1>1, <1>2, <1>3, <1>5, <1>10, <1>12, <1>13, StepAgrees

\* A participant that goes by the ledger does not lose its partner.
LEMMA NobodyIsLost ==
  ASSUME TypeOK, NEW L \in Ledgers, Agree(L), NEW p \in Participants
  PROVE  ~LosePartner(p)
<1>1. Other(p) \in Participants
  BY Others DEF TypeOK
<1>2. pc[Other(p)] # "failed"
  BY <1>1, AgreeAt DEF InRound
<1> QED
  BY <1>2 DEF LosePartner

--------------------------------------------------------------------------------
(* The agreement is kept *)

\* Every step of a participant keeps the agreement, or ends it with an error.
LEMMA AgreementStep ==
  ASSUME IInv, NEW L \in Ledgers, Agree(L), NEW p \in Participants, Participant(p)
  PROVE  Broken' \/ \E K \in Ledgers : Agree(K)'
<1>1. config' = config /\ TypeOK
  BY DEF Participant, IInv
<1>2. IInv'
  BY ParticipantStep
<1>3. CASE Initialize(p, InitialExchange(p))
  BY <1>1, <1>2, <1>3, InitializeAgrees
<1>4. CASE InitSend(p) \/ InitReceive(p)
  BY <1>1, <1>4, InitSendAgrees, InitReceiveAgrees
<1>5. CASE Advance(p, ExchangeFirstData(p))
  BY <1>1, <1>5, AdvanceAgrees
<1>6. CASE FirstSendsData(p) \/ SecondReceivesData(p)
  BY <1>1, <1>6, FirstSendsDataAgrees, SecondReceivesDataAgrees
<1>7. CASE SendConvergence(p) \/ SecondSendsData(p)
  BY <1>1, <1>2, <1>7, SendConvergenceAgrees, SecondSendsDataAgrees
<1>8. CASE ReceiveConvergence(p) \/ FirstReceivesData(p)
  BY <1>1, <1>2, <1>8, ReceiveConvergenceAgrees, FirstReceivesDataAgrees
<1>9. CASE ApiCall(p)
  <2>1. ~LosePartner(p)
    BY <1>1, NobodyIsLost
  <2>2. CASE RequiresWritingCheckpoint(p) \/ RequiresReadingCheckpoint(p)
    BY <1>1, <2>2, CheckpointAgrees
  <2>3. CASE Finalize(p)
    BY <1>1, <2>3, FinalizeAgrees
  <2>4. CASE ReceivePing(p)
    BY <1>1, <2>4, ReceivePingAgrees
  <2>5. CASE ReceivePong(p)
    BY <1>1, <2>5, ReceivePongAgrees
  <2> QED
    BY <1>9, <2>1, <2>2, <2>3, <2>4, <2>5 DEF ApiCall
<1> QED
  BY <1>3, <1>4, <1>5, <1>6, <1>7, <1>8, <1>9 DEF Participant

\* After an error of Second, First sends at most the data of its round, and
\* then waits for an answer until it has the error as well.
LEMMA BrokenStep ==
  ASSUME TypeOK, Broken, NEW p \in Participants, Participant(p)
  PROVE  /\ Broken' /\ p = First /\ pc'[p] # "solving"
         /\ UNCHANGED <<config, scheme, written, received>>
<1>1. /\ First # Second /\ config' = config /\ UNCHANGED Implicit
      /\ Other(First) = Second /\ First \in Participants
  BY ConfigTypes DEF TypeOK, Participant, Implicit, Other, Participants
<1>2. CASE p = Second
  <2>1. pc[p] = "failed"
    BY <1>2 DEF Broken
  <2> QED
    BY <2>1 DEF Participant, Initialize, InitSend, InitSendData, InitReceive, InitReceiveData,
       Advance, FirstSendsData, SecondReceivesData, SendConvergence, SecondSendsData,
       ReceiveConvergence, FirstReceivesData, ApiCall, RequiresWritingCheckpoint,
       RequiresReadingCheckpoint, Finalize, ReceivePing, ReceivePong, LosePartner, At,
       ExchangeSteps
<1>3. CASE p = First
  <2>1. /\ pc[First] \in {"sendData", "receiveConvergence", "failed"} /\ channel[First] = <<>>
        /\ pc[Second] = "failed" /\ Implicit
    BY DEF Broken
  <2>2. FirstSendsData(First) \/ LosePartner(First)
    BY <1>1, <1>3, <2>1 DEF Participant, Initialize, InitSend, InitSendData, InitReceive,
       InitReceiveData, Advance, SecondReceivesData, SendConvergence, SecondSendsData,
       ReceiveConvergence, FirstReceivesData, ApiCall, RequiresWritingCheckpoint,
       RequiresReadingCheckpoint, Finalize, ReceivePing, ReceivePong, At, HasMessage
  <2>3. CASE FirstSendsData(First)
    <3>1. /\ SendStored(First, written[First]) /\ UNCHANGED <<scheme, written, received>>
          /\ pc' = [pc EXCEPT ![First] = "receiveConvergence"]
      BY <2>1, <2>3 DEF FirstSendsData, Goto
    <3>2. channel'[First] = <<>>
      BY <1>1, <2>1, <3>1, SendsData
    <3> QED
      BY <1>1, <1>3, <2>1, <3>1, <3>2 DEF Broken, TypeOK
  <2>4. CASE LosePartner(First)
    <3>1. /\ UNCHANGED <<scheme, written, received, channel>>
          /\ pc' = [pc EXCEPT ![First] = "failed"]
      BY <2>4 DEF LosePartner, Goto
    <3> QED
      BY <1>1, <1>3, <2>1, <3>1 DEF Broken, TypeOK
  <2> QED
    BY <2>2, <2>3, <2>4
<1> QED
  BY <1>2, <1>3 DEF Participants

\* The first round is agreed on before anything is sent.
LEMMA InitAgrees ==
  ASSUME Init
  PROVE  \E L \in Ledgers : Agree(L)
<1>1. TypeOK /\ config \in Configurations
  BY InitConsistent DEF IInv, TypeOK
<1>2. PICK L \in Ledgers :
        Kept(L, 1) /\ \A p \in Participants : Tracks(L, p, "constructed", Constructed(p))
  BY <1>1, FirstRound
<1>3. ASSUME NEW p \in Participants
      PROVE  /\ Joins(L, p, pc[p], scheme[p])
             /\ LeavesInOrder(p, pc[p], pc[Other(p)])
             /\ Delivers(L, p, pc[p], scheme[p], pc[Other(p)], scheme[Other(p)], channel[p])
  <2>1. Other(p) \in Participants /\ Other(Other(p)) = p
    BY <1>1, Others
  <2>2. /\ pc[p] = "constructed" /\ scheme[p] = Constructed(p) /\ channel[p] = <<>>
        /\ pc[Other(p)] = "constructed"
    BY <2>1 DEF Init
  <2>3. Joins(L, p, pc[p], scheme[p])
    BY <1>2, <2>2 DEF Joins, ParallelPlaces, Told
  <2>4. Beginning(p) \in Nat
    <3>1. 0 \in Nat /\ 1 \in Nat /\ 1 >= 1
      OBVIOUS
    <3>2. Data(p, 0) \in Nat /\ Header(p, 1) \in Nat
      BY <3>1, Positions
    <3> QED
      BY <3>2 DEF Beginning
  <2>5. LeavesInOrder(p, pc[p], pc[Other(p)]) /\ Bye(p, pc[p], pc[Other(p)]) = "nothing"
    BY <2>2 DEF LeavesInOrder, Bye
  <2>6. \A d : ReadAt(p, "constructed", d) = Beginning(p)
               /\ SentAt(Other(p), "constructed", d) = Beginning(p)
    BY <2>1 DEF ReadAt, SentAt
  <2>7. Carries(L, p, <<>>, Beginning(p), Beginning(p), "nothing")
    BY <2>4 DEF Carries
  <2> QED
    BY <2>2, <2>3, <2>5, <2>6, <2>7 DEF Delivers
<1> QED
  BY <1>3 DEF Agree

\* What changes nothing keeps the agreement.
LEMMA StutterAgrees ==
  ASSUME NEW L \in Ledgers, Agree(L), UNCHANGED vars
  PROVE  Agree(L)'
<1>1. UNCHANGED <<config, pc, scheme, channel>>
  BY DEF vars
<1> SUFFICES ASSUME NEW p \in Participants
             PROVE  /\ Joins(L, p, pc[p], scheme[p])'
                    /\ LeavesInOrder(p, pc[p], pc[Other(p)])'
                    /\ Delivers(L, p, pc[p], scheme[p], pc[Other(p)], scheme[Other(p)],
                                channel[p])'
  BY DEF Agree, Participants
<1>2. /\ Joins(L, p, pc[p], scheme[p])
      /\ LeavesInOrder(p, pc[p], pc[Other(p)])
      /\ Delivers(L, p, pc[p], scheme[p], pc[Other(p)], scheme[Other(p)], channel[p])
  BY DEF Agree
<1> QED
  BY <1>1, <1>2, JoinsNext

\* In every reachable state there is one ledger of rounds that both participants
\* go by and that all messages on their way tell of, unless a strict measure has
\* ended the coupling.
LEMMA ParallelAgreement == Init /\ [][Next]_vars => []Agreement
<1>1. Init => Agreement
  BY InitConsistent, InitAgrees DEF Agreement
<1>2. Agreement /\ [Next]_vars => Agreement'
  <2> SUFFICES ASSUME Agreement, [Next]_vars PROVE Agreement'
    OBVIOUS
  <2>1. CASE UNCHANGED vars
    <3>1. IInv' /\ (Broken => Broken')
      BY <2>1, StutterStep DEF Agreement, Broken, Implicit, vars
    <3>2. ASSUME NEW L \in Ledgers, Agree(L) PROVE \E K \in Ledgers : Agree(K)'
      BY <2>1, <3>2, StutterAgrees
    <3> QED
      BY <3>1, <3>2 DEF Agreement, Ledgers, Entries
  <2>2. ASSUME NEW p \in Participants, Participant(p) PROVE Agreement'
    <3>1. IInv /\ IInv' /\ TypeOK
      BY <2>2, ParticipantStep DEF Agreement, IInv
    <3>2. Broken => Broken'
      BY <2>2, <3>1, BrokenStep
    <3>3. ASSUME NEW L \in Ledgers, Agree(L)
          PROVE  Broken' \/ \E K \in Ledgers : Agree(K)'
      BY <2>2, <3>1, <3>3, AgreementStep
    <3> QED
      BY <3>1, <3>2, <3>3 DEF Agreement, Ledgers, Entries
  <2> QED
    BY <2>1, <2>2 DEF Next
<1> QED
  BY <1>1, <1>2, PTL

--------------------------------------------------------------------------------
(* What the agreement gives *)

\* Whoever waits in an exchange has not read all that is sent to it, once there
\* is something.
LEMMA WaitsForMessage ==
  ASSUME TypeOK, NEW L \in Ledgers, Agree(L), NEW p \in Participants, channel[p] # <<>>,
         pc[p] \in {"receiveData", "initReceiveData", "receiveConvergence"},
         pc[p] \in {"receiveData", "initReceiveData"} => HasData(p)
  PROVE  Fits(L, p, ReadAt(p, pc[p], scheme[p]), Head(channel[p]))
<1> DEFINE q == Other(p)
           r == RoundAt(pc[p], scheme[p])
           s == RoundAt(pc[q], scheme[q])
           n == ReadAt(p, pc[p], scheme[p])
           m == SentAt(q, pc[q], scheme[q])
<1>1. /\ config \in Configurations /\ q \in Participants /\ Other(q) = p
      /\ Joins(L, p, pc[p], scheme[p]) /\ Joins(L, q, pc[q], scheme[q])
      /\ Tracks(L, p, pc[p], scheme[p]) /\ Tracks(L, q, pc[q], scheme[q])
      /\ r \in Nat \ {0} /\ s \in Nat \ {0} /\ channel[p] \in Seq(Messages)
  BY Others, AgreeAt DEF TypeOK
<1>2. /\ pc[p] \in ExchangeSteps \cup Early /\ pc[p] \notin Leaving /\ pc[p] # "receivePong"
      /\ (pc[p] = "initReceiveData" => r = 1)
  <2>1. pc[p] \in Early => r = 1
    BY <1>1 DEF Tracks, InRound
  <2> QED
    BY <2>1 DEF ExchangeSteps, Early, InitializeSteps, Leaving
<1>3. Carries(L, p, channel[p], n, m, Bye(p, pc[p], pc[q]))
  BY <1>1, <1>2, Streams
<1>4. n < m
  <2>1. CASE Bye(p, pc[p], pc[q]) = "nothing"
    <3>1. Len(channel[p]) = m - n /\ m \in Nat /\ n \in Nat /\ n <= m
      BY <1>3, <2>1 DEF Carries
    <3>2. Len(channel[p]) # 0
      BY <1>1
    <3> QED
      BY <3>1, <3>2
  <2>2. CASE Bye(p, pc[p], pc[q]) # "nothing"
    <3>1. pc[q] \in Leaving
      BY <1>2, <2>2 DEF Bye, Leaving
    <3>2. r < s
      BY <1>1, <1>2, <3>1, LeftLast
    <3>3. m = Header(p, s)
      BY <1>1, <3>1, Bounds
    <3>4. /\ Header(p, r + 1) <= Header(p, s) /\ Header(p, r + 1) \in Nat /\ Header(p, s) \in Nat
          /\ Data(p, r) <= Header(p, r + 1)
      <4>1. Header(p, r + 1) \in Nat /\ Header(p, s) \in Nat
        <5>1. s >= 1 /\ s \in Nat /\ r + 1 \in Nat /\ r + 1 >= 1
          BY <1>1
        <5> QED
          BY <5>1, Positions
      <4> QED
        BY <1>1, <3>2, <4>1, PositionsInOrder
    <3>5. n < Header(p, r + 1)
      <4>1. CASE pc[p] = "receiveData"
        <5>1. n = Data(p, r)
          BY <4>1 DEF ReadAt
        <5>2. Header(p, r + 1) = Data(p, r) + 1 /\ Data(p, r) \in Nat
          BY <1>1, <4>1, Positions
        <5> QED
          BY <5>1, <5>2
      <4>2. CASE pc[p] = "initReceiveData"
        <5>1. n = Data(p, 0) /\ HasData(p) /\ r = 1
          BY <1>2, <4>2 DEF ReadAt
        <5>2. 0 \in Nat /\ 0 < r
          BY <1>1
        <5>3. Header(p, 0 + 1) = Data(p, 0) + 1 /\ Data(p, 0) \in Nat
          BY <5>1, <5>2, Positions
        <5>4. Header(p, 0 + 1) <= Header(p, r) /\ Header(p, r) <= Data(p, r)
          BY <1>1, <5>2, PositionsInOrder
        <5>5. Header(p, r) \in Nat /\ Data(p, r) \in Nat /\ Header(p, 0 + 1) \in Nat
          <6>1. r >= 1 /\ 0 + 1 \in Nat /\ 0 + 1 >= 1
            BY <1>1
          <6> QED
            BY <1>1, <6>1, Positions
        <5> QED
          BY <3>4, <5>1, <5>3, <5>4, <5>5
      <4>3. CASE pc[p] = "receiveConvergence"
        <5>1. n = Header(p, r) /\ HasHeader(p)
          <6>1. Implicit /\ p = First
            BY <1>1, <4>3 DEF Joins, ParallelPlaces, Leaving
          <6> QED
            BY <4>3, <6>1 DEF ReadAt, HasHeader
        <5>2. Data(p, r) = Header(p, r) + 1 /\ Header(p, r) \in Nat /\ Data(p, r) \in Nat
          <6>1. r >= 1
            BY <1>1
          <6> QED
            BY <1>1, <5>1, <6>1, Positions
        <5> QED
          BY <3>4, <5>1, <5>2
      <4> QED
        BY <4>1, <4>2, <4>3
    <3>6. n \in Nat
      BY <1>3 DEF Carries
    <3> QED
      BY <3>3, <3>4, <3>5, <3>6
  <2> QED
    BY <2>1, <2>2
<1> QED
  BY <1>1, <1>3, <1>4, NextMessage

\* What comes next is what the receive at hand is meant for.
LEMMA AgreedExpectedMessage ==
  ASSUME Agreement
  PROVE  ExpectedMessage
<1>1. TypeOK /\ config \in Configurations /\ First # Second
  BY ConfigTypes DEF Agreement, IInv, TypeOK
<1> SUFFICES ASSUME NEW p \in Participants, channel[p] # <<>>, Awaits(pc[p]) # "nothing",
                    Awaits(pc[p]) = "data" => HasData(p)
             PROVE  Head(channel[p]).kind = Awaits(pc[p])
  BY DEF ExpectedMessage, HasData
<1>2. CASE Broken
  <2>1. p = Second
    BY <1>2 DEF Broken, Participants
  <2>2. pc[p] = "failed"
    BY <1>2, <2>1 DEF Broken
  <2> QED
    BY <2>2 DEF Awaits
<1>3. ASSUME NEW L \in Ledgers, Agree(L)
      PROVE  Head(channel[p]).kind = Awaits(pc[p])
  <2> DEFINE q == Other(p)
             r == RoundAt(pc[p], scheme[p])
  <2>1. /\ q \in Participants /\ Other(q) = p /\ channel[p] \in Seq(Messages)
        /\ Joins(L, p, pc[p], scheme[p]) /\ Tracks(L, p, pc[p], scheme[p])
        /\ r \in Nat \ {0} /\ LeavesInOrder(p, pc[p], pc[q])
        /\ Delivers(L, p, pc[p], scheme[p], pc[q], scheme[q], channel[p])
    BY <1>1, <1>3, Others, AgreeAt
  <2>2. pc[p] \in {"receiveData", "initReceiveData", "receiveConvergence",
                   "receivePing", "receivePong"}
    BY <2>1 DEF Awaits, Joins, ParallelPlaces, Leaving
  <2>3. CASE pc[p] \in {"receiveData", "initReceiveData"}
    <3>1. HasData(p) /\ Awaits(pc[p]) = "data"
      BY <2>3 DEF Awaits
    <3>2. Fits(L, p, ReadAt(p, pc[p], scheme[p]), Head(channel[p]))
      BY <1>1, <1>3, <2>3, <3>1, WaitsForMessage
    <3>3. \E k \in Nat : ReadAt(p, pc[p], scheme[p]) = Data(p, k)
      BY <2>1, <2>3 DEF ReadAt
    <3> QED
      BY <3>1, <3>2, <3>3 DEF Fits
  <2>4. CASE pc[p] = "receiveConvergence"
    <3>1. Implicit /\ p = First
      BY <2>1, <2>4 DEF Joins, ParallelPlaces, Leaving
    <3>2. Fits(L, p, ReadAt(p, pc[p], scheme[p]), Head(channel[p]))
      BY <1>1, <1>3, <2>4, WaitsForMessage
    <3>3. ReadAt(p, pc[p], scheme[p]) = Header(p, r) /\ HasHeader(p)
      BY <2>4, <3>1 DEF ReadAt, HasHeader
    <3>4. Tells(p, L[r], Head(channel[p]))
      BY <2>1, <3>2, <3>3 DEF Fits
    <3> QED
      BY <1>1, <2>4, <3>1, <3>4 DEF Tells, Awaits
  <2>5. CASE pc[p] \in {"receivePing", "receivePong"}
    <3>1. ~Open(L[r]) /\ pc[p] \in Leaving
      BY <2>1, <2>5 DEF Tracks, InRound, Leaving
    <3>2. /\ ReadAt(p, pc[p], scheme[p]) = Header(p, r)
          /\ SentAt(q, pc[q], scheme[q]) = Header(p, r)
      BY <1>1, <1>3, <3>1, AllIsRead
    <3>3. Carries(L, p, channel[p], Header(p, r), Header(p, r), Bye(p, pc[p], pc[q]))
      BY <2>1, <3>2 DEF Delivers
    <3>4. Head(channel[p]).kind = Bye(p, pc[p], pc[q]) /\ Bye(p, pc[p], pc[q]) # "nothing"
      BY <2>1, <3>3, GoodbyeIsRead
    <3> QED
      BY <2>1, <2>5, <3>4 DEF LeavesInOrder, Bye, Awaits
  <2> QED
    BY <2>2, <2>3, <2>4, <2>5
<1> QED
  BY <1>2, <1>3 DEF Agreement

\* Who is finalized has done the windows of the last round and no more.
LEMMA AgreedEndTogether ==
  ASSUME Agreement
  PROVE  EndTogether
<1> SUFFICES ASSUME \A p \in Participants : pc[p] = "finalized"
             PROVE  /\ scheme[First].timeWindows = scheme[Second].timeWindows
                    /\ Time!TimeOf(scheme[First].time) = Time!TimeOf(scheme[Second].time)
                    /\ \A p \in Participants : channel[p] = <<>>
  BY DEF EndTogether
<1>1. /\ TypeOK /\ config \in Configurations /\ First \in Participants /\ Second \in Participants
      /\ First # Second
  BY ConfigTypes DEF Agreement, IInv, TypeOK, Participants
<1>2. PICK L \in Ledgers : Agree(L)
  BY <1>1 DEF Agreement, Broken
<1> DEFINE r(p) == RoundAt(pc[p], scheme[p])
<1>3. "finalized" \in Leaving /\ "finalized" \notin ExchangeSteps
  BY DEF Leaving, ExchangeSteps
<1>4. ASSUME NEW p \in Participants
      PROVE  /\ Tracks(L, p, pc[p], scheme[p]) /\ r(p) \in Nat \ {0} /\ ~Open(L[r(p)])
             /\ scheme[p].time.progress = 0 /\ scheme[p].timeWindows = L[r(p)].window
             /\ Time!TimeOf(scheme[p].time) = L[r(p)].start /\ channel[p] = <<>>
  <2>1. /\ Other(p) \in Participants /\ Tracks(L, p, pc[p], scheme[p]) /\ r(p) \in Nat \ {0}
        /\ scheme[p] \in Schemes /\ channel[p] \in Seq(Messages)
        /\ pc[p] = "finalized" /\ pc[Other(p)] = "finalized"
        /\ Delivers(L, p, pc[p], scheme[p], pc[Other(p)], scheme[Other(p)], channel[p])
    BY <1>1, <1>2, AgreeAt
  <2>2. /\ ~Open(L[r(p)]) /\ scheme[p].time.progress = 0
        /\ scheme[p].timeWindows = L[r(p)].window /\ scheme[p].time.start = L[r(p)].start
    BY <1>3, <2>1 DEF Tracks, InRound, WindowAt
  <2>3. Time!TimeOf(scheme[p].time) = L[r(p)].start
    BY <2>1, <2>2 DEF Time!TimeOf, Schemes, Time!TimeHandlers
  <2>4. /\ ReadAt(p, pc[p], scheme[p]) = Header(p, r(p))
        /\ SentAt(Other(p), pc[Other(p)], scheme[Other(p)]) = Header(p, r(p))
    BY <1>1, <1>2, <1>3, <2>1, <2>2, AllIsRead
  <2>5. Bye(p, pc[p], pc[Other(p)]) = "nothing"
    BY <2>1 DEF Bye
  <2>6. channel[p] = <<>>
    BY <2>1, <2>4, <2>5, GoodbyeIsRead DEF Delivers
  <2> QED
    BY <2>1, <2>2, <2>3, <2>6
<1>5. r(First) <= r(Second) /\ r(Second) <= r(First)
  BY <1>1, <1>4, NobodyIsAhead
<1>6. r(First) = r(Second)
  BY <1>1, <1>4, <1>5
<1> QED
  BY <1>1, <1>4, <1>6

\* The step of a participant that ends its round is its secondExchange().
LEMMA FinishStep ==
  ASSUME TypeOK, NEW L \in Ledgers, Agree(L), NEW p \in Participants, Participant(p),
         NEW x \in Participants, pc[x] \in ExchangeSteps, pc'[x] = "solving"
  PROVE  /\ x = p /\ pc[p] = Told(p) /\ scheme'[Other(p)] = scheme[Other(p)]
         /\ p = First => CanReceiveData(p)
         /\ \E c \in Schemes : Alike(scheme[p], c) /\ scheme'[p] = SecondExchange(c)
<1>1. /\ scheme[p] \in Schemes /\ Other(p) \in Participants /\ Other(p) # p
      /\ config \in Configurations /\ "solving" \notin ExchangeSteps /\ First # Second
      /\ \A y \in Participants : y = p \/ y = Other(p)
  BY Others, Types, ConfigTypes DEF TypeOK, ExchangeSteps
<1>2. \E place : pc' = [pc EXCEPT ![p] = place]
  BY Unchanged DEF Participant, Initialize, InitSend, InitSendData, InitReceive, InitReceiveData,
     Advance, FirstSendsData, SecondReceivesData, SendConvergence, SecondSendsData,
     ReceiveConvergence, FirstReceivesData, FinishAdvance, ApiCall, RequiresWritingCheckpoint,
     RequiresReadingCheckpoint, Finalize, CloseCommunicationChannels, ReceivePing, ReceivePong,
     LosePartner, Goto
<1>3. x = p /\ pc[p] \in ExchangeSteps /\ pc'[p] = "solving"
  BY <1>1, <1>2 DEF TypeOK
<1>4. SecondSendsData(p) \/ FirstReceivesData(p)
  <2>1. pc[p] \notin {"constructed", "initSendData", "initReceiveData", "solving",
                      "receivePing", "receivePong"}
    BY <1>3 DEF ExchangeSteps
  <2>2. ~(Initialize(p, InitialExchange(p)) \/ InitSend(p) \/ InitReceive(p)
          \/ Advance(p, ExchangeFirstData(p)) \/ RequiresWritingCheckpoint(p)
          \/ RequiresReadingCheckpoint(p) \/ Finalize(p) \/ ReceivePing(p) \/ ReceivePong(p))
    BY <2>1 DEF Initialize, InitSend, InitSendData, InitReceive, InitReceiveData, Advance,
       RequiresWritingCheckpoint, RequiresReadingCheckpoint, Finalize, ReceivePing, ReceivePong, At
  <2>3. ~(FirstSendsData(p) \/ SecondReceivesData(p) \/ SendConvergence(p)
          \/ ReceiveConvergence(p) \/ LosePartner(p))
    BY <1>3 DEF FirstSendsData, SecondReceivesData, SendConvergence, ReceiveConvergence,
       LosePartner, Goto, TypeOK
  <2> QED
    BY <2>2, <2>3 DEF Participant, ApiCall
<1>5. CASE SecondSendsData(p)
  <2>1. /\ p = Second /\ pc[p] = "sendData"
        /\ scheme' = [scheme EXCEPT ![p] = SecondExchange(scheme[p])]
    BY <1>5 DEF SecondSendsData, At, FinishAdvance
  <2>2. Alike(scheme[p], scheme[p])
    BY DEF Alike
  <2> QED
    BY <1>1, <1>3, <2>1, <2>2 DEF Told, TypeOK
<1>6. CASE FirstReceivesData(p)
  <2> DEFINE c == NotifyDataHasBeenReceived(scheme[p])
  <2>1. /\ p = First /\ pc[p] = "receiveData" /\ CanReceiveData(p)
        /\ scheme' = [scheme EXCEPT ![p] = SecondExchange(c)]
    BY <1>6 DEF FirstReceivesData, At, FinishAdvance
  <2>2. c \in Schemes /\ Alike(scheme[p], c)
    BY <1>1, AlikeMembers, NotifyMembers
  <2> HIDE DEF c
  <2> QED
    BY <1>1, <1>3, <2>1, <2>2 DEF Told, TypeOK
<1> QED
  BY <1>4, <1>5, <1>6

\* Who ends its round has done all of it, with the verdict of the ledger.
LEMMA FinishKnows ==
  ASSUME TypeOK, NEW L \in Ledgers, Agree(L), NEW p \in Participants, pc[p] = Told(p),
         NEW c, Alike(scheme[p], c), NEW e, e = L[RoundAt(pc[p], scheme[p])]
  PROVE  /\ pc[p] \in ExchangeSteps /\ e \in Entries /\ Proper(e)
         /\ InRound(p, pc[p], c, e) /\ RoundAt(pc[p], c) = RoundAt(pc[p], scheme[p])
         /\ Complete(c) <=> Done(e)
         /\ Implicit => Judged(e) /\ c.hasConverged = e.converged
<1>1. /\ Joins(L, p, pc[p], scheme[p]) /\ InRound(p, pc[p], scheme[p], e)
      /\ e \in Entries /\ Proper(e)
  BY AgreeAt
<1>2. InRound(p, pc[p], c, e) /\ RoundAt(pc[p], c) = RoundAt(pc[p], scheme[p])
  BY <1>1, InRoundAlike
<1>3. Implicit => Judged(e) /\ c.hasConverged = e.converged
  BY <1>1 DEF Joins, Alike
<1>4. Complete(c) <=> Done(e)
  BY <1>3 DEF Complete, Done
<1>5. pc[p] \in ExchangeSteps
  BY DEF Told, ExchangeSteps
<1> QED
  BY <1>1, <1>2, <1>3, <1>4, <1>5

\* A time window of an implicit scheme is complete within the iteration limits.
LEMMA AgreedIterations ==
  ASSUME Agreement, [Next]_vars
  PROVE  \A p \in Participants :
           Implicit /\ pc[p] \in ExchangeSteps /\ pc'[p] = "solving"
                    /\ scheme'[p].isTimeWindowComplete =>
             /\ scheme[p].iterations >= MinIterations
             /\ MaxIterations # Undefined => scheme[p].iterations <= MaxIterations
<1> SUFFICES ASSUME NEW p \in Participants, Implicit, pc[p] \in ExchangeSteps,
                    pc'[p] = "solving", scheme'[p].isTimeWindowComplete
             PROVE  /\ scheme[p].iterations >= MinIterations
                    /\ MaxIterations # Undefined => scheme[p].iterations <= MaxIterations
  OBVIOUS
<1>1. TypeOK /\ "solving" \notin ExchangeSteps
  BY DEF Agreement, IInv, ExchangeSteps
<1>2. PICK x \in Participants : Participant(x)
  BY <1>1 DEF Next, vars
<1>3. ~Broken
  <2> SUFFICES ASSUME Broken PROVE FALSE
    OBVIOUS
  <2>1. pc'[x] # "solving" /\ x = First /\ Broken'
    BY <1>1, <1>2, BrokenStep
  <2> QED
    BY <2>1 DEF Broken, Participants
<1>4. PICK L \in Ledgers : Agree(L)
  BY <1>3 DEF Agreement
<1>5. p = x /\ pc[p] = Told(p) /\ \E c \in Schemes : Alike(scheme[p], c) /\ scheme'[p] = SecondExchange(c)
  BY <1>1, <1>2, <1>4, FinishStep
<1>6. PICK c \in Schemes : Alike(scheme[p], c) /\ scheme'[p] = SecondExchange(c)
  BY <1>5
<1> DEFINE e == L[RoundAt(pc[p], scheme[p])]
<1>7. /\ InRound(p, pc[p], c, e) /\ Judged(e) /\ c.hasConverged = e.converged /\ Proper(e)
  BY <1>1, <1>4, <1>5, <1>6, FinishKnows
<1>8. Complete(c)
  BY <1>6, SecondExchangeMembers
<1>9. e.converged /\ e.iteration = scheme[p].iterations
  BY <1>6, <1>7, <1>8 DEF Complete, InRound, Alike
<1> QED
  BY <1>7, <1>9 DEF Judged, Proper

\* Where a participant is, before a step
LEMMA PositionBefore ==
  ASSUME TypeOK, NEW L \in Ledgers, Agree(L), NEW p \in Participants,
         NEW r, r = RoundAt(pc[p], scheme[p])
  PROVE  Position(p) = [round |-> r, window |-> L[r].window]
         /\ WindowAt(pc[p], scheme[p]) = L[r].window
<1>1. /\ scheme[p] \in Schemes /\ L[r] \in Entries /\ Proper(L[r])
      /\ InRound(p, pc[p], scheme[p], L[r]) /\ config \in Configurations
  BY AgreeAt DEF TypeOK
<1>2. PositionOf(scheme[p]) = [round |-> r, window |-> WindowAt(pc[p], scheme[p])]
  BY <1>1, PositionInRound
<1>3. Position(p) = PositionOf(scheme[p])
  BY DEF Position, PositionOf
<1> QED
  BY <1>1, <1>2, <1>3 DEF InRound

\* Where it is after the step
LEMMA PositionAfter ==
  ASSUME Agreement', config' = config, NEW p \in Participants, pc'[p] # "failed",
         pc'[Second] # "failed"
  PROVE  Position(p)' = [round |-> RoundAt(pc'[p], scheme'[p]),
                         window |-> WindowAt(pc'[p], scheme'[p])]
<1>1. scheme'[p] \in Schemes /\ config \in Configurations /\ ~Broken'
  BY DEF Agreement, IInv, TypeOK, Broken
<1>2. PICK K \in Ledgers : Agree(K)'
  BY <1>1 DEF Agreement, Ledgers, Entries
<1>3. Joins(K, p, pc[p], scheme[p])'
  BY <1>2 DEF Agree, Participants
<1>4. Joins(K, p, pc'[p], scheme'[p])
  BY <1>3, JoinsNext
<1> DEFINE e == K[RoundAt(pc'[p], scheme'[p])]
<1>5. InRound(p, pc'[p], scheme'[p], e) /\ Proper(e) /\ e \in Entries
  BY <1>4 DEF Joins, Tracks, Kept, Ledgers
<1> HIDE DEF e
<1>6. PositionOf(scheme'[p]) = [round |-> RoundAt(pc'[p], scheme'[p]),
                                window |-> WindowAt(pc'[p], scheme'[p])]
  BY <1>1, <1>5, PositionInRound
<1> QED
  BY <1>6, PositionNext

\* All other steps leave the participant in its round and its window.
LEMMA GoesOn ==
  ASSUME TypeOK, NEW L \in Ledgers, Agree(L), NEW p \in Participants, Participant(p),
         ~(pc[p] \in ExchangeSteps /\ pc'[p] = "solving")
  PROVE  \/ scheme' = scheme
         \/ /\ scheme'[Other(p)] = scheme[Other(p)] /\ pc'[p] # "failed"
            /\ pc'[Other(p)] = pc[Other(p)]
            /\ RoundAt(pc'[p], scheme'[p]) = RoundAt(pc[p], scheme[p])
            /\ WindowAt(pc'[p], scheme'[p]) = WindowAt(pc[p], scheme[p])
<1> DEFINE Stays(place, c) ==
             /\ pc' = [pc EXCEPT ![p] = place] /\ scheme' = [scheme EXCEPT ![p] = c]
             /\ place # "failed" /\ (place \in ExchangeSteps <=> pc[p] \in ExchangeSteps)
             /\ c.timeWindows = scheme[p].timeWindows
             /\ c.totalIterations = scheme[p].totalIterations
<1>1. /\ scheme[p] \in Schemes /\ Other(p) \in Participants /\ Other(p) # p
      /\ config \in Configurations
  BY Others, Types DEF TypeOK
<1>2. ASSUME NEW place, NEW c, Stays(place, c)
      PROVE  /\ scheme'[Other(p)] = scheme[Other(p)] /\ pc'[p] # "failed"
             /\ pc'[Other(p)] = pc[Other(p)]
             /\ RoundAt(pc'[p], scheme'[p]) = RoundAt(pc[p], scheme[p])
             /\ WindowAt(pc'[p], scheme'[p]) = WindowAt(pc[p], scheme[p])
  <2>1. /\ scheme'[p] = c /\ pc'[p] = place /\ scheme'[Other(p)] = scheme[Other(p)]
        /\ pc'[Other(p)] = pc[Other(p)]
    BY <1>1, <1>2 DEF TypeOK
  <2> QED
    BY <1>2, <2>1 DEF RoundAt, WindowAt
<1>3. CASE Initialize(p, InitialExchange(p))
  <2> DEFINE c == [scheme[p] EXCEPT
               !.fulfilledActions = @ \cup scheme[p].requiredActions,
               !.requiredActions = @ \cup (IF Implicit THEN {"WriteCheckpoint"} ELSE {})]
  <2>1. /\ pc[p] = "constructed" /\ scheme' = [scheme EXCEPT ![p] = c]
        /\ pc' = [pc EXCEPT ![p] = InitialExchange(p)]
    BY <1>1, <1>3 DEF Initialize, Goto, TypeOK
  <2>2. /\ c.timeWindows = scheme[p].timeWindows
        /\ c.totalIterations = scheme[p].totalIterations
    BY <1>1 DEF Schemes
  <2>3. /\ InitialExchange(p) # "failed" /\ InitialExchange(p) \notin ExchangeSteps
        /\ pc[p] \notin ExchangeSteps
    BY <2>1 DEF InitialExchange, ExchangeSteps
  <2> QED
    BY <1>2, <2>1, <2>2, <2>3
<1>4. CASE InitReceive(p)
  <2> DEFINE c == NotifyDataHasBeenReceived(scheme[p])
             place == IF p = Second /\ Second \in Initializes THEN "initSendData" ELSE "solving"
  <2>1. /\ pc[p] = "initReceiveData" /\ scheme' = [scheme EXCEPT ![p] = c]
        /\ pc' = [pc EXCEPT ![p] = place]
    BY <1>4 DEF InitReceive, InitReceiveData, At, Goto
  <2>2. Alike(scheme[p], c)
    BY <1>1, AlikeMembers
  <2>3. Stays(place, c)
    BY <2>1, <2>2 DEF Alike, ExchangeSteps
  <2> QED
    BY <1>2, <2>3
<1>5. CASE Advance(p, ExchangeFirstData(p))
  <2>1. PICK dt \in 1 .. StepBound :
          LET a == AddComputedTime(scheme[p], dt)
          IN  /\ scheme' = [scheme EXCEPT ![p] = FirstExchange(a)]
              /\ Goto(p, IF ReachedEndOfTimeWindow(a) THEN ExchangeFirstData(p) ELSE "solving")
    BY <1>5 DEF Advance
  <2> DEFINE a == AddComputedTime(scheme[p], dt)
             d == FirstExchange(a)
             place == IF ReachedEndOfTimeWindow(a) THEN ExchangeFirstData(p) ELSE "solving"
  <2>2. dt \in Nat
    BY ConfigAssumption
  <2>3. /\ scheme'[p] = d /\ scheme'[Other(p)] = scheme[Other(p)]
        /\ pc'[p] = place /\ pc'[Other(p)] = pc[Other(p)] /\ pc[p] = "solving"
    BY <1>1, <1>5, <2>1 DEF Goto, TypeOK, Advance, At
  <2>4. /\ d.timeWindows = IF ReachedEndOfTimeWindow(a) THEN scheme[p].timeWindows + 1
                           ELSE scheme[p].timeWindows
        /\ d.totalIterations = scheme[p].totalIterations
    BY <1>1, <2>2, AdvanceMembers
  <2>5. place \in ExchangeSteps <=> ReachedEndOfTimeWindow(a)
    BY DEF ExchangeFirstData, ExchangeSteps
  <2>6. place # "failed" /\ "solving" \notin ExchangeSteps
    BY DEF ExchangeFirstData, ExchangeSteps
  <2> HIDE DEF a, d, place
  <2>7. WindowAt(place, d) = WindowAt("solving", scheme[p])
    BY <1>1, <2>4, <2>5, <2>6 DEF WindowAt, Schemes
  <2> QED
    BY <2>3, <2>4, <2>6, <2>7 DEF RoundAt
<1>6. CASE InitSend(p) \/ FirstSendsData(p) \/ ReceivePing(p) \/ ReceivePong(p) \/ LosePartner(p)
  BY <1>6 DEF InitSend, InitSendData, FirstSendsData, ReceivePing, ReceivePong, LosePartner
<1>7. CASE SecondReceivesData(p)
  <2> DEFINE c == NotifyDataHasBeenReceived(scheme[p])
             place == IF Implicit THEN "sendConvergence" ELSE "sendData"
  <2>1. /\ pc[p] = "receiveData" /\ scheme' = [scheme EXCEPT ![p] = c]
        /\ pc' = [pc EXCEPT ![p] = place]
    BY <1>7 DEF SecondReceivesData, At, Goto, TypeOK
  <2>2. Alike(scheme[p], c)
    BY <1>1, AlikeMembers
  <2>3. Stays(place, c)
    BY <2>1, <2>2 DEF Alike, ExchangeSteps
  <2> QED
    BY <1>2, <2>3
<1>8. CASE SendConvergence(p)
  <2>1. PICK converged \in SUBSET Measuring :
          LET c == DoImplicitStep(scheme[p], converged)
          IN  IF StrictMeasureFails(scheme[p], converged)
              THEN UNCHANGED scheme
              ELSE /\ Goto(p, "sendData") /\ scheme' = [scheme EXCEPT ![p] = c]
    BY <1>8 DEF SendConvergence
  <2> DEFINE c == DoImplicitStep(scheme[p], converged)
  <2>2. /\ c.timeWindows = scheme[p].timeWindows
        /\ c.totalIterations = scheme[p].totalIterations
    BY <1>1, DoImplicitStepMembers
  <2>3. pc[p] = "sendConvergence"
    BY <1>8 DEF SendConvergence, At
  <2> HIDE DEF c
  <2>4. scheme' = scheme \/ Stays("sendData", c)
    BY <2>1, <2>2, <2>3 DEF c, Goto, ExchangeSteps
  <2> QED
    BY <1>2, <2>4
<1>9. CASE ReceiveConvergence(p)
  <2> DEFINE c == [scheme[p] EXCEPT !.hasConverged = Head(channel[p]).hasConverged]
  <2>1. /\ pc[p] = "receiveConvergence" /\ scheme' = [scheme EXCEPT ![p] = c]
        /\ pc' = [pc EXCEPT ![p] = "receiveData"]
    BY <1>9 DEF ReceiveConvergence, At, Goto, TypeOK
  <2>2. /\ c.timeWindows = scheme[p].timeWindows
        /\ c.totalIterations = scheme[p].totalIterations
    BY <1>1 DEF Schemes
  <2>3. Stays("receiveData", c)
    BY <2>1, <2>2 DEF ExchangeSteps
  <2> QED
    BY <1>2, <2>3
<1>10. CASE RequiresWritingCheckpoint(p) \/ RequiresReadingCheckpoint(p)
  <2>1. PICK fulfilled :
          scheme' = [scheme EXCEPT ![p] = [scheme[p] EXCEPT !.fulfilledActions = fulfilled]]
    BY <1>10 DEF RequiresWritingCheckpoint, RequiresReadingCheckpoint, TypeOK
  <2> DEFINE c == [scheme[p] EXCEPT !.fulfilledActions = fulfilled]
  <2>2. pc' = [pc EXCEPT ![p] = "solving"] /\ pc[p] = "solving"
    BY <1>10 DEF RequiresWritingCheckpoint, RequiresReadingCheckpoint, TypeOK
  <2>3. Alike(scheme[p], c)
    BY <1>1, AlikeMembers
  <2>4. Stays("solving", c)
    BY <2>1, <2>2, <2>3 DEF Alike
  <2> QED
    BY <1>2, <2>4
<1>11. CASE Finalize(p)
  <2> DEFINE c == ClearActions(scheme[p])
  <2>1. pc[p] = "solving" /\ scheme' = [scheme EXCEPT ![p] = c]
    BY <1>11 DEF Finalize, At, TypeOK
  <2>2. PICK place \in Leaving : pc' = [pc EXCEPT ![p] = place]
    BY <1>11 DEF Finalize, CloseCommunicationChannels, Goto, Leaving
  <2>3. Alike(scheme[p], c)
    BY <1>1, AlikeMembers
  <2>4. place \notin ExchangeSteps /\ "solving" \notin ExchangeSteps /\ place # "failed"
    BY DEF Leaving, ExchangeSteps
  <2>5. Stays(place, c)
    BY <2>1, <2>2, <2>3, <2>4 DEF Alike
  <2> QED
    BY <1>2, <2>5
<1>12. CASE SecondSendsData(p) \/ FirstReceivesData(p)
  BY <1>12 DEF SecondSendsData, FirstReceivesData, At, FinishAdvance, Goto, ExchangeSteps, TypeOK
<1> QED
  BY <1>3, <1>4, <1>5, <1>6, <1>7, <1>8, <1>9, <1>10, <1>11, <1>12 DEF Participant, ApiCall

\* Who ends a round and reads data ends none that the other has not come to.
LEMMA NotAhead ==
  ASSUME TypeOK, NEW L \in Ledgers, Agree(L), NEW p \in Participants, pc[p] = Told(p),
         p = First => CanReceiveData(p), HasData(p), NEW q, q = Other(p),
         NEW r, r = RoundAt(pc[p], scheme[p]), NEW s, s = RoundAt(pc[q], scheme[q])
  PROVE  r <= s
<1> DEFINE n == ReadAt(p, pc[p], scheme[p])
           m == SentAt(q, pc[q], scheme[q])
<1>1. /\ config \in Configurations /\ q \in Participants /\ Other(q) = p /\ First # Second
      /\ Joins(L, q, pc[q], scheme[q]) /\ r \in Nat \ {0} /\ s \in Nat \ {0}
      /\ channel[p] \in Seq(Messages) /\ pc[p] \notin Leaving
  BY Others, AgreeAt, ConfigTypes DEF TypeOK, Told, Leaving
<1>2. Carries(L, p, channel[p], n, m, Bye(p, pc[p], pc[q]))
  BY <1>1, Streams
<1>3. m <= Header(p, s + 1) /\ m \in Nat
  BY <1>1, Bounds
<1>4. /\ Header(p, r + 1) \in Nat /\ Header(p, s + 1) \in Nat
      /\ Header(p, r + 1) = Data(p, r) + 1 /\ Data(p, r) \in Nat
  <2>1. r + 1 \in Nat /\ r + 1 >= 1 /\ s + 1 \in Nat /\ s + 1 >= 1 /\ r \in Nat
    BY <1>1
  <2> QED
    BY <2>1, Positions
<1>5. Header(p, r + 1) <= m
  <2>1. CASE p = Second
    <3>1. n = Header(p, r + 1)
      BY <1>1, <2>1 DEF ReadAt, Told
    <3> QED
      BY <1>2, <3>1 DEF Carries
  <2>2. CASE p = First
    <3>1. n = Data(p, r)
      BY <1>1, <2>2 DEF ReadAt, Told
    <3>2. channel[p] # <<>> /\ Head(channel[p]).kind = "data"
      BY <2>2 DEF CanReceiveData, HasMessage, HasData
    <3>3. n < m
      BY <1>1, <1>2, <3>2, NotAllRead
    <3> QED
      BY <1>3, <1>4, <3>1, <3>3
  <2> QED
    BY <2>1, <2>2 DEF Participants
<1>6. Header(p, r + 1) <= Header(p, s + 1)
  BY <1>3, <1>4, <1>5
<1>7. r + 1 <= s + 1
  BY <1>1, <1>6, EarlierRound
<1> QED
  BY <1>1, <1>7

\* A step of the coupling is a step of Lockstep, or nothing to it.
LEMMA AgreedLockstep ==
  ASSUME Agreement, Agreement', [Next]_vars
  PROVE  [Promise!Next]_<<[p \in Participants |-> Position(p)],
                          {p \in Participants : Other(p) \notin Sends}>>
<1>1. TypeOK /\ TypeOK' /\ config \in Configurations
  BY DEF Agreement, IInv, TypeOK
<1>2. CASE UNCHANGED vars
  BY <1>2, SchemesStay DEF vars
<1>3. ASSUME NEW x \in Participants, Participant(x)
      PROVE  [Promise!Next]_<<[p \in Participants |-> Position(p)],
                              {p \in Participants : Other(p) \notin Sends}>>
  <2>1. config' = config
    BY <1>3 DEF Participant
  <2>2. CASE Broken
    BY <1>1, <1>3, <2>1, <2>2, BrokenStep, SchemesStay
  <2>3. ASSUME NEW L \in Ledgers, Agree(L)
        PROVE  [Promise!Next]_<<[p \in Participants |-> Position(p)],
                                {p \in Participants : Other(p) \notin Sends}>>
    <3> DEFINE q == Other(x)
               r == RoundAt(pc[x], scheme[x])
               s == RoundAt(pc[q], scheme[q])
               e == L[r]
    <3>1. /\ q \in Participants /\ q # x /\ \A p \in Participants : p = x \/ p = q
          /\ r \in Nat \ {0} /\ s \in Nat \ {0} /\ Kept(L, r) /\ Kept(L, s)
          /\ pc[q] # "failed" /\ pc[x] # "failed" /\ Second \in Participants
      BY <1>1, <1>3, <2>3, Others, AgreeAt DEF Tracks, InRound, Participants
    <3>2. /\ Position(x) = [round |-> r, window |-> e.window]
          /\ Position(q) = [round |-> s, window |-> L[s].window]
          /\ WindowAt(pc[x], scheme[x]) = e.window
      BY <1>1, <1>3, <2>3, <3>1, PositionBefore
    <3>3. CASE pc[x] \in ExchangeSteps /\ pc'[x] = "solving"
      <4>1. /\ pc[x] = Told(x) /\ scheme'[q] = scheme[q] /\ (x = First => CanReceiveData(x))
            /\ \E c \in Schemes : Alike(scheme[x], c) /\ scheme'[x] = SecondExchange(c)
        BY <1>1, <1>3, <2>3, <3>3, FinishStep
      <4>2. PICK c \in Schemes : Alike(scheme[x], c) /\ scheme'[x] = SecondExchange(c)
        BY <4>1
      <4>3. /\ InRound(x, pc[x], c, e) /\ RoundAt(pc[x], c) = r /\ e \in Entries
            /\ Complete(c) <=> Done(e)
        BY <1>1, <1>3, <2>3, <4>1, <4>2, FinishKnows
      <4> DEFINE d == scheme'[x]
                 step == IF Done(e) THEN 1 ELSE 0
      <4>4. RoundAt("solving", d) = r + 1 /\ WindowAt("solving", d) = e.window + step
        BY <1>1, <3>3, <4>2, <4>3, FinishPosition
      <4>5. pc'[Second] # "failed"
        <5>1. CASE x = Second
          BY <3>3, <5>1
        <5>2. CASE x # Second
          <6>1. q = Second /\ pc[Second] # "failed"
            BY <3>1, <5>2
          <6>2. Agreement /\ ~LosePartner(x) /\ x = First
            BY <1>1, <1>3, <2>3, <5>2, NobodyIsLost DEF Participants, Agreement
          <6>3. ~Broken'
            BY <3>3, <6>2 DEF Broken
          <6>4. PICK K \in Ledgers : Agree(K)'
            BY <6>3 DEF Agreement, Ledgers, Entries
          <6>5. Joins(K, Second, pc[Second], scheme[Second])'
            BY <6>4 DEF Agree, Participants
          <6>6. Joins(K, Second, pc'[Second], scheme'[Second])
            BY <2>1, <6>5, JoinsNext
          <6> QED
            BY <6>6 DEF Joins, Tracks, InRound
        <5> QED
          BY <5>1, <5>2
      <4>6. Position(x)' = [round |-> r + 1, window |-> e.window + step]
        BY <2>1, <3>3, <4>4, <4>5, PositionAfter
      <4>7. Position(q)' = Position(q)
        BY <2>1, <4>1, PositionNext
      <4>8. HasData(x) => r <= s
        BY <1>1, <1>3, <2>3, <4>1, NotAhead
      <4> HIDE DEF q, r, s, e, step
      <4> QED
        BY <1>1, <1>3, <2>1, <2>3, <3>1, <3>2, <4>6, <4>7, <4>8, MovesInLockstep
           DEF q, e, step
    <3>4. CASE ~(pc[x] \in ExchangeSteps /\ pc'[x] = "solving")
      <4>1. CASE scheme' = scheme
        BY <2>1, <4>1, SchemesStay
      <4>2. CASE scheme' # scheme
        <5>1. /\ scheme'[q] = scheme[q] /\ pc'[x] # "failed" /\ pc'[q] = pc[q]
              /\ RoundAt(pc'[x], scheme'[x]) = r
              /\ WindowAt(pc'[x], scheme'[x]) = e.window
          BY <1>1, <1>3, <2>3, <3>2, <3>4, <4>2, GoesOn
        <5>2. pc'[Second] # "failed"
          BY <3>1, <5>1
        <5>3. Position(x)' = Position(x)
          BY <2>1, <3>2, <5>1, <5>2, PositionAfter
        <5>4. Position(q)' = Position(q)
          BY <2>1, <5>1, PositionNext
        <5> QED
          BY <2>1, <3>1, <5>3, <5>4, PositionsStay
      <4> QED
        BY <4>1, <4>2
    <3> QED
      BY <3>3, <3>4
  <2> QED
    BY <2>2, <2>3 DEF Agreement
<1> QED
  BY <1>2, <1>3 DEF Next

--------------------------------------------------------------------------------
(* The samples of the two participants *)

\* The last round of which p has received the data
RoundRead(p, place, c) ==
  RoundAt(place, c) - (IF p = Second /\ place \in {"sendConvergence", "sendData"} THEN 0 ELSE 1)

\* What p has written (w) and received (r) starts from the root of its round.
Starts(p, place, c, w, r) ==
  /\ p \in Sends => Rooted(w, OwnRoot(place, c))
  /\ HasData(p) => Rooted(r, OwnRoot(place, c))

\* What p has written (w) and received (r) in its round
Holds(L, p, place, c, w, r) ==
  LET now == Time!TimeOf(c.time)
  IN  /\ Timely(w, now)
      /\ p \in Sends /\ place \in InitializeSteps => EndsIn(w, 0, 0)
      /\ place \in ExchangeSteps => EndsIn(w, RoundAt(place, c), now)
      /\ IF place = "constructed" THEN r = {}
         ELSE Got(L, p, RoundRead(p, place, c), r) /\ Starts(p, place, c, w, r)

Sampled(L) ==
  \A p \in Participants :
    /\ Holds(L, p, pc[p], scheme[p], written[p], received[p])
    /\ Parcels(L, p, channel[p], ReadAt(p, pc[p], scheme[p]))

\* The configuration is all that these definitions read of the state.
LEMMA HoldsNext ==
  ASSUME config' = config, NEW L, NEW p, NEW place, NEW c, NEW w, NEW r, NEW s
  PROVE  /\ Holds(L, p, place, c, w, r)' <=> Holds(L, p, place, c, w, r)
         /\ Parcels(L, p, s, ReadAt(p, place, c))' <=> Parcels(L, p, s, ReadAt(p, place, c))
<1>1. UNCHANGED <<Implicit, Sends, Substeps>>
  BY DEF Implicit, Sends, Substeps
<1>2. /\ RoundAt(place, c)' = RoundAt(place, c) /\ ReadAt(p, place, c)' = ReadAt(p, place, c)
      /\ \A q, k : Data(q, k)' = Data(q, k)
  BY KeptNext, CarriesNext DEF ReadAt
<1>3. /\ RoundRead(p, place, c)' = RoundRead(p, place, c)
      /\ \A k : Got(L, p, k, r)' <=> Got(L, p, k, r)
      /\ \A k, x : Parcel(L, p, k, x)' <=> Parcel(L, p, k, x)
      /\ HasData(p)' <=> HasData(p)
      /\ OwnRoot(place, c)' = OwnRoot(place, c)
  BY <1>1, <1>2 DEF RoundRead, Got, Parcel, HasData, Other, OwnRoot
<1>4. Holds(L, p, place, c, w, r)' <=> Holds(L, p, place, c, w, r)
  BY <1>1, <1>2, <1>3 DEF Holds, Starts, Time!TimeOf
<1>5. Parcels(L, p, s, ReadAt(p, place, c))' <=> Parcels(L, p, s, ReadAt(p, place, c))
  BY <1>2, <1>3 DEF Parcels
<1> QED
  BY <1>4, <1>5

\* A step of p that moves the samples of p alone
LEMMA SampledStep ==
  ASSUME TypeOK, config' = config, NEW L \in Ledgers, Sampled(L), NEW p \in Participants,
         NEW place, NEW c, pc' = [pc EXCEPT ![p] = place], scheme' = [scheme EXCEPT ![p] = c],
         NEW q, q = Other(p), written'[q] = written[q], received'[q] = received[q],
         Holds(L, p, place, c, written'[p], received'[p]),
         Parcels(L, p, channel'[p], ReadAt(p, place, c)),
         Parcels(L, q, channel'[q], ReadAt(q, pc[q], scheme[q]))
  PROVE  Sampled(L)'
<1>1. q \in Participants /\ q # p /\ \A x \in Participants : x = p \/ x = q
  BY Others DEF TypeOK
<1>2. /\ pc'[p] = place /\ scheme'[p] = c /\ pc'[q] = pc[q] /\ scheme'[q] = scheme[q]
  BY <1>1 DEF TypeOK
<1>3. ASSUME NEW x \in Participants
      PROVE  /\ Holds(L, x, pc'[x], scheme'[x], written'[x], received'[x])
             /\ Parcels(L, x, channel'[x], ReadAt(x, pc'[x], scheme'[x]))
  <2>1. CASE x = p
    BY <1>2, <2>1
  <2>2. CASE x = q
    BY <1>1, <1>2, <2>2 DEF Sampled
  <2> QED
    BY <1>1, <2>1, <2>2
<1> SUFFICES ASSUME NEW x \in Participants
             PROVE  /\ Holds(L, x, pc[x], scheme[x], written[x], received[x])'
                    /\ Parcels(L, x, channel[x], ReadAt(x, pc[x], scheme[x]))'
  BY DEF Sampled, Participants
<1> QED
  BY <1>3, HoldsNext

\* A step of p that leaves its samples alone and receives none
LEMMA QuietSampled ==
  ASSUME TypeOK, config' = config, NEW L \in Ledgers, Sampled(L), NEW p \in Participants,
         NEW place, NEW c, pc' = [pc EXCEPT ![p] = place], scheme' = [scheme EXCEPT ![p] = c],
         c.time = scheme[p].time, c.iterations = scheme[p].iterations,
         UNCHANGED <<written, received>>, pc[p] # "constructed", place # "constructed",
         place \in InitializeSteps => pc[p] \in InitializeSteps,
         place \in ExchangeSteps => pc[p] \in ExchangeSteps,
         RoundAt(place, c) = RoundAt(pc[p], scheme[p]),
         RoundRead(p, place, c) = RoundRead(p, pc[p], scheme[p]),
         NEW q, q = Other(p),
         Parcels(L, p, channel'[p], ReadAt(p, place, c)),
         Parcels(L, q, channel'[q], ReadAt(q, pc[q], scheme[q]))
  PROVE  Sampled(L)'
<1>1. Holds(L, p, pc[p], scheme[p], written[p], received[p])
  BY DEF Sampled
<1>2. OwnRoot(place, c) = OwnRoot(pc[p], scheme[p])
  BY DEF OwnRoot
<1>3. Holds(L, p, place, c, written'[p], received'[p])
  BY <1>1, <1>2 DEF Holds, Starts
<1> QED
  BY <1>3, SampledStep

\* At the end of its round p is at the stamp of the round.
LEMMA ExchangeStamps ==
  ASSUME TypeOK, NEW L \in Ledgers, Agree(L), NEW p \in Participants, pc[p] \in ExchangeSteps,
         NEW r, r = RoundAt(pc[p], scheme[p])
  PROVE  /\ r \in Nat \ {0} /\ Stamp(L, r) \in Nat /\ Stamp(L, r) = Time!TimeOf(scheme[p].time)
         /\ Stamp(L, r - 1) \in Nat /\ Stamp(L, r - 1) <= Stamp(L, r)
<1>1. /\ config \in Configurations /\ r \in Nat \ {0} /\ scheme[p] \in Schemes
      /\ InRound(p, pc[p], scheme[p], L[r]) /\ Kept(L, r) /\ L[r] \in Entries
  BY AgreeAt DEF TypeOK, Tracks
<1>2. /\ Time!TimeOf(scheme[p].time) = L[r].end /\ L[r].start = scheme[p].time.start
      /\ scheme[p].time \in Time!TimeHandlers
  BY <1>1 DEF InRound, Schemes
<1>3. L[r].start <= L[r].end
  BY <1>2 DEF Time!TimeOf, Time!TimeHandlers
<1>4. r > 1 /\ L[r].iteration > 1 => L[r].end = L[r - 1].end
  BY <1>1, ParallelSizes, SteadyWindows
<1>5. /\ Stamp(L, r - 1) \in Nat /\ Stamp(L, r) \in Nat /\ Stamp(L, r - 1) <= Stamp(L, r)
  BY <1>1, <1>3, <1>4, StampsGrow
<1> QED
  BY <1>1, <1>2, <1>5 DEF Stamp

\* The root that p knows of is that of the ledger: before the first step, the initial
\* data, and at the end of a round a sample before it.
LEMMA RootAgrees ==
  ASSUME TypeOK, NEW L \in Ledgers, Agree(L), NEW p \in Participants,
         NEW r, r = RoundAt(pc[p], scheme[p])
  PROVE  /\ OwnRoot(pc[p], scheme[p]) = Root(L, r)
         /\ pc[p] \in Early => Root(L, r) = RootOf(0, 0) /\ Time!TimeOf(scheme[p].time) = 0
         /\ Root(L, r).t <= Time!TimeOf(scheme[p].time)
         /\ pc[p] \in ExchangeSteps => Root(L, r).t < Stamp(L, r)
<1>1. /\ r \in Nat \ {0} /\ scheme[p] \in Schemes /\ Kept(L, r)
      /\ InRound(p, pc[p], scheme[p], L[r])
  BY AgreeAt DEF Tracks
<1>2. /\ L[r].start = scheme[p].time.start /\ L[r].iteration = scheme[p].iterations
      /\ pc[p] \in Early => r = 1 /\ scheme[p].time.progress = 0
      /\ pc[p] \in ExchangeSteps =>
           Time!TimeOf(scheme[p].time) = L[r].end /\ scheme[p].time.progress > 0
  BY <1>1 DEF InRound
<1>3. scheme[p].time.start \in Nat /\ scheme[p].time.progress \in Nat
  BY <1>1 DEF Schemes, Time!TimeHandlers
<1>4. Root(L, r) = RootOf(L[r].start, r - L[r].iteration)
  BY <1>1 DEF Root
<1>5. r = 1 => L[r].start = 0 /\ L[r].iteration = 1
  BY <1>1 DEF Kept, First1
<1> QED
  BY <1>1, <1>2, <1>3, <1>4, <1>5 DEF OwnRoot, RootOf, Stamp, Time!TimeOf

\* Ledgers with the same stamps are the same to the samples.
LEMMA SampledAlike ==
  ASSUME TypeOK, NEW L \in Ledgers, Agree(L), Sampled(L), NEW K, Keeps(L, K)
  PROVE  Sampled(K)
<1> SUFFICES ASSUME NEW p \in Participants
             PROVE  /\ Holds(K, p, pc[p], scheme[p], written[p], received[p])
                    /\ Parcels(K, p, channel[p], ReadAt(p, pc[p], scheme[p]))
  BY DEF Sampled
<1> DEFINE q == Other(p)
           r == RoundAt(pc[p], scheme[p])
           s == RoundAt(pc[q], scheme[q])
           n == ReadAt(p, pc[p], scheme[p])
           m == SentAt(q, pc[q], scheme[q])
           bye == Bye(p, pc[p], pc[q])
<1>1. /\ config \in Configurations /\ q \in Participants /\ Other(q) = p
      /\ r \in Nat \ {0} /\ s \in Nat \ {0} /\ Joins(L, q, pc[q], scheme[q])
      /\ channel[p] \in Seq(Messages) /\ Carries(L, p, channel[p], n, m, bye)
  BY Others, AgreeAt DEF TypeOK, Delivers
<1>2. /\ Holds(L, p, pc[p], scheme[p], written[p], received[p])
      /\ Parcels(L, p, channel[p], n)
  BY DEF Sampled
<1>3. \A k \in Nat :
        k <= r \/ k <= s => Stamp(K, k) = Stamp(L, k) /\ Root(K, k) = Root(L, k)
  BY <1>1 DEF Keeps
<1>4. m <= Header(p, s + 1) /\ m \in Nat
  BY <1>1, Bounds
<1> HIDE DEF n, m, bye, s
<1>5. Holds(K, p, pc[p], scheme[p], written[p], received[p])
  <2> DEFINE k == RoundRead(p, pc[p], scheme[p])
  <2>1. k \in Nat /\ k <= r
    BY <1>1 DEF RoundRead
  <2>2. Stamp(K, k) = Stamp(L, k)
    BY <1>3, <2>1
  <2> HIDE DEF k
  <2>3. Got(L, p, k, received[p]) => Got(K, p, k, received[p])
    BY <2>2 DEF Got
  <2> QED
    BY <1>2, <2>3 DEF Holds, k
<1>6. ASSUME NEW k \in Nat, Data(p, k) < m
      PROVE  Stamp(K, k) = Stamp(L, k) /\ Root(K, k) = Root(L, k)
  <2>1. CASE s < k
    <3>1. Header(p, s + 1) <= Header(p, k) /\ Header(p, k) <= Data(p, k)
      BY <1>1, <2>1, PositionsInOrder
    <3>2. Header(p, s + 1) \in Nat /\ Header(p, k) \in Nat /\ Data(p, k) \in Nat
      <4>1. k >= 1 /\ s + 1 >= 1 /\ s + 1 \in Nat
        BY <1>1, <2>1
      <4> QED
        BY <4>1, Positions
    <3> QED
      BY <1>4, <1>6, <3>1, <3>2
  <2>2. CASE ~(s < k)
    BY <1>1, <1>3, <2>2
  <2> QED
    BY <2>1, <2>2
<1>7. Parcels(K, p, channel[p], n)
  BY <1>1, <1>2, <1>6, ParcelsAlike
<1> QED
  BY <1>5, <1>7 DEF n

\* initialize() has the initial data of both sides.
LEMMA InitializeSampled ==
  ASSUME IInv, config' = config, NEW L \in Ledgers, Agree(L), Sampled(L),
         NEW p \in Participants, Initialize(p, InitialExchange(p)), IInv'
  PROVE  Sampled(L)'
<1> DEFINE fulfilled == scheme[p].fulfilledActions \cup scheme[p].requiredActions
           required == scheme[p].requiredActions
                         \cup (IF Implicit THEN {"WriteCheckpoint"} ELSE {})
           c == [scheme[p] EXCEPT !.fulfilledActions = fulfilled, !.requiredActions = required]
           place == InitialExchange(p)
           q == Other(p)
           now == Time!TimeOf(c.time)
<1>1. TypeOK /\ config \in Configurations /\ pc[p] = "constructed"
  BY DEF IInv, TypeOK, Initialize
<1>2. /\ pc' = [pc EXCEPT ![p] = place] /\ scheme' = [scheme EXCEPT ![p] = c]
      /\ channel' = channel
  BY <1>1 DEF Initialize, Goto, TypeOK
<1>3. /\ scheme[p] \in Schemes /\ RoundAt("constructed", scheme[p]) = 1
      /\ q \in Participants /\ q # p
  BY <1>1, AgreeAt, Others DEF InRound, Early
<1>4. c.time = scheme[p].time /\ now \in Nat
  BY <1>3, TimeOfType DEF Schemes
<1>5. RoundAt(place, c) = 1
  <2>1. Alike(scheme[p], c)
    BY <1>3, AlikeMembers
  <2>2. place \notin ExchangeSteps /\ "constructed" \notin ExchangeSteps
    BY DEF InitialExchange, ExchangeSteps
  <2> HIDE DEF c, place
  <2> QED
    BY <1>3, <2>1, <2>2 DEF RoundAt, WindowAt, Alike
<1>6. /\ place \in InitializeSteps \cup {"solving"} /\ place # "constructed"
      /\ place \notin ExchangeSteps
  BY DEF InitialExchange, InitializeSteps, ExchangeSteps
<1>7. RoundRead(p, place, c) = 0 /\ OwnRoot(place, c) = RootOf(0, 0)
  <2>1. OwnRoot(pc[p], scheme[p]) = RootOf(0, 0)
    BY <1>1, RootAgrees DEF Early
  <2>2. Alike(scheme[p], c)
    BY <1>3, AlikeMembers
  <2>3. OwnRoot(place, c) = OwnRoot(pc[p], scheme[p])
    BY <1>1, <1>3, <1>5, <2>2 DEF OwnRoot, Alike
  <2> QED
    BY <1>5, <1>6, <2>1, <2>3 DEF RoundRead, InitialExchange
<1> HIDE DEF c, place
<1>8. /\ Timely(written'[p], now) /\ (p \in Sends => EndsIn(written'[p], 0, 0))
      /\ Got(L, p, 0, received'[p])
      /\ p \in Sends => Rooted(written'[p], RootOf(0, 0))
      /\ HasData(p) => Rooted(received'[p], RootOf(0, 0))
  BY <1>1, <1>4, InitialSamples
<1>9. written'[q] = written[q] /\ received'[q] = received[q]
  BY <1>3 DEF Initialize
<1>10. Holds(L, p, place, c, written'[p], received'[p])
  BY <1>6, <1>7, <1>8 DEF Holds, Starts
<1>11. ReadAt(p, place, c) = ReadAt(p, pc[p], scheme[p])
  BY <1>1, <1>5, InitializePositions DEF place
<1>12. /\ Parcels(L, p, channel'[p], ReadAt(p, place, c))
       /\ Parcels(L, q, channel'[q], ReadAt(q, pc[q], scheme[q]))
  BY <1>2, <1>3, <1>11 DEF Sampled
<1> QED
  BY <1>1, <1>2, <1>9, <1>10, <1>12, SampledStep

\* The initial data that is sent is that of the start.
LEMMA InitSendSampled ==
  ASSUME IInv, config' = config, NEW L \in Ledgers, Agree(L), Sampled(L),
         NEW p \in Participants, InitSend(p)
  PROVE  Sampled(L)'
<1> DEFINE place == IF p = First /\ Second \in Initializes THEN "initReceiveData" ELSE "solving"
           c == scheme[p]
           q == Other(p)
           n == ReadAt(q, pc[q], scheme[q])
<1>1. /\ TypeOK /\ config \in Configurations /\ pc[p] = "initSendData"
      /\ SendStored(p, written[p]) /\ UNCHANGED <<written, received>> /\ First # Second
  BY ConfigTypes DEF IInv, TypeOK, InitSend, InitSendData, At
<1>2. pc' = [pc EXCEPT ![p] = place] /\ scheme' = [scheme EXCEPT ![p] = c]
  BY <1>1, Unchanged DEF InitSend, InitSendData, Goto
<1>3. /\ channel[q] \in Seq(Messages) /\ q \in Participants /\ Other(q) = p
      /\ RoundAt("initSendData", c) = 1 /\ Joins(L, p, "initSendData", c)
  BY <1>1, AgreeAt, Others DEF InRound, Early, InitializeSteps, TypeOK
<1>4. /\ Carries(L, q, channel[q], n, Data(q, 0), "nothing")
      /\ Parcels(L, q, channel[q], n)
  <2>1. pc[p] \notin Leaving /\ SentAt(p, pc[p], c) = Data(q, 0)
    BY <1>1 DEF Leaving, SentAt
  <2> QED
    BY <1>1, <1>3, <2>1, Streams DEF Sampled
<1>5. RoundAt(place, c) = 1 /\ place \notin ExchangeSteps /\ "initSendData" \notin ExchangeSteps
  BY <1>3 DEF RoundAt, WindowAt, ExchangeSteps
<1>6. ReadAt(p, place, c) = ReadAt(p, "initSendData", c)
  BY <1>1, <1>3, <1>5 DEF ReadAt, Beginning, Other, Participants
<1>7. /\ place # "constructed" /\ place \notin ExchangeSteps
      /\ RoundRead(p, place, c) = RoundRead(p, "initSendData", c)
      /\ "initSendData" \in InitializeSteps
  BY <1>3, <1>5 DEF RoundRead, InitializeSteps
<1> HIDE DEF place, n
<1>8. Parcels(L, q, channel'[q], n)
  <2>1. Holds(L, p, pc[p], scheme[p], written[p], received[p])
    BY DEF Sampled
  <2>2. p \in Sends => /\ Stamped(written[p]) /\ EndsIn(written[p], 0, Stamp(L, 0))
                       /\ Rooted(written[p], Root(L, 0))
    <3>1. OwnRoot(pc[p], scheme[p]) = Root(L, 0)
      BY <1>1, <1>7, RootAgrees DEF Early, Root
    <3> QED
      BY <1>1, <1>7, <2>1, <3>1 DEF Holds, Starts, Timely, Stamp
  <2>3. n \in Nat /\ (HasData(q) => n + Len(channel[q]) = Data(q, 0))
    BY <1>3, <1>4, Positions DEF Carries
  <2> QED
    BY <1>1, <1>4, <2>2, <2>3, SendsParcel
<1>9. Parcels(L, p, channel'[p], ReadAt(p, place, c))
  <2>1. channel'[p] = channel[p]
    BY <1>1, SendsData
  <2> QED
    BY <1>1, <1>6, <2>1 DEF Sampled
<1> QED
  BY <1>1, <1>2, <1>3, <1>5, <1>7, <1>8, <1>9, QuietSampled DEF n

\* The initial data that is received is that of the start.
LEMMA InitReceiveSampled ==
  ASSUME IInv, config' = config, NEW L \in Ledgers, Agree(L), Sampled(L),
         NEW p \in Participants, InitReceive(p)
  PROVE  Sampled(L)'
<1> DEFINE place == IF p = Second /\ Second \in Initializes THEN "initSendData" ELSE "solving"
           c == NotifyDataHasBeenReceived(scheme[p])
           q == Other(p)
           now == Time!TimeOf(scheme[p].time)
<1>1. /\ TypeOK /\ config \in Configurations /\ pc[p] = "initReceiveData"
      /\ CanReceiveData(p) /\ ReceiveDataMessage(p) /\ First # Second /\ written' = written
      /\ received' = [received EXCEPT ![p] = ReceivedAt(p, now)]
  BY ConfigTypes DEF IInv, TypeOK, InitReceive, InitReceiveData, At
<1>2. pc' = [pc EXCEPT ![p] = place] /\ scheme' = [scheme EXCEPT ![p] = c]
  BY <1>1 DEF InitReceive, InitReceiveData, Goto
<1>3. /\ q \in Participants /\ q # p /\ RoundAt("initReceiveData", scheme[p]) = 1
      /\ scheme[p] \in Schemes /\ now = 0
  <2>1. /\ RoundAt(pc[p], scheme[p]) = 1 /\ scheme[p].time.progress = 0
        /\ scheme[p].time.start = L[1].start /\ Kept(L, 1)
    BY <1>1, AgreeAt DEF InRound, Early, InitializeSteps, Tracks
  <2>2. scheme[p].time.start = 0
    BY <2>1 DEF Kept, First1
  <2> QED
    BY <1>1, <2>1, <2>2, AgreeAt, Others DEF Time!TimeOf
<1>4. Alike(scheme[p], c)
  BY <1>3, AlikeMembers
<1> HIDE DEF c
<1>5. /\ RoundAt(place, c) = 1 /\ place \notin ExchangeSteps
      /\ place # "constructed" /\ place \notin ExchangeSteps
      /\ RoundRead(p, place, c) = 0 /\ RoundRead(p, "initReceiveData", scheme[p]) = 0
      /\ "initReceiveData" \in InitializeSteps
  <2>1. place \notin ExchangeSteps /\ "initReceiveData" \notin ExchangeSteps
    BY DEF ExchangeSteps
  <2>2. RoundAt(place, c) = 1
    BY <1>3, <1>4, <2>1 DEF RoundAt, WindowAt, Alike
  <2> QED
    BY <1>3, <2>1, <2>2 DEF RoundRead, InitializeSteps
<1>6. /\ ReadAt(p, "initReceiveData", scheme[p]) = Data(p, 0)
      /\ ReadAt(p, place, c) = Header(p, 0 + 1)
  BY <1>1, <1>5 DEF ReadAt, Participants
<1>7. channel'[q] = channel[q]
  BY <1>1, ReadsData
<1>8. /\ Holds(L, p, pc[p], scheme[p], written[p], received[p])
      /\ Parcels(L, p, channel[p], Data(p, 0))
      /\ Parcels(L, q, channel'[q], ReadAt(q, pc[q], scheme[q]))
  BY <1>1, <1>3, <1>6, <1>7 DEF Sampled
<1>9. Got(L, p, 0, received[p]) /\ Starts(p, "initReceiveData", scheme[p], written[p], received[p])
  BY <1>1, <1>5, <1>8 DEF Holds
<1>10. /\ Got(L, p, 0, ReceivedAt(p, now))
       /\ Parcels(L, p, channel'[p], Header(p, 0 + 1))
  <2>1. Stamp(L, 0) = now /\ Stamp(L, 0) <= now /\ 0 \in Nat /\ now \in Nat
    BY <1>3 DEF Stamp
  <2> QED
    BY <1>1, <1>8, <1>9, <2>1, ReceivesParcel
<1>11. received'[p] = ReceivedAt(p, now) /\ received'[q] = received[q] /\ written'[q] = written[q]
  BY <1>1, <1>3 DEF TypeOK
<1>12. Starts(p, place, c, written'[p], received'[p])
  <2>1. OwnRoot("initReceiveData", scheme[p]) = Root(L, 0)
    BY <1>1, <1>5, RootAgrees DEF Early, Root
  <2>2. OwnRoot(place, c) = Root(L, 0)
    BY <1>3, <1>4, <1>5, <2>1 DEF OwnRoot, Alike
  <2>3. HasData(p) => Rooted(ReceivedAt(p, now), Root(L, 0))
    <3>1. 0 \in Nat /\ now \in Nat /\ Stamp(L, 0) = now
      BY <1>3 DEF Stamp
    <3>2. HasData(p) => Rooted(received[p], Root(L, 0))
      BY <1>9, <2>1 DEF Starts
    <3>3. Root(L, 0) \in Samples /\ now = 0
      BY <1>3 DEF Root, RootOf, Samples
    <3> HIDE DEF now
    <3> QED
      BY <1>1, <1>8, <3>1, <3>2, <3>3, ReceivesRoot
  <2> QED
    BY <1>1, <1>9, <1>11, <2>1, <2>2, <2>3 DEF Starts
<1> HIDE DEF place, now
<1>13. Holds(L, p, place, c, written'[p], received'[p])
  <2>1. Timely(written[p], now) /\ (p \in Sends => EndsIn(written[p], 0, 0))
    BY <1>1, <1>5, <1>8 DEF Holds, now
  <2>2. Time!TimeOf(c.time) = now
    BY <1>4 DEF Alike, now
  <2>3. Got(L, p, RoundRead(p, place, c), received'[p])
    BY <1>5, <1>10, <1>11
  <2>4. written'[p] = written[p]
    BY <1>1
  <2> QED
    BY <1>5, <1>12, <2>1, <2>2, <2>3, <2>4 DEF Holds
<1>14. Parcels(L, p, channel'[p], ReadAt(p, place, c))
  BY <1>6, <1>10
<1>15. TypeOK /\ pc' = [pc EXCEPT ![p] = place] /\ scheme' = [scheme EXCEPT ![p] = c]
  BY <1>1, <1>2
<1> HIDE DEF q
<1> QED
  BY <1>8, <1>11, <1>13, <1>14, <1>15, SampledStep DEF q

\* Reading and writing a checkpoint moves no samples.
LEMMA CheckpointSampled ==
  ASSUME IInv, config' = config, NEW L \in Ledgers, Agree(L), Sampled(L),
         NEW p \in Participants,
         RequiresWritingCheckpoint(p) \/ RequiresReadingCheckpoint(p)
  PROVE  Sampled(L)'
<1> DEFINE q == Other(p)
<1>1. /\ TypeOK /\ config \in Configurations /\ pc[p] = "solving"
      /\ UNCHANGED <<written, received, channel>>
  BY DEF IInv, TypeOK, RequiresWritingCheckpoint, RequiresReadingCheckpoint
<1>2. PICK fulfilled :
        scheme' = [scheme EXCEPT ![p] = [scheme[p] EXCEPT !.fulfilledActions = fulfilled]]
  BY <1>1 DEF RequiresWritingCheckpoint, RequiresReadingCheckpoint, TypeOK
<1> DEFINE c == [scheme[p] EXCEPT !.fulfilledActions = fulfilled]
<1>3. pc' = [pc EXCEPT ![p] = "solving"]
  BY <1>1 DEF RequiresWritingCheckpoint, RequiresReadingCheckpoint, TypeOK
<1>4. scheme[p] \in Schemes /\ q \in Participants
  BY <1>1, AgreeAt, Others
<1>5. Alike(scheme[p], c)
  BY <1>4, AlikeMembers
<1>6. scheme' = [scheme EXCEPT ![p] = c]
  BY <1>2
<1> HIDE DEF c
<1>7. /\ RoundAt("solving", c) = RoundAt("solving", scheme[p]) /\ c.time = scheme[p].time
      /\ c.iterations = scheme[p].iterations
      /\ "solving" \notin InitializeSteps /\ "solving" \notin ExchangeSteps
  BY <1>5 DEF Alike, RoundAt, WindowAt, InitializeSteps, ExchangeSteps
<1>8. /\ ReadAt(p, "solving", c) = ReadAt(p, "solving", scheme[p])
      /\ RoundRead(p, "solving", c) = RoundRead(p, "solving", scheme[p])
  BY <1>7 DEF ReadAt, RoundRead
<1>9. /\ Parcels(L, p, channel'[p], ReadAt(p, "solving", c))
      /\ Parcels(L, q, channel'[q], ReadAt(q, pc[q], scheme[q]))
  BY <1>1, <1>4, <1>8 DEF Sampled
<1> QED
  BY <1>1, <1>3, <1>6, <1>7, <1>8, <1>9, QuietSampled

\* Who leaves sends at most its ping.
LEMMA FinalizeSampled ==
  ASSUME IInv, config' = config, NEW L \in Ledgers, Agree(L), Sampled(L),
         NEW p \in Participants, Finalize(p)
  PROVE  Sampled(L)'
<1> DEFINE c == ClearActions(scheme[p])
           q == Other(p)
           place == IF WaitInFinalize
                    THEN IF p = Requesting THEN "receivePong" ELSE "receivePing" ELSE "finalized"
           ping == [kind |-> "ping"]
           n == ReadAt(q, pc[q], scheme[q])
<1>1. /\ TypeOK /\ config \in Configurations /\ pc[p] = "solving"
      /\ scheme' = [scheme EXCEPT ![p] = c] /\ UNCHANGED <<written, received>>
  BY DEF IInv, TypeOK, Finalize, At
<1>2. /\ scheme[p] \in Schemes /\ q \in Participants /\ Other(q) = p
      /\ channel[q] \in Seq(Messages) /\ channel[p] \in Seq(Messages)
      /\ Joins(L, q, pc[q], scheme[q])
  BY <1>1, AgreeAt, Others DEF TypeOK
<1>3. Alike(scheme[p], c)
  BY <1>2, AlikeMembers
<1>4. place \in Leaving
  BY DEF Leaving
<1>5. /\ pc' = [pc EXCEPT ![p] = place]
      /\ IF WaitInFinalize /\ p = Requesting THEN Send(p, ping) ELSE UNCHANGED channel
  BY DEF Finalize, CloseCommunicationChannels, Goto
<1>6. n \in Nat
  BY <1>1, <1>2, Bounds
<1>7. ping \in Messages /\ ping.kind # "data"
  BY DEF Messages
<1> HIDE DEF c, n, place, ping
<1>8. /\ RoundAt(place, c) = RoundAt("solving", scheme[p]) /\ c.time = scheme[p].time
      /\ c.iterations = scheme[p].iterations
      /\ place \notin InitializeSteps /\ place \notin ExchangeSteps
      /\ place # "constructed"
  BY <1>3, <1>4 DEF Alike, RoundAt, WindowAt, InitializeSteps, ExchangeSteps, Leaving
<1>9. /\ ReadAt(p, place, c) = ReadAt(p, "solving", scheme[p])
      /\ RoundRead(p, place, c) = RoundRead(p, "solving", scheme[p])
  BY <1>4, <1>8 DEF ReadAt, RoundRead, Leaving
<1>10. /\ Parcels(L, p, channel[p], ReadAt(p, place, c))
       /\ Parcels(L, q, channel[q], n)
  BY <1>1, <1>2, <1>9 DEF Sampled, n
<1>11. Parcels(L, p, channel'[p], ReadAt(p, place, c)) /\ Parcels(L, q, channel'[q], n)
  <2>1. CASE WaitInFinalize /\ p = Requesting
    <3>1. channel'[p] = channel[p] /\ channel'[q] = Append(channel[q], ping)
      BY <1>1, <1>5, <1>7, <2>1, Sends1
    <3>2. Parcels(L, q, Append(channel[q], ping), n)
      BY <1>2, <1>6, <1>7, <1>10, MoreParcels
    <3> QED
      BY <1>10, <3>1, <3>2
  <2>2. CASE ~(WaitInFinalize /\ p = Requesting)
    BY <1>5, <1>10, <2>2
  <2> QED
    BY <2>1, <2>2
<1> QED
  BY <1>1, <1>5, <1>8, <1>9, <1>11, QuietSampled DEF n

\* A participant that leaves and reads the goodbye has nothing more to read.
LEMMA GoodbyeSampled ==
  ASSUME IInv, config' = config, NEW L \in Ledgers, Agree(L), Sampled(L),
         NEW p \in Participants, pc[p] \in {"receivePing", "receivePong"},
         channel[p] # <<>>, channel'[p] = Tail(channel[p]),
         pc' = [pc EXCEPT ![p] = "finalized"], UNCHANGED <<scheme, written, received>>,
         NEW q, q = Other(p), Parcels(L, q, channel'[q], ReadAt(q, pc[q], scheme[q]))
  PROVE  Sampled(L)'
<1> DEFINE r == RoundAt(pc[p], scheme[p])
<1>1. /\ TypeOK /\ channel[p] \in Seq(Messages) /\ InRound(p, pc[p], scheme[p], L[r])
      /\ Delivers(L, p, pc[p], scheme[p], pc[q], scheme[q], channel[p])
      /\ pc[p] \in Leaving /\ "finalized" \in Leaving
  BY AgreeAt DEF IInv, Leaving
<1>2. ~Open(L[r])
  BY <1>1 DEF InRound
<1>3. Carries(L, p, channel[p], Header(p, r), Header(p, r), Bye(p, pc[p], pc[q]))
  <2>1. ReadAt(p, pc[p], scheme[p]) = Header(p, r) /\ SentAt(q, pc[q], scheme[q]) = Header(p, r)
    BY <1>1, <1>2, AllIsRead
  <2> QED
    BY <1>1, <2>1 DEF Delivers
<1>4. channel'[p] = <<>>
  <2> DEFINE s == Tail(channel[p])
             n == Header(p, r)
  <2>1. s \in Seq(Messages)
    BY <1>1
  <2>2. Carries(L, p, s, n, n, "nothing")
    BY <1>1, <1>3, GoodbyeIsRead
  <2> HIDE DEF s, n
  <2>3. s = <<>>
    BY <2>1, <2>2, GoodbyeIsRead
  <2> QED
    BY <2>3 DEF s
<1>5. Parcels(L, p, channel'[p], ReadAt(p, "finalized", scheme[p]))
  <2>1. \A n : Parcels(L, p, <<>>, n)
    BY DEF Parcels
  <2> QED
    BY <1>4, <2>1
<1>6. /\ RoundAt("finalized", scheme[p]) = RoundAt(pc[p], scheme[p])
      /\ RoundRead(p, "finalized", scheme[p]) = RoundRead(p, pc[p], scheme[p])
      /\ "finalized" \notin InitializeSteps /\ "finalized" \notin ExchangeSteps
  BY DEF RoundAt, WindowAt, RoundRead, ExchangeSteps, InitializeSteps
<1>7. scheme' = [scheme EXCEPT ![p] = scheme[p]]
  BY <1>1, Unchanged
<1> QED
  BY <1>1, <1>5, <1>6, <1>7, QuietSampled

\* The ping takes no sample with it.
LEMMA ReceivePingSampled ==
  ASSUME IInv, config' = config, NEW L \in Ledgers, Agree(L), Sampled(L),
         NEW p \in Participants, ReceivePing(p)
  PROVE  Sampled(L)'
<1> DEFINE q == Other(p)
           pong == [kind |-> "pong"]
           n == ReadAt(q, pc[q], scheme[q])
<1>1. /\ TypeOK /\ config \in Configurations /\ pc[p] = "receivePing"
      /\ channel[p] # <<>> /\ UNCHANGED <<scheme, written, received>>
      /\ pc' = [pc EXCEPT ![p] = "finalized"]
  BY DEF IInv, TypeOK, ReceivePing, At, HasMessage, Goto
<1>2. /\ q \in Participants /\ q # p /\ Other(q) = p /\ Joins(L, q, pc[q], scheme[q])
      /\ channel[q] \in Seq(Messages)
  BY <1>1, AgreeAt, Others
<1>3. channel'[p] = Tail(channel[p]) /\ channel'[q] = Append(channel[q], pong)
  BY <1>1, <1>2 DEF ReceivePing, TypeOK
<1>4. pong \in Messages /\ pong.kind # "data"
  BY DEF Messages
<1>5. n \in Nat /\ Parcels(L, q, channel[q], n)
  BY <1>1, <1>2, Bounds DEF Sampled
<1> HIDE DEF n, pong
<1>6. Parcels(L, q, channel'[q], n)
  BY <1>2, <1>3, <1>4, <1>5, MoreParcels
<1> QED
  BY <1>1, <1>3, <1>6, GoodbyeSampled DEF n

\* Nor does the pong.
LEMMA ReceivePongSampled ==
  ASSUME IInv, config' = config, NEW L \in Ledgers, Agree(L), Sampled(L),
         NEW p \in Participants, ReceivePong(p)
  PROVE  Sampled(L)'
<1> DEFINE q == Other(p)
<1>1. /\ TypeOK /\ config \in Configurations /\ pc[p] = "receivePong"
      /\ channel[p] # <<>> /\ UNCHANGED <<scheme, written, received>>
      /\ pc' = [pc EXCEPT ![p] = "finalized"] /\ Receive(p)
  BY DEF IInv, TypeOK, ReceivePong, At, HasMessage, Goto
<1>2. q \in Participants
  BY <1>1, Others
<1>3. channel'[p] = Tail(channel[p]) /\ channel'[q] = channel[q]
  BY <1>1, Reads1
<1>4. Parcels(L, q, channel'[q], ReadAt(q, pc[q], scheme[q]))
  BY <1>2, <1>3 DEF Sampled
<1> QED
  BY <1>1, <1>3, <1>4, GoodbyeSampled

\* Between the verdict and the data there is nothing.
LEMMA ReceiveConvergenceSampled ==
  ASSUME IInv, config' = config, NEW L \in Ledgers, Agree(L), Sampled(L),
         NEW p \in Participants, ReceiveConvergence(p)
  PROVE  Sampled(L)'
<1> DEFINE c == [scheme[p] EXCEPT !.hasConverged = Head(channel[p]).hasConverged]
           q == Other(p)
           r == RoundAt("receiveConvergence", scheme[p])
<1>1. /\ TypeOK /\ config \in Configurations /\ pc[p] = "receiveConvergence"
      /\ channel[p] # <<>> /\ Receive(p) /\ First # Second
      /\ UNCHANGED <<written, received>>
  BY ConfigTypes DEF IInv, TypeOK, ReceiveConvergence, At, HasMessage
<1>2. pc' = [pc EXCEPT ![p] = "receiveData"] /\ scheme' = [scheme EXCEPT ![p] = c]
  BY <1>1 DEF ReceiveConvergence, Goto, TypeOK
<1>3. /\ scheme[p] \in Schemes /\ Joins(L, p, "receiveConvergence", scheme[p])
      /\ channel[p] \in Seq(Messages) /\ r \in Nat \ {0} /\ q \in Participants
  BY <1>1, AgreeAt, Others DEF TypeOK
<1>4. p = First /\ HasHeader(p)
  BY <1>1, <1>3, ParallelSizes DEF Joins, ParallelPlaces, Leaving, Participants
<1>5. /\ c.time = scheme[p].time /\ c.timeWindows = scheme[p].timeWindows
      /\ c.totalIterations = scheme[p].totalIterations /\ c.iterations = scheme[p].iterations
  BY <1>3 DEF Schemes
<1> HIDE DEF c
<1>6. /\ RoundAt("receiveData", c) = r /\ "receiveConvergence" \in ExchangeSteps
      /\ "receiveData" \notin InitializeSteps
  BY <1>1, <1>4, <1>5 DEF RoundAt, WindowAt, ExchangeSteps, InitializeSteps
<1>7. /\ ReadAt(p, "receiveConvergence", scheme[p]) = Header(p, r)
      /\ ReadAt(p, "receiveData", c) = Header(p, r) + 1 /\ Header(p, r) \in Nat
      /\ RoundRead(p, "receiveData", c) = RoundRead(p, "receiveConvergence", scheme[p])
  <2>1. Data(p, r) = Header(p, r) + 1 /\ Header(p, r) \in Nat
    BY <1>3, <1>4, Positions
  <2> QED
    BY <1>1, <1>4, <1>6, <2>1 DEF ReadAt, RoundRead
<1> HIDE DEF r
<1>8. channel'[q] = channel[q] /\ channel'[p] = Tail(channel[p])
  BY <1>1, Reads1
<1>9. /\ Parcels(L, p, channel'[p], ReadAt(p, "receiveData", c))
      /\ Parcels(L, q, channel'[q], ReadAt(q, pc[q], scheme[q]))
  <2>1. /\ Parcels(L, p, channel[p], Header(p, r))
        /\ Parcels(L, q, channel[q], ReadAt(q, pc[q], scheme[q]))
    BY <1>1, <1>3, <1>7 DEF Sampled
  <2> QED
    BY <1>1, <1>3, <1>7, <1>8, <2>1, NextParcels
<1> QED
  BY <1>1, <1>2, <1>5, <1>6, <1>7, <1>9, QuietSampled DEF r

\* A step to the end of a window writes what its round is to send.
LEMMA AdvanceSampled ==
  ASSUME IInv, config' = config, NEW L \in Ledgers, Agree(L), Sampled(L),
         NEW p \in Participants, Advance(p, ExchangeFirstData(p))
  PROVE  Sampled(L)'
<1> DEFINE q == Other(p)
           r == RoundAt("solving", scheme[p])
<1>1. /\ TypeOK /\ config \in Configurations /\ pc[p] = "solving" /\ channel' = channel
      /\ received' = received /\ StepBound \in Nat /\ First # Second
  BY ConfigAssumption, ConfigTypes DEF IInv, TypeOK, Advance, At
<1>2. PICK dt \in 1 .. StepBound :
        LET a == AddComputedTime(scheme[p], dt)
        IN  /\ scheme' = [scheme EXCEPT ![p] = FirstExchange(a)]
            /\ Goto(p, IF ReachedEndOfTimeWindow(a) THEN ExchangeFirstData(p) ELSE "solving")
  BY DEF Advance
<1> DEFINE a == AddComputedTime(scheme[p], dt)
           c == FirstExchange(a)
           place == IF ReachedEndOfTimeWindow(a) THEN ExchangeFirstData(p) ELSE "solving"
           now == Time!TimeOf(c.time)
<1>3. /\ dt \in Nat /\ pc' = [pc EXCEPT ![p] = place] /\ scheme' = [scheme EXCEPT ![p] = c]
  BY <1>1, <1>2 DEF Goto
<1>4. /\ scheme[p] \in Schemes /\ q \in Participants /\ q # p
      /\ pc'[p] = place /\ scheme'[p] = c
  BY <1>1, <1>3, Others DEF TypeOK
<1>5. /\ c.timeWindows = IF ReachedEndOfTimeWindow(a) THEN scheme[p].timeWindows + 1
                         ELSE scheme[p].timeWindows
      /\ c.totalIterations = scheme[p].totalIterations /\ c.iterations = scheme[p].iterations
      /\ c.time.start = scheme[p].time.start
  BY <1>3, <1>4, AdvanceMembers
<1>6. /\ p = First => place \in {"sendData", "solving"}
      /\ p = Second => place \in {"receiveData", "solving"}
      /\ place \in ExchangeSteps <=> ReachedEndOfTimeWindow(a)
      /\ "solving" \notin ExchangeSteps /\ {"sendData", "receiveData"} \subseteq ExchangeSteps
  BY <1>1 DEF ExchangeFirstData, ExchangeSteps
<1> HIDE DEF a, c, place
<1>7. /\ RoundAt(place, c) = r /\ Round(scheme[p]) = r /\ r \in Nat
      /\ OwnRoot(place, c) = OwnRoot("solving", scheme[p])
  BY <1>4, <1>5, <1>6 DEF RoundAt, WindowAt, Round, OwnRoot, Schemes
<1>8. /\ Holds(L, p, "solving", scheme[p], written[p], received[p])
      /\ Parcels(L, p, channel[p], Header(p, r))
      /\ Parcels(L, q, channel[q], ReadAt(q, pc[q], scheme[q]))
  BY <1>1, <1>4 DEF Sampled, ReadAt
<1>9. Timely(written'[p], now) /\ (place # "solving" => EndsIn(written'[p], r, now))
  BY <1>1, <1>4, <1>7, <1>8, AdvanceSamples DEF Holds
<1>10. /\ RoundRead(p, place, c) = RoundRead(p, "solving", scheme[p])
       /\ place \notin InitializeSteps /\ place # "constructed"
       /\ place \in ExchangeSteps => place # "solving"
  BY <1>1, <1>6, <1>7 DEF RoundRead, InitializeSteps, Participants
<1>11. Holds(L, p, place, c, written'[p], received'[p])
  <2>1. Got(L, p, RoundRead(p, place, c), received'[p])
    BY <1>1, <1>8, <1>10 DEF Holds
  <2>2. place \in ExchangeSteps => EndsIn(written'[p], RoundAt(place, c), now)
    BY <1>7, <1>9, <1>10
  <2>3. Starts(p, "solving", scheme[p], written[p], received[p])
    BY <1>8 DEF Holds
  <2>4. Starts(p, place, c, written'[p], received'[p])
    <3> DEFINE root == OwnRoot("solving", scheme[p])
    <3>1. root.t <= Time!TimeOf(scheme[p].time)
      BY <1>1, <1>4, RootAgrees
    <3> HIDE DEF root
    <3>2. Rooted(written[p], root) => root \in Samples
      <4>1. written[p] \in SUBSET Samples
        BY <1>1 DEF TypeOK
      <4> QED
        BY <4>1 DEF Rooted, TrimAfter
    <3>3. Rooted(written[p], root) => Rooted(written'[p], root)
      BY <1>1, <1>8, <3>1, <3>2, AdvanceSamples DEF Holds
    <3> QED
      BY <1>1, <1>7, <2>3, <3>3 DEF Starts, root
  <2> QED
    BY <1>9, <1>10, <2>1, <2>2, <2>4 DEF Holds
<1>12. ReadAt(p, place, c) = Header(p, r)
  <2>1. p = Second => Data(p, r) = Header(p, r)
    BY <1>1, ParallelSizes DEF Data, Header
  <2> QED
    BY <1>1, <1>6, <1>7, <2>1 DEF ReadAt, Participants
<1>13. written'[q] = written[q]
  BY <1>1, <1>4 DEF Advance, TypeOK
<1> QED
  BY <1>1, <1>3, <1>8, <1>11, <1>12, <1>13, SampledStep

\* What First sends is of its round.
LEMMA FirstSendsDataSampled ==
  ASSUME IInv, config' = config, NEW L \in Ledgers, Agree(L), Sampled(L),
         NEW p \in Participants, FirstSendsData(p)
  PROVE  Sampled(L)'
<1> DEFINE place == IF Implicit THEN "receiveConvergence" ELSE "receiveData"
           c == scheme[p]
           q == Other(p)
           r == RoundAt("sendData", c)
           n == ReadAt(q, pc[q], scheme[q])
<1>1. /\ TypeOK /\ config \in Configurations /\ pc[p] = "sendData" /\ p = First
      /\ SendStored(p, written[p]) /\ First # Second /\ UNCHANGED <<written, received>>
      /\ pc[p] \in ExchangeSteps
  BY ConfigTypes DEF IInv, TypeOK, FirstSendsData, At, ExchangeSteps
<1>2. pc' = [pc EXCEPT ![p] = place] /\ scheme' = [scheme EXCEPT ![p] = c]
  BY <1>1, Unchanged DEF FirstSendsData, Goto
<1>3. /\ channel[q] \in Seq(Messages) /\ r \in Nat \ {0} /\ q \in Participants
      /\ Stamp(L, r) = Time!TimeOf(c.time)
  BY <1>1, AgreeAt, Others, ExchangeStamps
<1>4. /\ Carries(L, q, channel[q], n, Data(q, r), "nothing") /\ Parcels(L, q, channel[q], n)
  <2>1. pc[p] \notin Leaving /\ SentAt(p, pc[p], c) = Data(q, r)
    BY <1>1 DEF Leaving, SentAt
  <2> QED
    BY <1>1, <1>3, <2>1, Streams DEF Sampled
<1>5. /\ RoundAt(place, c) = r /\ place \notin InitializeSteps /\ place # "constructed"
      /\ RoundRead(p, place, c) = RoundRead(p, "sendData", c)
  BY <1>1 DEF RoundAt, WindowAt, ExchangeSteps, InitializeSteps, RoundRead
<1>6. ReadAt(p, place, c) = ReadAt(p, "sendData", c)
  <2>1. ~Implicit => Data(p, r) = Header(p, r)
    BY <1>1, ParallelSizes DEF Data, Header
  <2> QED
    BY <1>1, <1>5, <2>1 DEF ReadAt
<1>7. /\ Stamped(written[p]) /\ EndsIn(written[p], r, Stamp(L, r))
      /\ p \in Sends => Rooted(written[p], Root(L, r))
  <2>1. OwnRoot(pc[p], scheme[p]) = Root(L, r)
    BY <1>1, RootAgrees
  <2> QED
    BY <1>1, <1>3, <2>1 DEF Sampled, Holds, Starts, Timely
<1> HIDE DEF place, r, n
<1>8. Parcels(L, q, channel'[q], n)
  <2>1. n \in Nat /\ (HasData(q) => n + Len(channel[q]) = Data(q, r))
    BY <1>3, <1>4, Positions DEF Carries
  <2> QED
    BY <1>1, <1>3, <1>4, <1>7, <2>1, SendsParcel
<1>9. Parcels(L, p, channel'[p], ReadAt(p, place, c))
  <2>1. channel'[p] = channel[p]
    BY <1>1, SendsData
  <2> QED
    BY <1>1, <1>6, <2>1 DEF Sampled
<1> QED
  BY <1>1, <1>2, <1>5, <1>8, <1>9, QuietSampled DEF n, r

\* What a round receives starts from its root if what was there does.
LEMMA RootReceived ==
  ASSUME TypeOK, NEW L, NEW p \in Participants, CanReceiveData(p), HasData(p),
         NEW r \in Nat \ {0}, Parcels(L, p, channel[p], Data(p, r)),
         Rooted(received[p], Root(L, r)), NEW now \in Nat, Stamp(L, r) = now,
         Root(L, r).t < now
  PROVE  Rooted(ReceivedAt(p, now), Root(L, r))
<1>1. Root(L, r) \in Samples
  <2>1. received[p] \in SUBSET Samples
    BY DEF TypeOK
  <2> QED
    BY <2>1 DEF Rooted, TrimAfter
<1> QED
  BY <1>1, ReceivesRoot

\* What Second receives is of its round.
LEMMA SecondReceivesDataSampled ==
  ASSUME IInv, config' = config, NEW L \in Ledgers, Agree(L), Sampled(L),
         NEW p \in Participants, SecondReceivesData(p)
  PROVE  Sampled(L)'
<1> DEFINE place == IF Implicit THEN "sendConvergence" ELSE "sendData"
           c == NotifyDataHasBeenReceived(scheme[p])
           q == Other(p)
           r == RoundAt("receiveData", scheme[p])
           now == Time!TimeOf(scheme[p].time)
<1>1. /\ TypeOK /\ config \in Configurations /\ pc[p] = "receiveData" /\ p = Second
      /\ CanReceiveData(p) /\ ReceiveDataMessage(p) /\ First # Second /\ written' = written
      /\ received' = [received EXCEPT ![p] = ReceivedAt(p, now)] /\ pc[p] \in ExchangeSteps
  BY ConfigTypes DEF IInv, TypeOK, SecondReceivesData, At, ExchangeSteps
<1>2. pc' = [pc EXCEPT ![p] = place] /\ scheme' = [scheme EXCEPT ![p] = c]
  BY <1>1 DEF SecondReceivesData, Goto, TypeOK
<1>3. /\ scheme[p] \in Schemes /\ r \in Nat \ {0} /\ q \in Participants /\ q # p
      /\ now \in Nat /\ Stamp(L, r) = now /\ Stamp(L, r - 1) <= now
  BY <1>1, AgreeAt, Others, ExchangeStamps
<1>4. Alike(scheme[p], c)
  BY <1>3, AlikeMembers
<1> HIDE DEF c
<1>5. /\ RoundAt(place, c) = r /\ place \notin InitializeSteps
      /\ place # "constructed" /\ OwnRoot(place, c) = OwnRoot("receiveData", scheme[p])
      /\ RoundRead(p, place, c) = r /\ RoundRead(p, "receiveData", scheme[p]) = r - 1
  BY <1>1, <1>3, <1>4 DEF Alike, RoundAt, WindowAt, OwnRoot, ExchangeSteps, InitializeSteps,
     RoundRead
<1>6. /\ ReadAt(p, "receiveData", scheme[p]) = Data(p, r)
      /\ ReadAt(p, place, c) = Header(p, r + 1)
  BY <1>1, <1>5 DEF ReadAt
<1>7. /\ Holds(L, p, "receiveData", scheme[p], written[p], received[p])
      /\ Parcels(L, p, channel[p], Data(p, r))
      /\ Parcels(L, q, channel[q], ReadAt(q, pc[q], scheme[q]))
  BY <1>1, <1>3, <1>6 DEF Sampled
<1>8. /\ Got(L, p, r - 1, received[p])
      /\ Starts(p, "receiveData", scheme[p], written[p], received[p])
  BY <1>5, <1>7 DEF Holds
<1>9. channel'[q] = channel[q]
  BY <1>1, ReadsData
<1>10. OwnRoot("receiveData", scheme[p]) = Root(L, r) /\ Root(L, r).t < now
  BY <1>1, <1>3, RootAgrees
<1> HIDE DEF r, now
<1>11. /\ Got(L, p, r, ReceivedAt(p, now))
       /\ Parcels(L, p, channel'[p], Header(p, r + 1))
  <2>1. r \in Nat
    BY <1>3
  <2> QED
    BY <1>1, <1>3, <1>7, <1>8, <2>1, ReceivesParcel
<1>12. received'[p] = ReceivedAt(p, now) /\ received'[q] = received[q] /\ written'[q] = written[q]
  BY <1>1, <1>3 DEF TypeOK
<1>13. Starts(p, place, c, written'[p], received'[p])
  <2>1. HasData(p) => Rooted(ReceivedAt(p, now), Root(L, r))
    BY <1>1, <1>3, <1>7, <1>8, <1>10, RootReceived DEF Starts
  <2> QED
    BY <1>1, <1>5, <1>8, <1>12, <1>10, <2>1 DEF Starts
<1> HIDE DEF place
<1>14. Holds(L, p, place, c, written'[p], received'[p])
  <2>1. /\ Timely(written[p], Time!TimeOf(c.time))
        /\ EndsIn(written[p], r, Time!TimeOf(c.time))
    BY <1>1, <1>4, <1>5, <1>7 DEF Holds, Alike, r
  <2> QED
    BY <1>1, <1>5, <1>11, <1>12, <1>13, <2>1 DEF Holds
<1>15. /\ Parcels(L, p, channel'[p], ReadAt(p, place, c))
       /\ Parcels(L, q, channel'[q], ReadAt(q, pc[q], scheme[q]))
  BY <1>6, <1>7, <1>9, <1>11
<1> HIDE DEF q
<1> QED
  BY <1>1, <1>2, <1>12, <1>14, <1>15, SampledStep DEF q

\* The verdict is no data: with a ledger that has it, the samples stay.
LEMMA SendConvergenceSampled ==
  ASSUME IInv, config' = config, NEW L \in Ledgers, Agree(L), Sampled(L),
         NEW p \in Participants, SendConvergence(p), pc'[p] # "failed",
         NEW K \in Ledgers, Keeps(L, K)
  PROVE  Sampled(K)'
<1> DEFINE q == Other(p)
           r == RoundAt("sendConvergence", scheme[p])
           n == ReadAt(q, pc[q], scheme[q])
<1>1. /\ TypeOK /\ config \in Configurations /\ pc[p] = "sendConvergence"
      /\ First # Second /\ UNCHANGED <<written, received>> /\ Sampled(K)
  BY ConfigTypes, SampledAlike DEF IInv, TypeOK, SendConvergence, At
<1>2. /\ scheme[p] \in Schemes /\ Joins(L, p, "sendConvergence", scheme[p])
      /\ q \in Participants /\ Other(q) = p /\ Joins(L, q, pc[q], scheme[q])
      /\ channel[q] \in Seq(Messages)
  BY <1>1, AgreeAt, Others
<1>3. p = Second
  BY <1>2 DEF Joins, ParallelPlaces, Leaving, Participants
<1>4. PICK converged \in SUBSET Measuring :
        LET c == DoImplicitStep(scheme[p], converged)
        IN  IF StrictMeasureFails(scheme[p], converged)
            THEN Goto(p, "failed")
            ELSE /\ Goto(p, "sendData")
                 /\ scheme' = [scheme EXCEPT ![p] = c]
                 /\ Send(p, [kind |-> "convergence", hasConverged |-> c.hasConverged])
  BY DEF SendConvergence
<1> DEFINE c == DoImplicitStep(scheme[p], converged)
           m == [kind |-> "convergence", hasConverged |-> c.hasConverged]
<1>5. /\ pc' = [pc EXCEPT ![p] = "sendData"] /\ scheme' = [scheme EXCEPT ![p] = c]
      /\ Send(p, m)
  BY <1>1, <1>4 DEF Goto, TypeOK
<1>6. /\ c \in Schemes /\ c.time = scheme[p].time /\ c.timeWindows = scheme[p].timeWindows
      /\ c.totalIterations = scheme[p].totalIterations /\ c.iterations = scheme[p].iterations
  BY <1>2, DoImplicitStepMembers
<1>7. m \in Messages /\ m.kind # "data"
  BY <1>6 DEF Messages, Schemes
<1> HIDE DEF c, m
<1>8. /\ RoundAt("sendData", c) = r /\ "sendConvergence" \in ExchangeSteps
      /\ "sendData" \notin InitializeSteps
      /\ RoundRead(p, "sendData", c) = RoundRead(p, "sendConvergence", scheme[p])
  BY <1>1, <1>3, <1>6 DEF RoundAt, WindowAt, ExchangeSteps, InitializeSteps, RoundRead
<1>9. ReadAt(p, "sendData", c) = ReadAt(p, "sendConvergence", scheme[p])
  BY <1>1, <1>3, <1>8 DEF ReadAt
<1>10. channel'[p] = channel[p] /\ channel'[q] = Append(channel[q], m)
  BY <1>1, <1>5, <1>7, Sends1
<1>11. /\ Parcels(K, p, channel[p], ReadAt(p, "sendData", c))
       /\ Parcels(K, q, channel[q], n) /\ n \in Nat
  BY <1>1, <1>2, <1>9, Bounds DEF Sampled
<1> HIDE DEF n, r
<1>12. Parcels(K, q, channel'[q], n)
  BY <1>2, <1>7, <1>10, <1>11, MoreParcels
<1> QED
  BY <1>1, <1>5, <1>6, <1>8, <1>9, <1>10, <1>11, <1>12, QuietSampled DEF n, r

\* secondExchange() leaves the samples at the root of the next round.
LEMMA StartsAfresh ==
  ASSUME IInv, config' = config, NEW K, Sampled(K), NEW p \in Participants,
         pc[p] \in ExchangeSteps, NEW c \in Schemes, Alike(scheme[p], c),
         NEW r \in Nat \ {0}, r = RoundAt(pc[p], scheme[p]),
         Stamp(K, r) = Time!TimeOf(scheme[p].time),
         NEW x \in SUBSET Samples, Got(K, p, r, x),
         HasData(p) => Rooted(x, OwnRoot(pc[p], scheme[p])),
         FinishAdvance(p, c, Moved(c, written[p]), Moved(c, x)),
         RoundAt("solving", SecondExchange(c)) = r + 1
  PROVE  Starts(p, "solving", SecondExchange(c), written'[p], received'[p])
<1> DEFINE d == SecondExchange(c)
           root == OwnRoot("solving", d)
           now == Time!TimeOf(c.time)
<1>1. /\ TypeOK /\ written[p] \in SUBSET Samples /\ scheme[p] \in Schemes
      /\ now \in Nat /\ now = Time!TimeOf(scheme[p].time) /\ c.iterations \in Nat
      /\ c.iterations = scheme[p].iterations /\ c.time = scheme[p].time
  BY TimeOfType DEF IInv, TypeOK, Alike, Schemes
<1>2. /\ Stamped(written[p]) /\ EndsIn(written[p], r, now)
      /\ p \in Sends => Rooted(written[p], OwnRoot(pc[p], scheme[p]))
  <2>1. Holds(K, p, pc[p], scheme[p], written[p], received[p]) /\ pc[p] # "constructed"
    BY DEF Sampled, ExchangeSteps
  <2> QED
    BY <1>1, <2>1 DEF Holds, Starts, Timely
<1>3. root = IF Complete(c) THEN RootOf(now, r) ELSE OwnRoot(pc[p], scheme[p])
  <2>1. /\ d.iterations = IF Complete(c) THEN 1 ELSE c.iterations + 1
        /\ d.time.start = IF Complete(c) THEN now ELSE c.time.start
        /\ RoundAt("solving", d) = r + 1
    BY SecondExchangeMembers
  <2> HIDE DEF d, now
  <2>2. (r + 1) - 1 = r /\ (r + 1) - (c.iterations + 1) = r - c.iterations
    BY <1>1
  <2> QED
    BY <1>1, <2>1, <2>2 DEF OwnRoot
<1>4. root.t = d.time.start
  BY DEF OwnRoot, RootOf
<1> HIDE DEF d, root
<1>5. p \in Sends => Rooted(Moved(c, written[p]), root)
  BY <1>1, <1>2, <1>3, RootMoved
<1>6. HasData(p) => Rooted(Moved(c, x), root)
  BY <1>1, <1>3, RootMoved DEF Got
<1>7. p \in Sends \/ HasData(p) => root \in Samples
  <2>1. \A store \in SUBSET Samples : Rooted(store, root) => root \in Samples
    BY DEF Rooted, TrimAfter
  <2>2. Moved(c, written[p]) \in SUBSET Samples /\ Moved(c, x) \in SUBSET Samples
    BY <1>1 DEF Moved, MoveToNextWindow, Last
  <2> QED
    BY <1>5, <1>6, <2>1, <2>2
<1>8. /\ p \in Sends => Rooted(written'[p], root)
      /\ HasData(p) => Rooted(received'[p], root)
  <2> DEFINE w == Moved(c, written[p])
             y == Moved(c, x)
  <2> HIDE DEF w, y
  <2>1. FinishAdvance(p, c, w, y)
    BY DEF w, y
  <2>2. /\ p \in Sends => Rooted(w, root)
        /\ HasData(p) => Rooted(y, root)
    BY <1>5, <1>6 DEF w, y
  <2> QED
    BY <1>1, <1>4, <1>7, <2>1, <2>2, FinishRoots DEF d
<1> QED
  BY <1>8 DEF Starts, root, d

\* secondExchange() moves the samples to the next round.
LEMMA FinishSampled ==
  ASSUME IInv, config' = config, NEW K \in Ledgers, Sampled(K), NEW p \in Participants,
         pc[p] = Told(p), NEW c \in Schemes, Alike(scheme[p], c),
         NEW r \in Nat \ {0}, r = RoundAt(pc[p], scheme[p]),
         Stamp(K, r) = Time!TimeOf(scheme[p].time),
         NEW x \in SUBSET Samples, Got(K, p, r, x),
         HasData(p) => Rooted(x, OwnRoot(pc[p], scheme[p])),
         FinishAdvance(p, c, Moved(c, written[p]), Moved(c, x)),
         Parcels(K, p, channel'[p], Header(p, r + 1)), NEW q, q = Other(p),
         Parcels(K, q, channel'[q], ReadAt(q, pc[q], scheme[q]))
  PROVE  Sampled(K)'
<1> DEFINE d == SecondExchange(c)
           now == Time!TimeOf(c.time)
<1>1. /\ TypeOK /\ now = Time!TimeOf(scheme[p].time) /\ now \in Nat
      /\ pc[p] \in ExchangeSteps /\ "solving" \notin ExchangeSteps
      /\ q \in Participants /\ q # p
  BY TimeOfType, Others DEF IInv, TypeOK, Alike, Schemes, Told, ExchangeSteps
<1>2. /\ pc' = [pc EXCEPT ![p] = "solving"] /\ scheme' = [scheme EXCEPT ![p] = d]
      /\ written'[q] = written[q] /\ received'[q] = received[q]
  BY <1>1 DEF FinishAdvance, Goto, TypeOK
<1>3. scheme'[p] = d
  BY <1>1, <1>2 DEF TypeOK
<1>4. Timely(written[p], now)
  BY <1>1 DEF Sampled, Holds
<1>5. Timely(written'[p], Time!TimeOf(d.time)) /\ Got(K, p, r, received'[p])
  <2> DEFINE w == Moved(c, written[p])
             y == Moved(c, x)
  <2>1. Timely(w, now) /\ Got(K, p, r, y) /\ FinishAdvance(p, c, w, y)
    BY <1>4, MovedSamples
  <2>2. Stamp(K, r) >= now
    BY <1>1
  <2> HIDE DEF w, y, d
  <2> QED
    BY <1>1, <1>3, <2>1, <2>2, FinishSamples
<1>6. RoundAt("solving", d) = r + 1
  <2>1. /\ d.timeWindows = IF Complete(c) THEN c.timeWindows ELSE c.timeWindows - 1
        /\ d.totalIterations = IF Implicit THEN c.totalIterations + 1 ELSE c.totalIterations
    BY SecondExchangeMembers
  <2>2. r = IF Implicit THEN c.totalIterations ELSE c.timeWindows - 1
    BY <1>1 DEF RoundAt, WindowAt, Alike
  <2> HIDE DEF d
  <2> QED
    BY <1>1, <2>1, <2>2 DEF RoundAt, WindowAt, Complete, Schemes
<1>7. RoundRead(p, "solving", d) = r /\ ReadAt(p, "solving", d) = Header(p, r + 1)
  BY <1>1, <1>6 DEF RoundRead, ReadAt
<1>8. Starts(p, "solving", d, written'[p], received'[p])
  BY <1>1, <1>6, StartsAfresh
<1> HIDE DEF d, now
<1>9. Holds(K, p, "solving", d, written'[p], received'[p])
  BY <1>1, <1>5, <1>7, <1>8 DEF Holds, InitializeSteps
<1> QED
  BY <1>1, <1>2, <1>7, <1>9, SampledStep

\* What Second sends is of its round.
LEMMA SecondSendsDataSampled ==
  ASSUME IInv, config' = config, NEW L \in Ledgers, Agree(L), Sampled(L),
         NEW p \in Participants, SecondSendsData(p), NEW K \in Ledgers, Keeps(L, K)
  PROVE  Sampled(K)'
<1> DEFINE c == scheme[p]
           q == Other(p)
           r == RoundAt(pc[p], c)
           n == ReadAt(q, pc[q], scheme[q])
<1>1. /\ TypeOK /\ config \in Configurations /\ pc[p] = "sendData" /\ p = Second
      /\ SendStored(p, written[p]) /\ First # Second /\ pc[p] \in ExchangeSteps
      /\ FinishAdvance(p, c, Moved(c, written[p]), Moved(c, received[p]))
  BY ConfigTypes DEF IInv, TypeOK, SecondSendsData, At, ExchangeSteps
<1>2. /\ c \in Schemes /\ Alike(c, c) /\ pc[p] = Told(p)
      /\ channel[q] \in Seq(Messages) /\ r \in Nat \ {0} /\ q \in Participants
      /\ Stamp(L, r) = Time!TimeOf(c.time) /\ Sampled(K)
  BY <1>1, AgreeAt, Others, ExchangeStamps, SampledAlike DEF Alike, Told
<1>3. Stamp(K, r) = Time!TimeOf(c.time)
  <2>1. r \in Nat /\ r <= r
    BY <1>2
  <2> QED
    BY <1>2, <2>1 DEF Keeps
<1>4. /\ RoundRead(p, pc[p], c) = r /\ pc[p] # "constructed"
      /\ ReadAt(p, pc[p], c) = Header(p, r + 1)
  BY <1>1, <1>2 DEF RoundRead, ReadAt
<1>5. /\ Carries(L, q, channel[q], n, Data(q, r), "nothing") /\ Parcels(K, q, channel[q], n)
  <2>1. pc[p] \notin Leaving /\ SentAt(p, pc[p], c) = Data(q, r)
    BY <1>1 DEF Leaving, SentAt
  <2> QED
    BY <1>1, <1>2, <2>1, Streams DEF Sampled
<1>6. Holds(K, p, pc[p], c, written[p], received[p])
  BY <1>2 DEF Sampled
<1> HIDE DEF r
<1>7. /\ Stamped(written[p]) /\ EndsIn(written[p], r, Stamp(K, r))
      /\ Got(K, p, r, received[p]) /\ received[p] \in SUBSET Samples
      /\ p \in Sends => Rooted(written[p], Root(K, r))
      /\ HasData(p) => Rooted(received[p], OwnRoot(pc[p], c))
  <2>1. OwnRoot(pc[p], c) = Root(K, r)
    <3>1. r \in Nat /\ r <= r /\ OwnRoot(pc[p], c) = Root(L, r)
      BY <1>1, <1>2, RootAgrees DEF r
    <3> QED
      BY <3>1 DEF Keeps, r
  <2> QED
    BY <1>1, <1>3, <1>4, <1>6, <2>1 DEF Holds, Starts, Timely, TypeOK, r
<1> HIDE DEF n
<1>8. Parcels(K, q, channel'[q], n)
  <2>1. n \in Nat /\ (HasData(q) => n + Len(channel[q]) = Data(q, r))
    BY <1>2, <1>5, Positions DEF Carries
  <2> QED
    BY <1>1, <1>2, <1>5, <1>7, <2>1, SendsParcel
<1>9. Parcels(K, p, channel'[p], Header(p, r + 1))
  <2>1. channel'[p] = channel[p]
    BY <1>1, SendsData
  <2> QED
    BY <1>2, <1>4, <2>1 DEF Sampled
<1> QED
  BY <1>1, <1>2, <1>3, <1>7, <1>8, <1>9, FinishSampled DEF n, r

\* What First receives is of its round.
LEMMA FirstReceivesDataSampled ==
  ASSUME IInv, config' = config, NEW L \in Ledgers, Agree(L), Sampled(L),
         NEW p \in Participants, FirstReceivesData(p), NEW K \in Ledgers, Keeps(L, K)
  PROVE  Sampled(K)'
<1> DEFINE c == NotifyDataHasBeenReceived(scheme[p])
           q == Other(p)
           r == RoundAt(pc[p], scheme[p])
           now == Time!TimeOf(scheme[p].time)
           x == ReceivedAt(p, Time!TimeOf(c.time))
<1>1. /\ TypeOK /\ config \in Configurations /\ pc[p] = "receiveData" /\ p = First
      /\ CanReceiveData(p) /\ ReceiveDataMessage(p) /\ First # Second /\ pc[p] \in ExchangeSteps
      /\ FinishAdvance(p, c, Moved(c, written[p]), Moved(c, x))
  BY ConfigTypes DEF IInv, TypeOK, FirstReceivesData, At, ExchangeSteps
<1>2. /\ scheme[p] \in Schemes /\ pc[p] = Told(p) /\ q \in Participants /\ q # p
      /\ r \in Nat \ {0} /\ now \in Nat /\ Stamp(L, r) = now
      /\ Stamp(L, r - 1) <= now /\ Sampled(K)
  BY <1>1, AgreeAt, Others, ExchangeStamps, SampledAlike DEF Told
<1>3. c \in Schemes /\ Alike(scheme[p], c) /\ c.time = scheme[p].time
  BY <1>2, AlikeMembers, NotifyMembers
<1>4. /\ Stamp(K, r) = now /\ Stamp(K, r - 1) <= now
      /\ OwnRoot(pc[p], scheme[p]) = Root(K, r) /\ Root(K, r).t < now
  <2>1. r \in Nat /\ r <= r /\ r - 1 \in Nat /\ r - 1 <= r
    BY <1>2
  <2>2. OwnRoot(pc[p], scheme[p]) = Root(L, r) /\ Root(L, r).t < now
    BY <1>1, <1>2, RootAgrees
  <2> QED
    BY <1>2, <2>1, <2>2 DEF Keeps
<1>5. /\ RoundRead(p, pc[p], scheme[p]) = r - 1 /\ pc[p] # "constructed"
      /\ ReadAt(p, pc[p], scheme[p]) = Data(p, r)
  BY <1>1 DEF RoundRead, ReadAt
<1>6. /\ Holds(K, p, pc[p], scheme[p], written[p], received[p])
      /\ Parcels(K, p, channel[p], Data(p, r))
      /\ Parcels(K, q, channel[q], ReadAt(q, pc[q], scheme[q]))
  BY <1>2, <1>5 DEF Sampled
<1>7. /\ Got(K, p, r - 1, received[p]) /\ x = ReceivedAt(p, now)
      /\ HasData(p) => Rooted(received[p], Root(K, r))
  BY <1>3, <1>4, <1>5, <1>6 DEF Holds, Starts
<1>8. x \in SUBSET Samples
  BY <1>1, <1>2, <1>7, ReceiveDataTypes
<1> HIDE DEF c, r, now, x
<1>9. Got(K, p, r, x) /\ Parcels(K, p, channel'[p], Header(p, r + 1))
  <2>1. r \in Nat
    BY <1>2
  <2> QED
    BY <1>1, <1>2, <1>4, <1>6, <1>7, <2>1, ReceivesParcel
<1>10. Parcels(K, q, channel'[q], ReadAt(q, pc[q], scheme[q]))
  <2>1. channel'[q] = channel[q]
    BY <1>1, ReadsData
  <2> QED
    BY <1>6, <2>1
<1>11. r = RoundAt(pc[p], scheme[p]) /\ Stamp(K, r) = Time!TimeOf(scheme[p].time)
  BY <1>4 DEF r, now
<1>12. HasData(p) => Rooted(x, OwnRoot(pc[p], scheme[p]))
  <2>1. r \in Nat /\ r # 0
    BY <1>2
  <2> QED
    BY <1>1, <1>2, <1>4, <1>6, <1>7, <2>1, RootReceived
<1> HIDE DEF q
<1> QED
  BY <1>1, <1>2, <1>3, <1>9, <1>10, <1>11, <1>8, <1>12, FinishSampled DEF q

\* In every reachable state the samples that a participant has and those on their
\* way to it are of the rounds of the ledger that they are thought to be of.
DataAgreement ==
  IInv /\ ((Broken /\ StampsTrue) \/ \E L \in Ledgers : Agree(L) /\ Sampled(L))

\* All samples have the time that they were computed for.
LEMMA SampledTrue ==
  ASSUME NEW L, Sampled(L)
  PROVE  StampsTrue
<1> SUFFICES ASSUME NEW p \in Participants, NEW s \in written[p] \cup received[p]
             PROVE  s.t = s.at
  BY DEF StampsTrue
<1>1. Holds(L, p, pc[p], scheme[p], written[p], received[p])
  BY DEF Sampled
<1>2. CASE s \in written[p]
  BY <1>1, <1>2 DEF Holds, Timely, Stamped
<1>3. CASE s \in received[p]
  BY <1>1, <1>3 DEF Holds, Got, Stamped
<1> QED
  BY <1>2, <1>3

\* Every step of a participant keeps what both of them have and send.
LEMMA SampleStep ==
  ASSUME IInv, NEW L \in Ledgers, Agree(L), Sampled(L), NEW p \in Participants, Participant(p)
  PROVE  (Broken' /\ StampsTrue') \/ \E K \in Ledgers : Agree(K)' /\ Sampled(K)'
<1>1. config' = config /\ TypeOK /\ IInv'
  BY ParticipantStep DEF Participant, IInv
<1>2. CASE Initialize(p, InitialExchange(p))
  BY <1>1, <1>2, InitializeAgrees, InitializeSampled
<1>3. CASE InitSend(p) \/ InitReceive(p)
  BY <1>1, <1>3, InitSendAgrees, InitReceiveAgrees, InitSendSampled, InitReceiveSampled
<1>4. CASE Advance(p, ExchangeFirstData(p))
  BY <1>1, <1>4, AdvanceAgrees, AdvanceSampled
<1>5. CASE FirstSendsData(p) \/ SecondReceivesData(p)
  BY <1>1, <1>5, FirstSendsDataAgrees, SecondReceivesDataAgrees, FirstSendsDataSampled,
     SecondReceivesDataSampled
<1>6. CASE SendConvergence(p)
  <2>1. CASE Broken'
    <3>1. StampsTrue
      BY SampledTrue
    <3>2. UNCHANGED <<written, received>>
      BY <1>6 DEF SendConvergence
    <3> QED
      BY <2>1, <3>1, <3>2 DEF StampsTrue, Participants
  <2>2. CASE ~Broken'
    <3>1. pc'[p] # "failed" /\ \E K \in Ledgers : Agree(K)' /\ Keeps(L, K)
      BY <1>1, <1>6, <2>2, SendConvergenceAgrees
    <3>2. PICK K \in Ledgers : Agree(K)' /\ Keeps(L, K)
      BY <3>1
    <3>3. Sampled(K)'
      BY <1>1, <1>6, <3>1, <3>2, SendConvergenceSampled
    <3> QED
      BY <3>2, <3>3
  <2> QED
    BY <2>1, <2>2
<1>7. CASE SecondSendsData(p) \/ FirstReceivesData(p)
  <2>1. PICK K \in Ledgers : Agree(K)' /\ Keeps(L, K)
    BY <1>1, <1>7, SecondSendsDataAgrees, FirstReceivesDataAgrees
  <2>2. Sampled(K)'
    BY <1>1, <1>7, <2>1, SecondSendsDataSampled, FirstReceivesDataSampled
  <2> QED
    BY <2>1, <2>2
<1>8. CASE ReceiveConvergence(p)
  BY <1>1, <1>8, ReceiveConvergenceAgrees, ReceiveConvergenceSampled
<1>9. CASE ApiCall(p)
  <2>1. ~LosePartner(p)
    BY <1>1, NobodyIsLost
  <2>2. CASE RequiresWritingCheckpoint(p) \/ RequiresReadingCheckpoint(p)
    BY <1>1, <2>2, CheckpointAgrees, CheckpointSampled
  <2>3. CASE Finalize(p)
    BY <1>1, <2>3, FinalizeAgrees, FinalizeSampled
  <2>4. CASE ReceivePing(p)
    BY <1>1, <2>4, ReceivePingAgrees, ReceivePingSampled
  <2>5. CASE ReceivePong(p)
    BY <1>1, <2>5, ReceivePongAgrees, ReceivePongSampled
  <2> QED
    BY <1>9, <2>1, <2>2, <2>3, <2>4, <2>5 DEF ApiCall
<1> QED
  BY <1>2, <1>3, <1>4, <1>5, <1>6, <1>7, <1>8, <1>9 DEF Participant

\* Before initialize() there are no samples.
LEMMA InitSampled ==
  ASSUME Init, NEW L
  PROVE  Sampled(L)
<1>1. /\ TypeOK /\ config \in Configurations
  BY InitConsistent DEF IInv, TypeOK
<1> SUFFICES ASSUME NEW p \in Participants
             PROVE  /\ Holds(L, p, pc[p], scheme[p], written[p], received[p])
                    /\ Parcels(L, p, channel[p], ReadAt(p, pc[p], scheme[p]))
  BY DEF Sampled
<1>2. /\ pc[p] = "constructed" /\ written[p] = {} /\ received[p] = {} /\ channel[p] = <<>>
  BY DEF Init
<1>3. \A n : Parcels(L, p, <<>>, n)
  BY DEF Parcels
<1>4. \A now : Timely({}, now)
  BY EmptyParts
<1> QED
  BY <1>2, <1>3, <1>4 DEF Holds, InitializeSteps, ExchangeSteps

\* What changes nothing keeps the samples.
LEMMA StutterSampled ==
  ASSUME NEW L, Sampled(L), UNCHANGED vars
  PROVE  Sampled(L)'
<1>1. UNCHANGED <<config, pc, scheme, channel, written, received>>
  BY DEF vars
<1> SUFFICES ASSUME NEW p \in Participants
             PROVE  /\ Holds(L, p, pc[p], scheme[p], written[p], received[p])'
                    /\ Parcels(L, p, channel[p], ReadAt(p, pc[p], scheme[p]))'
  BY DEF Sampled, Participants
<1>2. /\ Holds(L, p, pc[p], scheme[p], written[p], received[p])
      /\ Parcels(L, p, channel[p], ReadAt(p, pc[p], scheme[p]))
  BY DEF Sampled
<1> QED
  BY <1>1, <1>2, HoldsNext

\* In every reachable state the samples that a participant has and those on their
\* way to it are of the rounds of the ledger that they are thought to be of.
LEMMA ParallelDataAgreement == Init /\ [][Next]_vars => []DataAgreement
<1>1. Init => DataAgreement
  BY InitConsistent, InitAgrees, InitSampled DEF DataAgreement
<1>2. DataAgreement /\ [Next]_vars => DataAgreement'
  <2> SUFFICES ASSUME DataAgreement, [Next]_vars PROVE DataAgreement'
    OBVIOUS
  <2>1. CASE UNCHANGED vars
    <3>1. IInv' /\ (Broken /\ StampsTrue => Broken' /\ StampsTrue')
      BY <2>1, StutterStep DEF DataAgreement, Broken, StampsTrue, Participants, Implicit, vars
    <3>2. ASSUME NEW L \in Ledgers, Agree(L), Sampled(L)
          PROVE  \E K \in Ledgers : Agree(K)' /\ Sampled(K)'
      BY <2>1, <3>2, StutterAgrees, StutterSampled
    <3> QED
      BY <3>1, <3>2 DEF DataAgreement, Ledgers, Entries
  <2>2. ASSUME NEW p \in Participants, Participant(p) PROVE DataAgreement'
    <3>1. IInv /\ IInv' /\ TypeOK
      BY <2>2, ParticipantStep DEF DataAgreement, IInv
    <3>2. Broken /\ StampsTrue => Broken' /\ StampsTrue'
      BY <2>2, <3>1, BrokenStep DEF StampsTrue, Participants
    <3>3. ASSUME NEW L \in Ledgers, Agree(L), Sampled(L)
          PROVE  (Broken' /\ StampsTrue') \/ \E K \in Ledgers : Agree(K)' /\ Sampled(K)'
      BY <2>2, <3>1, <3>3, SampleStep
    <3> QED
      BY <3>1, <3>2, <3>3 DEF DataAgreement, Ledgers, Entries
  <2> QED
    BY <2>1, <2>2 DEF Next
<1> QED
  BY <1>1, <1>2, PTL

--------------------------------------------------------------------------------
(* What the samples give *)

\* Each sample is stored at the time that it was computed for.
LEMMA AgreedStampsTrue ==
  ASSUME DataAgreement
  PROVE  StampsTrue
BY SampledTrue DEF DataAgreement

\* What p is about to store is later than what it has.
LEMMA AgreedStampsInOrder ==
  ASSUME DataAgreement
  PROVE  StampsInOrder
<1>1. TypeOK /\ config \in Configurations
  BY DEF DataAgreement, IInv, TypeOK
<1>2. CASE Broken
  <2>1. \A p \in Participants :
          pc[p] \in {"sendData", "receiveConvergence", "failed"}
    BY <1>2 DEF Broken, Participants
  <2> QED
    BY <2>1 DEF StampsInOrder
<1>3. ASSUME NEW L \in Ledgers, Agree(L), Sampled(L)
      PROVE  StampsInOrder
  <2> SUFFICES ASSUME NEW p \in Participants
        PROVE  /\ pc[p] = "solving" => \A s \in written[p] : s.t <= Time!TimeOf(scheme[p].time)
               /\ pc[p] \in {"receiveData", "initReceiveData"} =>
                    CanSetSampleAtTime(received[p], Time!TimeOf(scheme[p].time))
               /\ pc[p] \notin {"receiveDataForWindowEnd", "initReceiveDataForWindowEnd"}
    BY DEF StampsInOrder
  <2> DEFINE now == Time!TimeOf(scheme[p].time)
             r == RoundAt(pc[p], scheme[p])
  <2>1. /\ Holds(L, p, pc[p], scheme[p], written[p], received[p])
        /\ Joins(L, p, pc[p], scheme[p]) /\ InRound(p, pc[p], scheme[p], L[r])
        /\ r \in Nat \ {0} /\ Kept(L, r) /\ received[p] \in SUBSET Samples
        /\ scheme[p] \in Schemes /\ First # Second
    BY <1>1, <1>3, AgreeAt, ConfigTypes DEF Sampled, TypeOK, Tracks
  <2>2. \A s \in written[p] : s.t <= now
    BY <2>1 DEF Holds, Timely
  <2>3. pc[p] \notin {"receiveDataForWindowEnd", "initReceiveDataForWindowEnd"}
    BY <2>1 DEF Joins, ParallelPlaces, Leaving
  <2>4. ASSUME pc[p] \in {"receiveData", "initReceiveData"}
        PROVE  CanSetSampleAtTime(received[p], now)
    <3> DEFINE k == r - 1
    <3>1. Got(L, p, k, received[p])
      BY <2>1, <2>4 DEF Holds, RoundRead
    <3>2. Stamp(L, k) \in Nat /\ Stamp(L, k) <= now /\ now \in Nat
      <4>1. CASE pc[p] = "receiveData"
        <5>1. pc[p] \in ExchangeSteps
          BY <4>1 DEF ExchangeSteps
        <5> QED
          BY <1>1, <1>3, <5>1, ExchangeStamps
      <4>2. CASE pc[p] = "initReceiveData"
        <5>1. r = 1
          BY <2>1, <4>2 DEF InRound, Early, InitializeSteps
        <5>2. Stamp(L, k) = 0
          BY <5>1 DEF Stamp
        <5>3. now \in Nat
          BY <2>1, TimeOfType DEF Schemes
        <5> QED
          BY <5>2, <5>3
      <4> QED
        BY <2>4, <4>1, <4>2
    <3> HIDE DEF k, now
    <3> QED
      BY <2>1, <3>1, <3>2, StoresLater
  <2> QED
    BY <2>2, <2>3, <2>4
<1> QED
  BY <1>2, <1>3 DEF DataAgreement

\* What p has at the start of a round is of the round before.
LEMMA AgreedFreshData ==
  ASSUME DataAgreement
  PROVE  FreshData
<1> SUFFICES ASSUME NEW p \in Participants, pc[p] = "solving", Other(p) \in Sends
             PROVE  EndsWithRound(p, Round(scheme[p]) - 1)
  BY DEF FreshData
<1>1. TypeOK
  BY DEF DataAgreement, IInv
<1>2. ~Broken
  BY DEF Broken, Participants
<1>3. PICK L \in Ledgers : Agree(L) /\ Sampled(L)
  BY <1>2 DEF DataAgreement
<1>4. Holds(L, p, "solving", scheme[p], written[p], received[p])
  BY <1>3 DEF Sampled
<1>5. RoundRead(p, "solving", scheme[p]) = Round(scheme[p]) - 1
  BY DEF RoundRead, RoundAt, WindowAt, ExchangeSteps, Round
<1>6. EndsIn(received[p], Round(scheme[p]) - 1, Stamp(L, Round(scheme[p]) - 1))
  BY <1>4, <1>5 DEF Holds, Got, HasData
<1> QED
  BY <1>6 DEF EndsIn, EndsWithRound, Last
--------------------------------------------------------------------------------
(* The promises of parallel coupling *)

\* For every configuration: a receive finds the message it is meant for.
THEOREM ParallelExpectedMessage == Spec => []ExpectedMessage
  BY ParallelAgreement, AgreedExpectedMessage, PTL DEF Spec

\* Participants that have finalized did the same windows, are at the same time
\* and left no message unread.
THEOREM ParallelEndTogether == Spec => []EndTogether
  BY ParallelAgreement, AgreedEndTogether, PTL DEF Spec

\* On both sides a window is complete only within min- and max-iterations,
\* though only Second measures and each counts on its own.
THEOREM ParallelIterationsWithinLimits == Spec => IterationsWithinLimits
<1>1. Agreement /\ [Next]_vars =>
        [\A p \in Participants :
           Implicit /\ pc[p] \in ExchangeSteps /\ pc'[p] = "solving"
                    /\ scheme'[p].isTimeWindowComplete =>
             /\ scheme[p].iterations >= MinIterations
             /\ MaxIterations # Undefined => scheme[p].iterations <= MaxIterations]_vars
  BY AgreedIterations
<1> QED
  BY <1>1, ParallelAgreement, PTL DEF Spec, IterationsWithinLimits

\* Parallel coupling implements Lockstep: neither participant that gets data
\* ends a round that the other has not come to, and both end it the same way.
THEOREM ParallelLockstep == Spec => KeepsLockstep
<1>1. Init => Promise!Init
  BY InitInLockstep
<1>2. Agreement /\ Agreement' /\ [Next]_vars =>
        [Promise!Next]_<<[p \in Participants |-> Position(p)],
                         {p \in Participants : Other(p) \notin Sends}>>
  BY AgreedLockstep
<1> QED
  BY <1>1, <1>2, ParallelAgreement, PTL DEF Spec, KeepsLockstep, Promise!Spec

\* The same with mapped data, which is the specification that TLC checks
THEOREM ParallelFlowPromises ==
  FlowSpec => []ExpectedMessage /\ []EndTogether /\ IterationsWithinLimits /\ KeepsLockstep
<1>1. Agreement /\ [Next]_vars =>
        [\A p \in Participants :
           Implicit /\ pc[p] \in ExchangeSteps /\ pc'[p] = "solving"
                    /\ scheme'[p].isTimeWindowComplete =>
             /\ scheme[p].iterations >= MinIterations
             /\ MaxIterations # Undefined => scheme[p].iterations <= MaxIterations]_vars
  BY AgreedIterations
<1>2. Init => Promise!Init
  BY InitInLockstep
<1>3. Agreement /\ Agreement' /\ [Next]_vars =>
        [Promise!Next]_<<[p \in Participants |-> Position(p)],
                         {p \in Participants : Other(p) \notin Sends}>>
  BY AgreedLockstep
<1> QED
  BY <1>1, <1>2, <1>3, ParallelFlowSteps, ParallelAgreement, AgreedExpectedMessage,
     AgreedEndTogether, PTL DEF IterationsWithinLimits, KeepsLockstep, Promise!Spec

\* With substeps or without, in every window and every iteration of it: a sample
\* is stored at the time that its writer computed it for.
THEOREM ParallelStampsTrue == Spec => []StampsTrue
  BY ParallelDataAgreement, AgreedStampsTrue, PTL DEF Spec

\* The assertion of setSampleAtTime() holds wherever a sample is stored.
THEOREM ParallelStampsInOrder == Spec => []StampsInOrder
  BY ParallelDataAgreement, AgreedStampsInOrder, PTL DEF Spec

\* Both participants compute a round with what the other wrote in the one before.
THEOREM ParallelFreshData == Spec => []FreshData
  BY ParallelDataAgreement, AgreedFreshData, PTL DEF Spec

\* The same with mapped data, which is the specification that TLC checks
THEOREM ParallelFlowSamples == FlowSpec => []StampsTrue /\ []StampsInOrder /\ []FreshData
  BY ParallelFlowSteps, ParallelDataAgreement, AgreedStampsTrue, AgreedStampsInOrder,
     AgreedFreshData, PTL
--------------------------------------------------------------------------------
(* The storages of the mappings *)

\* What p is to read is at its root, and in explicit coupling ends there.
LEMMA HeldRoot ==
  ASSUME TypeOK, NEW L \in Ledgers, Agree(L), Sampled(L), NEW p \in Participants, HasData(p),
         pc[p] # "constructed"
  PROVE  /\ Rooted(received[p], OwnRoot(pc[p], scheme[p]))
         /\ pc[p] = "solving" /\ ~Implicit => \A s \in received[p] : s.t <= scheme[p].time.start
<1> DEFINE r == RoundAt(pc[p], scheme[p])
<1>1. Holds(L, p, pc[p], scheme[p], written[p], received[p])
  BY DEF Sampled
<1>2. /\ Rooted(received[p], OwnRoot(pc[p], scheme[p]))
      /\ Got(L, p, RoundRead(p, pc[p], scheme[p]), received[p])
  BY <1>1 DEF Holds, Starts
<1>3. /\ r \in Nat \ {0} /\ Kept(L, r) /\ L[r].start = scheme[p].time.start
  BY AgreeAt DEF Tracks, InRound
<1> HIDE DEF r
<1>4. ASSUME ~Implicit PROVE Stamp(L, r - 1) = L[r].start
  <2>1. CASE r = 1
    BY <1>3, <2>1 DEF Stamp, Kept, First1
  <2>2. CASE r # 1
    <3>1. r - 1 \in 1 .. r - 1 /\ (r - 1) + 1 = r /\ r - 1 # 0
      BY <1>3, <2>2
    <3>2. Follows(L[r - 1], L[r])
      BY <1>3, <3>1 DEF Kept
    <3> QED
      BY <1>4, <3>1, <3>2 DEF Stamp, Follows, Done
  <2> QED
    BY <2>1, <2>2
<1>5. ASSUME pc[p] = "solving", ~Implicit
      PROVE  \A s \in received[p] : s.t <= scheme[p].time.start
  <2>1. RoundRead(p, pc[p], scheme[p]) = r - 1
    BY <1>5 DEF RoundRead, r
  <2>2. EndsIn(received[p], r - 1, L[r].start)
    BY <1>2, <1>4, <1>5, <2>1 DEF Got
  <2> QED
    BY <1>3, <2>2 DEF EndsIn
<1> QED
  BY <1>2, <1>5

\* The same after a step
LEMMA HeldRootNext ==
  ASSUME config' = config, NEW L, Sampled(L)', NEW p \in Participants, HasData(p),
         pc'[p] # "constructed"
  PROVE  Rooted(received'[p], OwnRoot(pc'[p], scheme'[p]))
<1>1. Holds(L, p, pc[p], scheme[p], written[p], received[p])'
  BY DEF Sampled, Participants
<1>2. Holds(L, p, pc'[p], scheme'[p], written'[p], received'[p])
  BY <1>1, HoldsNext
<1> QED
  BY <1>2 DEF Holds, Starts

\* Steps that neither begin nor end an exchange of data
Meanwhile(p) ==
  \/ InitSend(p) \/ InitReceive(p)
  \/ FirstSendsData(p) \/ SecondReceivesData(p) \/ SendConvergence(p) \/ ReceiveConvergence(p)
  \/ ApiCall(p)

\* These steps leave what is written and the time alone, and reach the solver only from
\* initialize() or with the samples it has.
LEMMA MeanwhileMembers ==
  ASSUME TypeOK, NEW p \in Participants, Meanwhile(p)
  PROVE  /\ written'[p] = written[p] /\ scheme'[p].time = scheme[p].time
         /\ scheme'[p].iterations = scheme[p].iterations
         /\ scheme'[p].timeWindows = scheme[p].timeWindows
         /\ scheme'[p].totalIterations = scheme[p].totalIterations
         /\ pc'[p] \in InitializeSteps => pc[p] \in InitializeSteps
         /\ pc'[p] \in ExchangeSteps => pc[p] \in ExchangeSteps
         /\ pc'[p] = "solving" =>
              \/ pc[p] \in InitializeSteps
              \/ pc[p] = "solving" /\ received'[p] = received[p]
         /\ pc'[p] # "constructed"
<1>1. scheme[p] \in Schemes /\ pc[p] \in Places
  BY DEF TypeOK
<1>2. CASE InitSend(p)
  BY <1>2 DEF InitSend, InitSendData, At, Goto, TypeOK, InitializeSteps, ExchangeSteps
<1>3. CASE InitReceive(p)
  <2>1. /\ pc[p] = "initReceiveData" /\ written' = written
        /\ scheme'[p] = NotifyDataHasBeenReceived(scheme[p])
        /\ pc'[p] \in {"initSendData", "solving"}
    BY <1>3 DEF InitReceive, InitReceiveData, At, Goto, TypeOK
  <2> QED
    BY <1>1, <2>1, AlikeMembers DEF Alike, InitializeSteps, ExchangeSteps
<1>4. CASE FirstSendsData(p)
  BY <1>4 DEF FirstSendsData, At, Goto, TypeOK, InitializeSteps, ExchangeSteps
<1>5. CASE SecondReceivesData(p)
  <2>1. /\ pc[p] = "receiveData" /\ written' = written
        /\ scheme'[p] = NotifyDataHasBeenReceived(scheme[p])
        /\ pc'[p] \in {"sendConvergence", "sendData"}
    BY <1>5 DEF SecondReceivesData, At, Goto, TypeOK
  <2> QED
    BY <1>1, <2>1, AlikeMembers DEF Alike, InitializeSteps, ExchangeSteps
<1>6. CASE SendConvergence(p)
  <2>1. PICK converged \in SUBSET Measuring :
          IF StrictMeasureFails(scheme[p], converged)
          THEN Goto(p, "failed") /\ scheme' = scheme
          ELSE /\ Goto(p, "sendData")
               /\ scheme' = [scheme EXCEPT ![p] = DoImplicitStep(scheme[p], converged)]
    BY <1>6 DEF SendConvergence
  <2>2. /\ pc[p] = "sendConvergence" /\ written' = written
        /\ scheme'[p] = scheme[p] \/ \E x : scheme'[p] = [scheme[p] EXCEPT !.hasConverged = x]
        /\ pc'[p] \in {"failed", "sendData"}
    BY <1>6, <2>1 DEF SendConvergence, At, Goto, TypeOK, DoImplicitStep
  <2> QED
    BY <1>1, <2>2 DEF Schemes, InitializeSteps, ExchangeSteps
<1>7. CASE ReceiveConvergence(p)
  <2>1. /\ pc[p] = "receiveConvergence" /\ written' = written
        /\ \E x : scheme'[p] = [scheme[p] EXCEPT !.hasConverged = x]
        /\ pc'[p] = "receiveData"
    BY <1>7 DEF ReceiveConvergence, At, Goto, TypeOK
  <2> QED
    BY <1>1, <2>1 DEF Schemes, InitializeSteps, ExchangeSteps
<1>8. CASE ApiCall(p)
  BY <1>8, ApiCallMembers DEF InitializeSteps, ExchangeSteps, Ends
<1> QED
  BY <1>2, <1>3, <1>4, <1>5, <1>6, <1>7, <1>8 DEF Meanwhile

\* What p writes is the same on both sides of its mapping after each of its steps.
LEMMA FlowWrites ==
  ASSUME IInv, Mappings, NEW p \in Participants, FlowParticipant(p),
         MapsWrites(scheme[p], pc[p], written[p], provided[p], mappedWrite[p])
  PROVE  MapsWrites(scheme'[p], pc'[p], written'[p], provided'[p], mappedWrite'[p])
<1>1. TypeOK /\ scheme[p] \in Schemes /\ written[p] \in SUBSET Samples
  BY DEF IInv, TypeOK
<1>2. CASE Initialize(p, InitialExchange(p)) /\ MapInitialWrittenData(p)
  <2>1. InitialExchange(p) \in InitializeSteps \cup {"solving"}
    BY DEF InitialExchange, InitializeSteps
  <2>2. mappedWrite[p] = {}
    BY <1>2 DEF MapsWrites, Initialize
  <2> QED
    BY <1>1, <1>2, <2>1, <2>2, MapsInitial
<1>3. CASE Advance(p, ExchangeFirstData(p)) /\ HandleDataBeforeAdvance(p)
  <2>1. ExchangeFirstData(p) \in ExchangeSteps
    BY DEF ExchangeFirstData, ExchangeSteps
  <2>2. pc[p] = "solving"
    BY <1>3 DEF Advance, At
  <2> QED
    BY <1>3, <2>1, <2>2, MapsStep
<1>4. CASE SecondSendsData(p) /\ DuringAdvance(p, ToKeep(p))
  <2> DEFINE c == scheme[p]
             r == Moved(c, received[p])
  <2>1. /\ FinishAdvance(p, c, Moved(c, written[p]), r) /\ pc[p] = "sendData"
        /\ pc'[p] = "solving"
    BY <1>1, <1>4 DEF SecondSendsData, At, FinishAdvance, Goto, TypeOK
  <2>2. HandleDataAfterAdvance(p, ToKeep(p))
    BY <1>4, <2>1 DEF DuringAdvance
  <2>3. /\ provided[p] = written[p] /\ mappedWrite[p] = written[p]
        /\ \A s \in written[p] : s.t <= Time!TimeOf(c.time)
    BY <2>1 DEF MapsWrites, ExchangeSteps
  <2> HIDE DEF r
  <2> QED
    BY <1>1, <2>1, <2>2, <2>3, MapsFinish
<1>5. CASE FirstReceivesData(p) /\ DuringAdvance(p, ToKeep(p))
  <2> DEFINE c == NotifyDataHasBeenReceived(scheme[p])
             r == Moved(c, ReceivedAt(p, Time!TimeOf(c.time)))
  <2>1. /\ FinishAdvance(p, c, Moved(c, written[p]), r) /\ pc[p] = "receiveData"
        /\ pc'[p] = "solving"
    BY <1>1, <1>5 DEF FirstReceivesData, At, FinishAdvance, Goto, TypeOK
  <2>2. HandleDataAfterAdvance(p, ToKeep(p))
    BY <1>5, <2>1 DEF DuringAdvance
  <2>3. c \in Schemes /\ c.time = scheme[p].time
    BY <1>1, NotifyMembers
  <2>4. /\ provided[p] = written[p] /\ mappedWrite[p] = written[p]
        /\ \A s \in written[p] : s.t <= Time!TimeOf(c.time)
    BY <2>1, <2>3 DEF MapsWrites, ExchangeSteps
  <2> HIDE DEF c, r
  <2> QED
    BY <1>1, <2>1, <2>2, <2>3, <2>4, MapsFinish
<1>6. ASSUME Meanwhile(p), provided'[p] = provided[p], mappedWrite'[p] = mappedWrite[p]
      PROVE  MapsWrites(scheme'[p], pc'[p], written'[p], provided'[p], mappedWrite'[p])
  BY <1>1, <1>6, MeanwhileMembers, MapsMeanwhile
<1>7. CASE (InitSend(p) \/ InitReceive(p)) /\ DuringInitialize(p)
  BY <1>6, <1>7 DEF Meanwhile, DuringInitialize
<1>8. CASE /\ \/ FirstSendsData(p) \/ SecondReceivesData(p)
              \/ SendConvergence(p) \/ ReceiveConvergence(p)
           /\ DuringAdvance(p, ToKeep(p))
  <2>1. pc'[p] # "solving"
    BY <1>1, <1>8 DEF FirstSendsData, SecondReceivesData, SendConvergence, ReceiveConvergence,
                      Goto, TypeOK
  <2>2. UNCHANGED flow
    BY <1>8, <2>1 DEF DuringAdvance
  <2> QED
    BY <1>6, <1>8, <2>2 DEF Meanwhile, flow
<1>9. CASE ApiCall(p) /\ UNCHANGED flow
  BY <1>6, <1>9 DEF Meanwhile, flow
<1> QED
  BY <1>2, <1>3, <1>4, <1>5, <1>7, <1>8, <1>9 DEF FlowParticipant

\* What p is to read is mapped anew in each of its steps that end a call.
LEMMA FlowReads ==
  ASSUME IInv, IInv', Mappings, NEW p \in Participants, FlowParticipant(p), HasData(p),
         NEW L \in Ledgers, Agree(L), Sampled(L), NEW K, Sampled(K)',
         MapsReads(ToKeep(p), pc[p], scheme[p], received[p], mappedRead[p])
  PROVE  MapsReads(ToKeep(p), pc'[p], scheme'[p], received'[p], mappedRead'[p])
<1>1. /\ TypeOK /\ scheme[p] \in Schemes /\ received[p] \in SUBSET Samples
      /\ received'[p] \in SUBSET Samples /\ config' = config /\ ToKeep(p) = FALSE
  BY DEF IInv, TypeOK, FlowParticipant, ToKeep
<1>2. pc'[p] # "constructed" => Rooted(received'[p], OwnRoot(pc'[p], scheme'[p]))
  BY <1>1, HeldRootNext
<1>3. ASSUME MapInitialReadData(p), pc[p] \in Early, pc'[p] \in InitializeSteps \cup {"solving"}
      PROVE  MapsReads(ToKeep(p), pc'[p], scheme'[p], received'[p], mappedRead'[p])
  <2>1. mappedRead[p] = {}
    BY <1>3 DEF MapsReads
  <2> QED
    BY <1>1, <1>3, <2>1, ReadsInitial
<1>4. CASE Initialize(p, InitialExchange(p)) /\ MapInitialWrittenData(p)
  <2>1. pc[p] \in Early /\ pc'[p] \in InitializeSteps \cup {"solving"}
    BY <1>1, <1>4 DEF Initialize, Goto, InitialExchange, Early, InitializeSteps, TypeOK
  <2> QED
    BY <1>3, <1>4, <2>1 DEF MapInitialWrittenData
<1>5. CASE (InitSend(p) \/ InitReceive(p)) /\ DuringInitialize(p)
  <2>1. pc[p] \in Early /\ pc'[p] \in InitializeSteps \cup {"solving"}
    BY <1>1, <1>5 DEF InitSend, InitReceive, InitSendData, InitReceiveData, At, Goto, Early,
                      InitializeSteps, TypeOK
  <2> QED
    BY <1>3, <1>5, <2>1 DEF DuringInitialize
<1>6. CASE Advance(p, ExchangeFirstData(p)) /\ HandleDataBeforeAdvance(p)
  <2>1. /\ pc[p] = "solving" /\ received'[p] = received[p] /\ mappedRead'[p] = mappedRead[p]
        /\ pc'[p] \in {"solving", "sendData", "receiveData"}
    BY <1>1, <1>6 DEF Advance, At, Goto, ExchangeFirstData, HandleDataBeforeAdvance, TypeOK
  <2>2. mappedRead'[p] = received'[p]
    BY <2>1 DEF MapsReads
  <2>3. ~Implicit => \A s \in received'[p] : s.t <= scheme'[p].time.start
    <3>1. pc[p] # "constructed"
      BY <2>1
    <3>2. ~Implicit => \A s \in received[p] : s.t <= scheme[p].time.start
      BY <1>1, <2>1, <3>1, HeldRoot
    <3>3. scheme'[p].time.start = scheme[p].time.start
      <4>1. PICK dt \in 1 .. StepBound :
              scheme' = [scheme EXCEPT ![p] = FirstExchange(AddComputedTime(scheme[p], dt))]
        BY <1>6 DEF Advance
      <4>2. scheme'[p] = FirstExchange(AddComputedTime(scheme[p], dt)) /\ dt \in Nat
        BY <1>1, <4>1, ConfigAssumption DEF TypeOK
      <4> QED
        BY <1>1, <4>2, AdvanceMembers
    <3> QED
      BY <2>1, <3>2, <3>3
  <2>4. pc'[p] \notin Early
    BY <2>1 DEF Early, InitializeSteps
  <2>5. pc'[p] \in ExchangeSteps => Rooted(received'[p], OwnRoot(pc'[p], scheme'[p]))
    BY <1>2, <2>1
  <2> QED
    BY <1>1, <2>2, <2>3, <2>4, <2>5 DEF MapsReads
<1>7. ASSUME NEW c \in Schemes, Alike(scheme[p], c), NEW w, NEW r, FinishAdvance(p, c, w, r),
             DuringAdvance(p, ToKeep(p)), pc[p] \in ExchangeSteps
      PROVE  MapsReads(ToKeep(p), pc'[p], scheme'[p], received'[p], mappedRead'[p])
  <2>1. /\ pc'[p] = "solving" /\ scheme'[p] = SecondExchange(c)
        /\ HandleDataAfterAdvance(p, ToKeep(p))
    BY <1>1, <1>7 DEF FinishAdvance, Goto, DuringAdvance, TypeOK
  <2>2. c.time.progress > 0 /\ RoundAt(pc[p], c) \in Nat
    <3>1. /\ RoundAt(pc[p], scheme[p]) \in Nat
          /\ InRound(p, pc[p], scheme[p], L[RoundAt(pc[p], scheme[p])])
      BY <1>1, AgreeAt
    <3>2. RoundAt(pc[p], scheme[p]) = RoundAt(pc[p], c)
      BY <1>7 DEF RoundAt, WindowAt, Alike
    <3> QED
      BY <1>7, <3>1, <3>2 DEF InRound, Alike
  <2>3. MapsReads(ToKeep(p), pc[p], c, received[p], mappedRead[p])
    BY <1>7, ReadsMeanwhile DEF Alike
  <2>4. Rooted(received'[p], OwnRoot("solving", SecondExchange(c)))
    BY <1>2, <2>1
  <2>5. ToKeep(p) \in BOOLEAN
    BY <1>1
  <2> QED
    BY <1>1, <1>7, <2>1, <2>2, <2>3, <2>4, <2>5, ReadsFinish
<1>8. CASE SecondSendsData(p) /\ DuringAdvance(p, ToKeep(p))
  <2> DEFINE c == scheme[p]
             w == Moved(c, written[p])
             r == Moved(c, received[p])
  <2>1. FinishAdvance(p, c, w, r) /\ pc[p] \in ExchangeSteps
    BY <1>8 DEF SecondSendsData, At, ExchangeSteps
  <2>2. c \in Schemes /\ Alike(scheme[p], c)
    BY <1>1 DEF Alike
  <2> HIDE DEF c, w, r
  <2> QED
    BY <1>7, <1>8, <2>1, <2>2
<1>9. CASE FirstReceivesData(p) /\ DuringAdvance(p, ToKeep(p))
  <2> DEFINE c == NotifyDataHasBeenReceived(scheme[p])
             w == Moved(c, written[p])
             r == Moved(c, ReceivedAt(p, Time!TimeOf(c.time)))
  <2>1. FinishAdvance(p, c, w, r) /\ pc[p] \in ExchangeSteps
    BY <1>9 DEF FirstReceivesData, At, ExchangeSteps
  <2>2. c \in Schemes /\ Alike(scheme[p], c)
    BY <1>1, NotifyMembers, AlikeMembers
  <2> HIDE DEF c, w, r
  <2> QED
    BY <1>7, <1>9, <2>1, <2>2
<1>10. ASSUME Meanwhile(p), mappedRead'[p] = mappedRead[p], pc[p] \notin InitializeSteps
       PROVE  MapsReads(ToKeep(p), pc'[p], scheme'[p], received'[p], mappedRead'[p])
  <2>1. pc'[p] \in Early => pc[p] \in Early
    BY <1>1, <1>10, MeanwhileMembers DEF Early
  <2> QED
    BY <1>1, <1>10, <2>1, MeanwhileMembers, ReadsMeanwhile
<1>11. CASE /\ \/ FirstSendsData(p) \/ SecondReceivesData(p)
               \/ SendConvergence(p) \/ ReceiveConvergence(p)
            /\ DuringAdvance(p, ToKeep(p))
  <2>1. pc'[p] # "solving" /\ pc[p] \notin InitializeSteps
    BY <1>1, <1>11 DEF FirstSendsData, SecondReceivesData, SendConvergence, ReceiveConvergence,
                       At, Goto, InitializeSteps, TypeOK
  <2>2. UNCHANGED flow
    BY <1>11, <2>1 DEF DuringAdvance
  <2> QED
    BY <1>10, <1>11, <2>1, <2>2 DEF Meanwhile, flow
<1>12. CASE ApiCall(p) /\ UNCHANGED flow
  <2>1. CASE pc[p] \notin InitializeSteps
    BY <1>10, <1>12, <2>1 DEF Meanwhile, flow
  <2>2. CASE pc[p] \in InitializeSteps
    BY <1>12, <2>2 DEF ApiCall, RequiresWritingCheckpoint, RequiresReadingCheckpoint, Finalize,
       At, ReceivePing, ReceivePong, LosePartner, InitializeSteps, ExchangeSteps
  <2> QED
    BY <2>1, <2>2
<1> QED
  BY <1>4, <1>5, <1>6, <1>8, <1>9, <1>11, <1>12 DEF FlowParticipant

\* In every reachable state the mappings have what the participants write and, unless an
\* error ends the coupling, what they are to read.
MappingsHold ==
  /\ Mappings
  /\ \A p \in Participants :
       /\ MapsWrites(scheme[p], pc[p], written[p], provided[p], mappedWrite[p])
       /\ HasData(p) /\ ~Broken =>
            MapsReads(ToKeep(p), pc[p], scheme[p], received[p], mappedRead[p])

\* A step of p moves nothing of the other participant but its messages.
LEMMA StepsAlone ==
  ASSUME TypeOK, NEW p \in Participants, Participant(p)
  PROVE  Alone(p)
<1>1. CASE SecondReceivesData(p)
  BY <1>1 DEF SecondReceivesData, Goto, TypeOK, Alone
<1>2. CASE \/ Initialize(p, InitialExchange(p)) \/ Advance(p, ExchangeFirstData(p))
           \/ FirstSendsData(p) \/ SendConvergence(p) \/ ReceiveConvergence(p) \/ ApiCall(p)
  BY <1>2, CommonStepsAlone
<1>3. CASE InitSend(p) \/ InitReceive(p)
  BY <1>3, CommonStepsAlone DEF InitSend, InitReceive
<1>4. CASE SecondSendsData(p)
  <2>1. \E c, w, r : FinishAdvance(p, c, w, r)
    BY <1>4 DEF SecondSendsData
  <2> QED
    BY <2>1, CommonStepsAlone
<1>5. CASE FirstReceivesData(p)
  <2>1. \E c, w, r : FinishAdvance(p, c, w, r)
    BY <1>5 DEF FirstReceivesData
  <2> QED
    BY <2>1, CommonStepsAlone
<1> QED
  BY <1>1, <1>2, <1>3, <1>4, <1>5 DEF Participant

\* Every step of a participant keeps its mappings, and those of the other.
LEMMA MappingsStep ==
  ASSUME DataAgreement, DataAgreement', MappingsHold, NEW p \in Participants, FlowParticipant(p)
  PROVE  MappingsHold'
<1>1. /\ IInv /\ IInv' /\ TypeOK /\ config' = config /\ Participant(p)
      /\ UNCHANGED <<Sends, Implicit>>
  BY DEF DataAgreement, IInv, FlowParticipant, Participant, Sends, Implicit
<1>2. /\ Mappings'
      /\ \A q \in Participants \ {p} :
           /\ provided'[q] = provided[q] /\ mappedWrite'[q] = mappedWrite[q]
           /\ mappedRead'[q] = mappedRead[q]
  <2>1. Mappings /\ ToKeep(p) \in BOOLEAN
    BY DEF MappingsHold, ToKeep
  <2> QED
    BY <2>1, MappingsOfOne DEF FlowParticipant
<1>3. Alone(p)
  BY <1>1, StepsAlone
<1>4. Mappings /\ MapsWrites(scheme'[p], pc'[p], written'[p], provided'[p], mappedWrite'[p])
  BY <1>1, FlowWrites DEF MappingsHold
<1>5. ASSUME HasData(p), ~Broken'
      PROVE  MapsReads(ToKeep(p), pc'[p], scheme'[p], received'[p], mappedRead'[p])
  <2>1. ~Broken
    BY <1>1, <1>5, BrokenStep
  <2>2. PICK L \in Ledgers : Agree(L) /\ Sampled(L)
    BY <2>1 DEF DataAgreement
  <2>3. PICK K \in Ledgers : Sampled(K)'
    BY <1>5 DEF DataAgreement, Ledgers, Entries
  <2> QED
    BY <1>1, <1>4, <1>5, <2>1, <2>2, <2>3, FlowReads DEF MappingsHold
<1>6. ~Broken' => ~Broken
  BY <1>1, BrokenStep
<1>7. ASSUME NEW q \in Participants
      PROVE  /\ MapsWrites(scheme'[q], pc'[q], written'[q], provided'[q], mappedWrite'[q])
             /\ HasData(q) /\ ~Broken' =>
                  MapsReads(ToKeep(q), pc'[q], scheme'[q], received'[q], mappedRead'[q])
  <2>1. CASE q = p
    BY <1>4, <1>5, <2>1
  <2>2. CASE q # p
    BY <1>2, <1>3, <1>6, <2>2 DEF MappingsHold, Alone
  <2> QED
    BY <2>1, <2>2
<1> SUFFICES ASSUME NEW q \in Participants
             PROVE  /\ MapsWrites(scheme[q], pc[q], written[q], provided[q], mappedWrite[q])'
                    /\ (HasData(q) /\ ~Broken)' =>
                         MapsReads(ToKeep(q), pc[q], scheme[q], received[q], mappedRead[q])'
  BY <1>2 DEF MappingsHold, Participants
<1>8. HasData(q)' <=> HasData(q)
  BY <1>1 DEF HasData
<1>9. MapsWrites(scheme[q], pc[q], written[q], provided[q], mappedWrite[q])'
  BY <1>1, <1>7, MapsNext
<1>10. (HasData(q) /\ ~Broken)' =>
          MapsReads(ToKeep(q), pc[q], scheme[q], received[q], mappedRead[q])'
  BY <1>1, <1>7, <1>8, MapsNext DEF ToKeep
<1> QED
  BY <1>9, <1>10

\* The samples of a coupling with mapped data are mapped when they are sent and read.
LEMMA HeldMappingsAreCurrent ==
  ASSUME DataAgreement, MappingsHold
  PROVE  MappingsAreCurrent
<1> SUFFICES ASSUME NEW p \in Participants
             PROVE  /\ pc[p] \in {"sendData", "initSendData"} => mappedWrite[p] = written[p]
                    /\ pc[p] = "solving" /\ HasData(p) => mappedRead[p] = received[p]
  BY DEF MappingsAreCurrent, HasData
<1>1. pc[p] \in {"sendData", "initSendData"} => mappedWrite[p] = written[p]
  BY DEF MappingsHold, MapsWrites, ExchangeSteps, InitializeSteps
<1>2. pc[p] = "solving" => ~Broken
  BY DEF Broken, Participants
<1>3. pc[p] = "solving" /\ HasData(p) => mappedRead[p] = received[p]
  BY <1>2 DEF MappingsHold, MapsReads
<1> QED
  BY <1>1, <1>3

\* Before initialize() nothing is mapped.
LEMMA InitMappings ==
  ASSUME FlowInit
  PROVE  MappingsHold
<1>1. /\ provided = [p \in Participants |-> {}] /\ mappedWrite = [p \in Participants |-> {}]
      /\ mappedRead = [p \in Participants |-> {}] /\ written = [p \in Participants |-> {}]
      /\ pc = [p \in Participants |-> "constructed"]
  BY DEF FlowInit, Init, NothingMapped
<1>2. Mappings
  BY <1>1 DEF Mappings
<1>3. "constructed" \notin InitializeSteps \cup ExchangeSteps
  BY DEF InitializeSteps, ExchangeSteps
<1>4. ASSUME NEW p \in Participants
      PROVE  /\ MapsWrites(scheme[p], pc[p], written[p], provided[p], mappedWrite[p])
             /\ MapsReads(ToKeep(p), pc[p], scheme[p], received[p], mappedRead[p])
  BY <1>1, <1>3 DEF MapsWrites, MapsReads
<1> QED
  BY <1>2, <1>4 DEF MappingsHold

\* What changes nothing keeps the mappings.
LEMMA StutterMappings ==
  ASSUME MappingsHold, UNCHANGED <<vars, flow>>
  PROVE  MappingsHold'
<1>1. /\ UNCHANGED <<config, pc, scheme, channel, written, received>>
      /\ UNCHANGED <<provided, mappedWrite, mappedRead, Sends, Implicit>>
  BY DEF vars, flow, Sends, Implicit
<1>2. Mappings' /\ (Broken' <=> Broken)
  BY <1>1 DEF MappingsHold, Mappings, Broken
<1> SUFFICES ASSUME NEW q \in Participants
             PROVE  /\ MapsWrites(scheme[q], pc[q], written[q], provided[q], mappedWrite[q])'
                    /\ (HasData(q) /\ ~Broken)' =>
                         MapsReads(ToKeep(q), pc[q], scheme[q], received[q], mappedRead[q])'
  BY <1>2 DEF MappingsHold, Participants
<1>3. HasData(q)' <=> HasData(q)
  BY <1>1 DEF HasData
<1>4. /\ MapsWrites(scheme'[q], pc'[q], written'[q], provided'[q], mappedWrite'[q])
      /\ HasData(q) /\ ~Broken =>
           MapsReads(ToKeep(q), pc'[q], scheme'[q], received'[q], mappedRead'[q])
  BY <1>1 DEF MappingsHold
<1> QED
  BY <1>1, <1>2, <1>3, <1>4, MapsNext DEF ToKeep

\* For every configuration a participant sends and reads the mapped image of just the
\* samples that it would send and read without a mapping: no sample of an iteration
\* before is left where mapData() would take it for the new one.
THEOREM ParallelMappingsAreCurrent == FlowSpec => []MappingsAreCurrent
<1>1. FlowInit => MappingsHold
  BY InitMappings
<1>2. DataAgreement /\ DataAgreement' /\ MappingsHold /\ [FlowNext]_<<vars, flow>> => MappingsHold'
  BY MappingsStep, StutterMappings DEF FlowNext
<1>3. DataAgreement /\ MappingsHold => MappingsAreCurrent
  BY HeldMappingsAreCurrent
<1> QED
  BY <1>1, <1>2, <1>3, ParallelFlowSteps, ParallelDataAgreement, PTL DEF FlowSpec
================================================================================
