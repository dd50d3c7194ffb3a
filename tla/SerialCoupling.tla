----------------------------- MODULE SerialCoupling -----------------------------
(***************************************************************************)
(* SerialCouplingScheme: First computes a time window, then Second         *)
(* computes it with First's data.  Explicit coupling moves on, implicit    *)
(* coupling repeats the window until Second measures convergence.  With    *)
(* the first-participant method First's step sets the window's size.       *)
(***************************************************************************)
EXTENDS CouplingScheme

\* Where each call enters its exchange: the sends and receives that are not
\* configured are passed over.
InitialExchange(p) ==
  IF p = First
  THEN IF Second \in Initializes THEN "initReceiveData"
       ELSE IF First \in Initializes THEN "initSendData" ELSE "solving"
  ELSE IF Second \in Initializes THEN "initSendData"
       ELSE IF First \in Initializes THEN "initReceiveData"
       ELSE IF FirstParticipantSetsTimeWindowSize THEN "initReceiveTimeWindowSize"
       ELSE "initReceiveDataForWindowEnd"

ExchangeFirstData(p) ==
  IF p = First
  THEN IF FirstParticipantSetsTimeWindowSize THEN "sendTimeWindowSize" ELSE "sendData"
  ELSE IF Implicit THEN "sendConvergence" ELSE "sendData"

--------------------------------------------------------------------------------
(* exchangeInitialData() *)

InitSend(p) ==
  InitSendData(p,
    IF p = First THEN "solving"
    ELSE IF First \in Initializes THEN "initReceiveData"
    ELSE IF FirstParticipantSetsTimeWindowSize THEN "initReceiveTimeWindowSize"
    ELSE "initReceiveDataForWindowEnd")

InitReceive(p) ==
  IF p = First
  THEN InitReceiveData(p, NotifyDataHasBeenReceived(scheme[p]),
         IF First \in Initializes THEN "initSendData" ELSE "solving")
  ELSE InitReceiveData(p, scheme[p],
         IF FirstParticipantSetsTimeWindowSize THEN "initReceiveTimeWindowSize"
         ELSE "initReceiveDataForWindowEnd")

InitReceiveTimeWindowSize(p) ==
  /\ At(p, "initReceiveTimeWindowSize") /\ HasMessage(p, "size")
  /\ scheme' = [scheme EXCEPT ![p].nextTimeWindowSize = Head(channel[p]).size]
  /\ Receive(p)
  /\ Goto(p, "initReceiveDataForWindowEnd")
  /\ UNCHANGED <<written, received, solver>>

InitReceiveDataForWindowEnd(p) ==
  /\ At(p, "initReceiveDataForWindowEnd") /\ CanReceiveData(p)
  /\ LET c == [scheme[p] EXCEPT !.timeWindowSize = scheme[p].nextTimeWindowSize]
     IN  /\ scheme' = [scheme EXCEPT ![p] = NotifyDataHasBeenReceived(c)]
         /\ received' = [received EXCEPT ![p] = ReceivedAt(p, WindowEndToCome(c))]
  /\ ReceiveDataMessage(p)
  /\ Goto(p, "solving")
  /\ UNCHANGED <<written, solver>>

--------------------------------------------------------------------------------
(* exchangeFirstData() and exchangeSecondData() *)

\* The step of First is the size of the window.
SendTimeWindowSize(p) ==
  /\ At(p, "sendTimeWindowSize")
  /\ LET size == Time!TimeOf(scheme[p].time) - scheme[p].time.start
     IN  /\ scheme' = [scheme EXCEPT ![p].timeWindowSize = size,
                                     ![p].nextTimeWindowSize = Undefined]
         /\ Send(p, [kind |-> "size", size |-> size])
  /\ Goto(p, "sendData")
  /\ UNCHANGED <<written, received, solver>>

\* In the last iteration of the last window Second wants no new data.
WantsDataAlways(c) == TRUE   \* fault: it waits for data nobody sends
WantsDataEarly(c) ==   \* fault: no data for the last window
  IsCouplingOngoing([c EXCEPT !.timeWindows = @ + 1])

WantsData(c) == IsCouplingOngoing(c) \/ (Implicit /\ ~c.hasConverged)

\* Second sends its data and enters exchangeSecondData().
SecondSendsData(p) ==
  /\ At(p, "sendData") /\ p = Second
  /\ SendStored(p, written[p])
  /\ LET c == scheme[p]
         w == Moved(c, written[p])
         r == Moved(c, received[p])
     IN  IF WantsData(c)
         THEN /\ written' = [written EXCEPT ![p] = w]
              /\ received' = [received EXCEPT ![p] = r]
              /\ Goto(p, IF FirstParticipantSetsTimeWindowSize THEN "receiveTimeWindowSize"
                         ELSE IF Implicit /\ ~c.hasConverged THEN "receiveData"
                         ELSE "receiveDataForWindowEnd")
              /\ UNCHANGED <<scheme, solver>>
         ELSE FinishAdvance(p, c, w, r)

\* receiveAndSetTimeWindowSize(): while a window iterates its size is fixed.
ReceiveTimeWindowSize(p) ==
  /\ At(p, "receiveTimeWindowSize") /\ HasMessage(p, "size")
  /\ LET c  == scheme[p]
         dt == Head(channel[p]).size
         iterating == Implicit /\ ~c.hasConverged
     IN  IF HasTimeWindowSize(c) /\ iterating /\ dt # c.timeWindowSize
         THEN Goto(p, "failed") /\ UNCHANGED scheme
         ELSE /\ scheme' = [scheme EXCEPT ![p].nextTimeWindowSize = dt]
              /\ Goto(p, IF iterating THEN "receiveData" ELSE "receiveDataForWindowEnd")
  /\ Receive(p)
  /\ UNCHANGED <<written, received, solver>>

\* Second receives First's data of the next iteration, or of the next window.
SecondReceivesData(p) ==
  /\ p = Second
  /\ At(p, "receiveData") \/ At(p, "receiveDataForWindowEnd")
  /\ CanReceiveData(p)
  /\ LET c == NotifyDataHasBeenReceived(scheme[p])
         time == IF pc[p] = "receiveData" THEN Time!TimeOf(c.time) ELSE WindowEndToCome(c)
     IN  FinishAdvance(p, c, written[p], ReceivedAt(p, time))
  /\ ReceiveDataMessage(p)

--------------------------------------------------------------------------------
Participant(p) ==
  /\ \/ Initialize(p, InitialExchange(p))
     \/ InitSend(p) \/ InitReceive(p)
     \/ InitReceiveTimeWindowSize(p) \/ InitReceiveDataForWindowEnd(p)
     \/ Advance(p, ExchangeFirstData(p))
     \/ SendTimeWindowSize(p) \/ FirstSendsData(p)
     \/ SendConvergence(p) \/ SecondSendsData(p)
     \/ ReceiveConvergence(p) \/ FirstReceivesData(p)
     \/ ReceiveTimeWindowSize(p) \/ SecondReceivesData(p)
     \/ ApiCall(p)
  /\ UNCHANGED config

Next == \E p \in Participants : Participant(p)

\* A solver keeps calling advance() until the coupling ends, and a blocking
\* call returns once its message is there.
Fairness == \A p \in Participants : WF_vars(Participant(p))

Spec == Init /\ [][Next]_vars /\ Fairness

--------------------------------------------------------------------------------
(* Properties *)

\* Serial (Gauss-Seidel) order of data: at the start of each step First reads
\* what Second wrote in the round before, Second what First wrote in this one
\* (exchangeSecondData and receiveDataForWindowEnd).
FreshData ==
  \A p \in Participants :
    LET c == scheme[p]
    IN  pc[p] = "solving" /\ IsCouplingOngoing(c) /\ Other(p) \in Sends =>
          EndsWithRound(p, IF p = First THEN Round(c) - 1 ELSE Round(c))

\* The data of Second ends with First's data for the end of the window that
\* Second computes, truncated or not: it can read up to there and whatever it
\* receives next is stored there or later (receiveDataForWindowEnd sets the
\* "_time state to point to end of this window").
EndsWithWindowEnd ==
  LET c == scheme[Second]
  IN  pc[Second] = "solving" /\ IsCouplingOngoing(c) /\ First \in Sends =>
        \E s \in Last(received[Second]) :
          s.t = Time!TimeOf(c.time) + NextTimeStepMaxSize(c)

================================================================================
