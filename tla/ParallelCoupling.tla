---------------------------- MODULE ParallelCoupling ----------------------------
(***************************************************************************)
(* ParallelCouplingScheme: both participants compute the same time window  *)
(* at the same time and then swap their data, First sending before it      *)
(* receives and Second receiving before it sends.                          *)
(***************************************************************************)
EXTENDS CouplingScheme

\* The constructor takes no other time stepping method.
ASSUME ParallelAssumption ==
  \A c \in Configurations : c.timeWindowSize # Undefined

InitialExchange(p) ==
  IF p = First
  THEN IF First \in Initializes THEN "initSendData"
       ELSE IF Second \in Initializes THEN "initReceiveData" ELSE "solving"
  ELSE IF First \in Initializes THEN "initReceiveData"
       ELSE IF Second \in Initializes THEN "initSendData" ELSE "solving"

ExchangeFirstDataSame(p) == "receiveData"   \* fault: both receive first

ExchangeFirstData(p) == IF p = First THEN "sendData" ELSE "receiveData"

--------------------------------------------------------------------------------
(* exchangeInitialData() *)

InitSend(p) ==
  InitSendData(p, IF p = First /\ Second \in Initializes THEN "initReceiveData" ELSE "solving")

InitReceive(p) ==
  InitReceiveData(p, NotifyDataHasBeenReceived(scheme[p]),
    IF p = Second /\ Second \in Initializes THEN "initSendData" ELSE "solving")

--------------------------------------------------------------------------------
(* exchangeFirstData() and exchangeSecondData() *)

\* Second receives First's data of the window and measures convergence of both.
SecondReceivesData(p) ==
  /\ At(p, "receiveData") /\ p = Second /\ CanReceiveData(p)
  /\ scheme' = [scheme EXCEPT ![p] = NotifyDataHasBeenReceived(@)]
  /\ received' = [received EXCEPT ![p] = ReceivedAt(p, Time!TimeOf(scheme[p].time))]
  /\ ReceiveDataMessage(p)
  /\ Goto(p, IF Implicit THEN "sendConvergence" ELSE "sendData")
  /\ UNCHANGED <<written, solver>>

\* Second sends its data and ends its advance.
SecondSendsData(p) ==
  /\ At(p, "sendData") /\ p = Second
  /\ SendStored(p, written[p])
  /\ LET c == scheme[p]
     IN  FinishAdvance(p, c, Moved(c, written[p]), Moved(c, received[p]))

--------------------------------------------------------------------------------
Participant(p) ==
  /\ \/ Initialize(p, InitialExchange(p))
     \/ InitSend(p) \/ InitReceive(p)
     \/ Advance(p, ExchangeFirstData(p))
     \/ FirstSendsData(p) \/ SecondReceivesData(p)
     \/ SendConvergence(p) \/ SecondSendsData(p)
     \/ ReceiveConvergence(p) \/ FirstReceivesData(p)
     \/ ApiCall(p)
  /\ UNCHANGED config

Next == \E p \in Participants : Participant(p)

\* A solver keeps calling advance() until the coupling ends, and a blocking
\* call returns once its message is there.
Fairness == \A p \in Participants : WF_vars(Participant(p))

Spec == Init /\ [][Next]_vars /\ Fairness

--------------------------------------------------------------------------------
(* Properties *)

\* Parallel (Jacobi) order of data: at the start of each step both read what
\* the other wrote in the round before (exchangeFirstData, exchangeSecondData).
FreshData ==
  \A p \in Participants :
    LET c == scheme[p]
    IN  pc[p] = "solving" /\ IsCouplingOngoing(c) /\ Other(p) \in Sends =>
          EndsWithRound(p, Round(c) - 1)

================================================================================
