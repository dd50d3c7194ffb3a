----------------------------- MODULE SerialDataFlow -----------------------------
(***************************************************************************)
(* Serial coupling of two participants with mapped data: the steps of      *)
(* SerialCoupling and what they do to the mappings of DataFlow.            *)
(***************************************************************************)
EXTENDS SerialCoupling, DataFlow

ToKeepSwapped(p) == DoesFirstStep(p)   \* fault: First keeps the last sample of an iteration

\* implicitDataToReceive(): Second receives the start of the next window with this one.
ToKeep(p) == ~DoesFirstStep(p)

FlowParticipant(p) ==
  /\ \/ Initialize(p, InitialExchange(p)) /\ MapInitialWrittenData(p)
     \/ /\ \/ InitSend(p) \/ InitReceive(p)
           \/ InitReceiveTimeWindowSize(p) \/ InitReceiveDataForWindowEnd(p)
        /\ DuringInitialize(p)
     \/ Advance(p, ExchangeFirstData(p)) /\ HandleDataBeforeAdvance(p)
     \/ /\ \/ SendTimeWindowSize(p) \/ FirstSendsData(p)
           \/ SendConvergence(p) \/ SecondSendsData(p)
           \/ ReceiveConvergence(p) \/ FirstReceivesData(p)
           \/ ReceiveTimeWindowSize(p) \/ SecondReceivesData(p)
        /\ DuringAdvance(p, ToKeep(p))
     \/ ApiCall(p) /\ UNCHANGED flow
  /\ UNCHANGED config

FlowInit == Init /\ NothingMapped

FlowNext == \E p \in Participants : FlowParticipant(p)

\* As in SerialCoupling: solvers go on, and calls return once they can.
FlowSpec ==
  FlowInit /\ [][FlowNext]_<<vars, flow>>
           /\ \A p \in Participants : WF_<<vars, flow>>(FlowParticipant(p))
================================================================================
