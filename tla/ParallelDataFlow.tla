---------------------------- MODULE ParallelDataFlow ----------------------------
(***************************************************************************)
(* Parallel coupling of two participants with mapped data: the steps of    *)
(* ParallelCoupling and what they do to the mappings of DataFlow.          *)
(***************************************************************************)
EXTENDS ParallelCoupling, DataFlow

\* implicitDataToReceive() of the base class: all that is received is new.
ToKeep(p) == FALSE

FlowParticipant(p) ==
  /\ \/ Initialize(p, InitialExchange(p)) /\ MapInitialWrittenData(p)
     \/ (InitSend(p) \/ InitReceive(p)) /\ DuringInitialize(p)
     \/ Advance(p, ExchangeFirstData(p)) /\ HandleDataBeforeAdvance(p)
     \/ /\ \/ FirstSendsData(p) \/ SecondReceivesData(p)
           \/ SendConvergence(p) \/ SecondSendsData(p)
           \/ ReceiveConvergence(p) \/ FirstReceivesData(p)
        /\ DuringAdvance(p, ToKeep(p))
     \/ ApiCall(p) /\ UNCHANGED flow
  /\ UNCHANGED config

FlowInit == Init /\ NothingMapped

FlowNext == \E p \in Participants : FlowParticipant(p)

\* As in ParallelCoupling: solvers go on, and calls return once they can.
FlowSpec ==
  FlowInit /\ [][FlowNext]_<<vars, flow>>
           /\ \A p \in Participants : WF_<<vars, flow>>(FlowParticipant(p))
================================================================================
