-------------------------------- MODULE DataFlow --------------------------------
(***************************************************************************)
(* Mapped data around the coupling scheme.  Each participant has a mesh of *)
(* its own, and maps what it writes to the partner's mesh before it is     *)
(* sent, and what it receives from the partner's mesh before it is read    *)
(* (WriteDataContext, ReadDataContext, and handleDataBeforeAdvance and     *)
(* handleDataAfterAdvance of ParticipantImpl).  Every mapping has storages *)
(* of its own, which are trimmed and cleared apart from those of the       *)
(* coupling scheme; a sample is mapped only if the target has none of its  *)
(* time.                                                                   *)
(*                                                                         *)
(* The variables of CouplingScheme stay what they are; this module says    *)
(* what its steps do to the storages of the mappings.  A mapped sample     *)
(* keeps the origin of the sample it was computed from.                    *)
(***************************************************************************)
EXTENDS CouplingScheme

VARIABLES
  provided,    \* write mapping: the samples on the participant's mesh
  mappedWrite, \* write mapping: the samples on the partner's mesh, to be sent
  mappedRead   \* read mapping: the samples on the participant's mesh

flow == <<provided, mappedWrite, mappedRead>>

NothingMapped ==
  /\ provided = [p \in Participants |-> {}]
  /\ mappedWrite = [p \in Participants |-> {}]
  /\ mappedRead = [p \in Participants |-> {}]

Always == -1   \* mapData() without a time

MapData(to, from, after) ==
  to \cup {s \in from : s.t > after /\ \A r \in to : r.t # s.t}

\* Storage::clearExceptLast() and clear()
ClearExceptLast(store) == Last(store)
Clear(store) == {}

\* What a read mapping has of data that iterates goes: all of it when the window is
\* complete, up to the last sample if the scheme says so (toKeep).
TrimReadMappedData(store, complete, toKeep, time) ==
  IF ~Implicit THEN store
  ELSE IF ~complete THEN TrimAfter(store, time)
  ELSE IF toKeep THEN ClearExceptLast(store) ELSE Clear(store)

\* trimSendDataAfter() while a window is repeated
TrimSendDataNever(store, time) == store   \* fault: the repeated window's samples stay

TrimSendDataAfter(store, time) == TrimAfter(store, time)

--------------------------------------------------------------------------------
(* What the steps of a participant do to its mappings.                     *)

\* The last step of initialize()
MapInitialReadData(p) ==
  mappedRead' = IF pc'[p] = "solving"
                  THEN [mappedRead EXCEPT ![p] = MapData(@, received'[p], Always)] ELSE mappedRead

\* initialize() before the scheme's: storeBufferedData() and mapInitialWrittenData()
MapInitialWrittenData(p) ==
  /\ provided' = [provided EXCEPT ![p] = InitialData(p)]
  /\ mappedWrite' = [mappedWrite EXCEPT ![p] = MapData(@, InitialData(p), Always)]
  /\ MapInitialReadData(p)

\* The sends and receives of initialize()
DuringInitialize(p) == MapInitialReadData(p) /\ UNCHANGED <<provided, mappedWrite>>

\* handleDataBeforeAdvance(), after addComputedTime()
HandleDataBeforeAdvance(p) ==
  LET windowEnd == pc'[p] # "solving"
      now == Time!TimeOf(scheme'[p].time)
      buffer == {[t |-> now, at |-> solver'[p].time, round |-> Round(scheme[p])]}
      stored == IF windowEnd \/ p \in Substeps THEN SetSampleAtTime(provided[p], now, buffer)
                ELSE provided[p]
  IN  /\ provided' = [provided EXCEPT ![p] = stored]
      /\ mappedWrite' = [mappedWrite EXCEPT ![p] =
           IF windowEnd THEN MapData(@, stored, scheme[p].time.start) ELSE @]
      /\ UNCHANGED mappedRead

\* The last step of advance(): the scheme has moved what it sends to the next window if this
\* one is complete, and handleDataAfterAdvance() trims and maps.
HandleDataAfterAdvance(p, toKeep) ==
  LET d == scheme'[p]
      complete == d.isTimeWindowComplete
      now == Time!TimeOf(d.time)
      sent == IF complete THEN MoveToNextWindow(mappedWrite[p]) ELSE mappedWrite[p]
      Trimmed(store) == IF complete THEN TrimBefore(store, d.time.start)
                        ELSE TrimSendDataAfter(store, now)
      read == IF complete THEN TrimBefore(mappedRead[p], d.time.start) ELSE mappedRead[p]
  IN  /\ provided' = [provided EXCEPT ![p] = Trimmed(@)]
      /\ mappedWrite' = [mappedWrite EXCEPT ![p] = Trimmed(sent)]
      /\ mappedRead' = [mappedRead EXCEPT ![p] =
           MapData(TrimReadMappedData(read, complete, toKeep, now), received'[p], Always)]

\* A step of the exchanges in advance()
DuringAdvance(p, toKeep) ==
  IF pc'[p] = "solving" THEN HandleDataAfterAdvance(p, toKeep) ELSE UNCHANGED flow

--------------------------------------------------------------------------------
(* Properties *)

\* Mapping is transparent: a participant sends the mapped image of exactly the samples it would
\* send without a mapping, and its solver reads the mapped image of exactly the samples the
\* scheme received last.  No sample of an iteration before stays in the storage of a mapping,
\* where it would keep the one of its time from being mapped (timestampExists in mapData).
MappingsAreCurrent ==
  \A p \in Participants :
    /\ pc[p] \in {"sendData", "initSendData"} /\ p \in Sends =>
         IF p \in Substeps THEN mappedWrite[p] = written[p]
                           ELSE Last(mappedWrite[p]) = Last(written[p])
    /\ pc[p] = "solving" /\ Other(p) \in Sends => mappedRead[p] = received[p]
================================================================================
