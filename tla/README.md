# preCICE coupling in TLA+

preCICE is a library that couples simulation programs ("participants"). Each
participant's solver calls `initialize()`, then `advance(dt)` until the coupling
ends, then `finalize()`; inside those calls the library exchanges data with the
library in the partner's process, decides whether a time window has converged or
has to be repeated, and tells the solver to write or read a checkpoint. Nobody
supervises the two sides: they stay together only because both run the same code
over the same configuration, move their own counters, and agree on one verdict
per iteration that travels in a message without a type or a tag.

That protocol is the core of the program and of this project. Around it the project
models the mappings of the data, networks of several coupling schemes and of many
participants, the connections they run over, the socket queue and its second
thread below, and the bookkeeping of the quasi-Newton acceleration. The repository
is under `src/`; its sources are in `src/src/`, and paths below are relative to the
latter.

- [1. Inventory](#1-inventory)
- [2. Modules](#2-modules)
- [3. How the model corresponds to the code](#3-how-the-model-corresponds-to-the-code)
- [4. What the runs check](#4-what-the-runs-check)
- [5. What is proved](#5-what-is-proved)
- [6. Disagreements with the code's own statements](#6-disagreements-with-the-codes-own-statements)
- [7. Plan](#7-plan)
- [8. Not modelled](#8-not-modelled)

## 1. Inventory

| Component | State | Operations | Hard behaviour | What makes it correct |
|---|---|---|---|---|
| Base scheme (`cplscheme/BaseCouplingScheme`, `BiCouplingScheme`, `impl/TimeHandler`) | `_time`, `_timeWindows`, `_timeWindowSize`, `_nextTimeWindowSize`, `_iterations`, `_totalIterations`, `_hasConverged`, `_isTimeWindowComplete`, required and fulfilled actions | `initialize`, `addComputedTime`, `firstExchange`, `secondExchange`, `doImplicitStep`, `isCouplingOngoing`, `getNextTimeStepMaxSize` | the window counts as done before it is known to be; both sides count on their own; truncation by max-time; iteration limits | sides in lockstep; iteration limits; checkpoint is the window's start |
| Serial scheme (`SerialCouplingScheme`) | as the base | `exchangeInitialData`, `exchangeFirstData`, `exchangeSecondData` | order of sends and receives; whether the last iteration of the last window still expects data; window size set by the first participant | every receive gets the message meant for it; Gauss-Seidel order of data; termination |
| Parallel scheme (`ParallelCouplingScheme`) | as the base | the same three | both sides compute at once | Jacobi order of data; termination |
| Multi scheme (`MultiCouplingScheme`) | as the base, one M2N per partner, the controller | the same three with a controller | who talks to whom in which order | all take the controller's verdict |
| Compositional scheme (`CompositionalCouplingScheme`) | the explicit schemes, the implicit one, `_explicitOnHold` | the four exchanges, forwarded or held back | explicit schemes stand still while the implicit one iterates | every scheme does every window once |
| Time storage (`time/Storage`, `mesh/Data`, `cplscheme/CouplingData`) | samples ordered by time | `setSampleAtTime`, `trimBefore`, `trimAfter`, `move`, `trim` | samples of repeated windows and of windows gone by | stamps increase; the window can be read from its start |
| Participant API (`precice/impl/ParticipantImpl`) | `_state`, the coupling scheme, data contexts, mesh locks | every API call | order of mapping, exchange and trimming; closing of channels; remeshing handshake | no partner is cut off; no read of stale data |
| Data contexts (`precice/impl/DataContext` and derived, `cplscheme/ImplicitData`) | data of both sides of each mapping | `mapData`, `moveToNextWindow`, `trimAfterTime`, `clearStorage` | a sample whose time stamp exists is not mapped again | reads see data of this iteration |
| M2N (`m2n`) | connections to the ranks of a partner | `acceptPrimaryRankConnection`, `requestPrimaryRankConnection`, `send`, `receive` | order of connecting; who listens | everybody gets connected |
| Connection information (`com/ConnectionInfoPublisher`) | files on a shared file system | publish, read, remove | crash in between; files of an earlier run | nobody connects to an old address |
| Socket back end (`com/SocketSendQueue`, `SocketRequest`, `SocketCommunication`) | queue, `_ready`, request flags | `dispatch`, `process`, `sendCompleted`, `wait`, `test` | solver thread against I/O thread | one write at a time, in order, all completed |
| Acceleration (`acceleration/BaseQNAcceleration` and others) | matrices V and W, columns per window | `performAcceleration`, `iterationsConverged`, `removeMatrixColumn` | limits on reused columns and windows | column counts match the matrices |
| Intra-participant communication (`utils/IntraComm`) | ranks | gather, scatter, broadcast, barrier | all ranks must call the same | no rank waits forever |
| Meshes and partitions (`mesh`, `partition`) | vertices, owner information | `communicate`, `compute`, `compareBoundingBoxes` | order of messages per mesh | every rank gets its vertices |
| Mappings, actions, configuration, profiling, logging, exports | | | numerics, parsing, output | |

The components interact by calls and messages only: the solver calls
`ParticipantImpl`, that calls the coupling scheme, that calls
`M2N::send`/`receive` for the data, sizes and verdicts. Samples are shared:
`ParticipantImpl` and the coupling scheme write and trim the same `time::Storage`.
One thread runs all this on each rank; the socket back end alone has another.

`PROJECT.json` lists under "hazards" the lines where these behaviours bite and the
properties that watch over them; the few without a property say why.

## 2. Modules

    TimeHandler, Storage         operators: the time of a scheme, the samples of a data field
    CouplingScheme               the base: state, configuration, channels, API calls, properties
      SerialCoupling             adds the exchanges of SerialCouplingScheme
        MCSerialCoupling         the configurations that TLC checks
        SerialCouplingProofs     theorems
      ParallelCoupling           adds the exchanges of ParallelCouplingScheme
        MCParallelCoupling
        ParallelCouplingProofs
      CouplingSchemeProofs       the inductive invariant of one side, and the lemmas both schemes share
        AgreementProofs          what two sides agree on: the ledger of rounds and the streams of messages
          SampleProofs           which samples the two sides have, send and map, by the ledger
    Lockstep                     abstract specification that both schemes implement

    DataFlow                     mappings of data around the steps of a coupling scheme
      SerialDataFlow             with SerialCoupling; this is what MCSerialCoupling extends
      ParallelDataFlow           with ParallelCoupling, likewise

    Composition                  networks of serial, parallel and multi schemes, and compositions of them
      MCComposition              the networks that TLC checks

    Connections                  connecting, remeshing handshake, reconnecting and closing, N participants
      MCConnections              the graphs of m2ns that TLC checks
      ConnectionsProofs          theorems
    Rendezvous                   abstract specification that Connections implements
      MCRendezvous               the bound on rounds for TLC
      RendezvousProofs           theorems

    SendQueue                    ranks with a solver and an I/O thread, over sockets
      MCSendQueue                the ranks and exchanges that TLC checks
      SendQueueProofs            theorems

    QuasiNewton                  columns, counters and factors of IQN-ILS and IQN-IMVJ
      MCQuasiNewton              the configurations that TLC checks

`CouplingScheme` is extended, not run by itself, just as `BaseCouplingScheme` is an
abstract class. Its variables are one function per piece of state, indexed by
participant.

| Variable | Code |
|---|---|
| `config` | the configuration both sides have read (never changes) |
| `scheme[p]` | the members of p's `BaseCouplingScheme` |
| `written[p]`, `received[p]` | the `time::Storage` of the data p sends, and of the data it receives |
| `channel[p]` | the bytes on their way to p, in order (`M2N::send` to `M2N::receive`) |
| `solver[p]` | p's solver: the time it is at, and its last checkpoint |
| `pc[p]` | where p is: in its solver, or before one of the blocking sends or receives of an API call |

## 3. How the model corresponds to the code

**One step per blocking call.** An API call of preCICE is a chain of sends and
receives with local computation in between. A local computation cannot be
observed by the partner, so an action runs from one blocking call up to the next.
`pc` names the function whose call comes next: `"receiveDataForWindowEnd"`,
`"sendConvergence"`, and so on. `advance()` thus is `Advance` (up to
`exchangeFirstData`), then the actions of the scheme, the last of which ends in
`FinishAdvance`: `secondExchange()` and the trimming of
`ParticipantImpl::handleDataAfterAdvance()`, in one step with the receive or send
that it follows.

**Channels.** A message has a `kind` only to let a property say which receive it is
meant for; `Receive` in the code takes the bytes that come next. The actions do
guard on the kind, and `ExpectedMessage` shows the guard never to be what holds a
participant up. Channels are FIFO, as the back ends of M2N are. A configuration
says whether a send returns at once or blocks until it is received (`Synchronous`;
cf. `M2N::send`, m2n/M2N.cpp:218, whose `syncMode` makes it wait for an answer, and
MPI's freedom to do so). Nothing is lost or duplicated: the back ends are TCP and
MPI.

**Time.** (Of the coupling modules.) Times are whole ticks. `TimeHandler` in the code adds with Kahan sums and
compares with `math::equals` in order that sums of steps behave like that.

**Data.** The properties are about which data is read when, so a sample carries
its origin in place of its values: `at`, the time the solver that produced it was at,
and `round`, the coupling round it was in. `t` is the stamp the storage keeps it
under. There is one data field in each direction; each of the two
may be absent, initialized or not, and exchanged with substeps or not.

**Mappings.** `DataFlow` adds what `ParticipantImpl` and the data contexts do around the
coupling scheme, when both directions are mapped. It is superposed: a step of `SerialDataFlow` is a
step of `SerialCoupling` together with what `storeBufferedData`, `mapWrittenData`,
`moveToNextWindow`, `trimSendDataAfter`, `trimOldDataBefore`, `trimReadMappedData` and `mapReadData`
do to the storages of the mappings. `provided[p]` are the samples that p wrote on
its own mesh, `mappedWrite[p]` those on the partner's mesh that are sent, and `mappedRead[p]`
those that its solver reads; `written` and `received` stay what they would be without a
mapping. A mapped sample keeps the origin of its source, and a sample whose time the
target has is not mapped again. `MappingsAreCurrent` then says that mapping is
transparent, so that what `FreshData` says of received data holds of what is read.

**The solver** obeys the API: it writes its data before each `advance`, makes a step
of at most `getMaxTimeStepSize()`, asks for the checkpoint actions (any order with
respect to the partner), and finalizes when the coupling is over. Its step is chosen
freely, and so is the outcome of the convergence measures, by `\E converged`.

**Failures.** Two errors end a simulation inside an exchange: a strict measure that
is missed (`SendConvergence`), and a window size that changes between iterations
(`ReceiveTimeWindowSize`). The partner's next receive fails then, once what was sent
before has been read (`LosePartner`).

**Configurations.** `Configurations` is a set of records, and `Init` picks one; so one
run covers them all and a theorem holds for any set. `Admissible` says what the
parser lets through, `ParallelAssumption` what the constructor of the parallel
scheme asserts.

**Connections.** `Connections` is about the loops
`for (auto &m2n : _m2ns)` of `ParticipantImpl`, in which a participant deals with one
partner after the other and may block on each. A participant is the position of its
name among all names, since `_m2ns` is a `std::map` keyed by name and the loops run in
that order (`At`). Names without an m2n are not part of the configuration and start
finalized.

| Variable | Code |
|---|---|
| `config` | who has an m2n with whom and which side accepts, allow-remeshing, wait-in-finalize, windows to compute |
| `phase[p]` | the loop p is in: `connectPrimaries` and `connectSecondaries` of `setupCommunication()`, `handshake` of `reinitHandshake()`, `closeDistributed` and `closeAll` of `closeCommunicationChannels()`; or `coupling`, the time between |
| `visited[p]`, `busy[p]` | the partners the loop is done with; whether p is in the middle of a visit, waiting for an answer |
| `primary[p]`, `secondary[p]` | `M2N::_isPrimaryRankConnected`, `_areSecondaryRanksConnected` of each m2n |
| `address` | the connection files: what `ConnectionInfoWriter` has written and not yet removed |
| `calling`, `accepted` | sockets that are requested and not accepted, or accepted and not yet known to the requester to be |
| `wire[<<p, q>>]` | what is on the way between the primary ranks, in order |
| `request[p]`, `swarm[p]` | `requestReinit` and `swarmReinitRequired` |
| `windows[p]` | windows that p completed |
| `sweeps[p]` | history: loops p has been through; read by the refinement only |

`Publish`, `Call`, `Accept` and `Complete` are the two halves of a connection;
`Say`, `Reply` and `Hear` the exchange of flags in the handshake and of "ping" and "pong"
when closing; `EndLoop` what follows a loop; `EndWindow` the end of a window in
`advance()`, with a free choice of whether this participant has changed a mesh
(not in the first window: `resetMesh()` is refused before one is complete). In this
module the data exchange of the coupling schemes is left out, so that participants may
be further apart than a coupling allows; what holds here holds for them. The exchange of
bounding boxes and partitions between the two connecting loops is left out as well (plan
item 2), as is two-level initialization, which adds a loop.

**Networks.** `Composition` has any number of participants and schemes, and leaves the
samples of `CouplingScheme` out. A participant with several schemes runs
`CompositionalCouplingScheme`, one scheme may be a `MultiCouplingScheme`.

| Variable | Code |
|---|---|
| `config` | names in their order, schemes with who does the first step and who the second (or is the controller), window size, limits, who sends to whom |
| `scheme[p][s]` | time, windows, iterations and verdict of p's scheme s |
| `onHold[p]` | `CompositionalCouplingScheme::_explicitOnHold` |
| `pc[p]`, `todo[p]` | the part of the API call p is in, and the sends, receives and `doImplicitStep()` it still has to do, in order |
| `channel[p][q]` | messages on their way |

An exchange (`InitialData`, `FirstData`, `SecondData`) is the list of sends and receives of
one scheme; a composition concatenates the lists of the schemes it runs, and `Send`, `Receive` and
`DoJudge` work the list off. Data carries the time it is of, so `ExpectedMessage` is about scheme,
kind and time.

**Send queue.** `SendQueue` has one step per critical section of a thread. `Dispatch`, `Process` and
`SendCompleted` are the methods of `SocketSendQueue` under `_queueMutex`; `WritePiece` and
`ReadPiece` move a piece of a message through a socket that takes `Capacity` pieces; `Callback` completes the request
in the handler, before it calls `sendCompleted()`. `Emplace` is apart from `Dispatch`
as the write may be over before the solver thread keeps its request.
`CheckBufferedRequests`, `Close` and `Join` are the polling of requests, `closeConnection()`
and the destructor that joins the I/O thread. Ranks of a participant wait for each
other before each call if the configuration says so (`syncTimestep`).

**Quasi-Newton.** In `QuasiNewton` a column of V is the pair of residuals, named by window and
iteration, whose difference it is. `qn` has the members of the acceleration object: `matrixV`,
`matrixCols`, `qrV` (the columns that the QR factorization stands for), `Wtil` with the window
whose Jacobian each column was computed with, the stored pairs of the restart mode, the backup and
the flags. `PerformAcceleration` and `IterationsConverged` are the two calls, sequences of
the named parts. What the orthogonalization rejects, what the filter removes and whether the
preconditioner's weights change are free choices, within what the algorithms can
answer. A system has one number of rows, `conf.rows`: there is no secondary data. With it, the code
limits the columns by the rows of all data (`getLSSystemRows()`) while a column of V has those
of the primary data only (`getPrimaryLSSystemRows()`). `used` remembers what the last update was computed from; nothing but
properties reads it.

**Faults.** Operators with the comment `\* fault: ...` next to a definition are what a
bug there would turn it into. No action uses them; they show that the properties
notice.

**Bounds.** `StepBound` limits a step only where no window and no end of time limits it;
`IterationBound` ends the iterations of a window that has no iteration limit. Both
appear in guards (`Advance`, `WithinBound`) and nowhere else, besides standing for the
infinite time until the end when there is no max-time. `Capacity` in `SendQueue` is the
buffer of a socket; `Windows` and `Iterations` in `QuasiNewton` bound how often it
is called.

**Deadlock.** Participants really stop when they are finalized or have failed, and ranks when they have
closed, so the configs switch TLC's deadlock check off; a wrong standstill violates
`Terminates`, `EveryoneFinishes` or `AllClose`, which demand that all reach an end. The
acceleration is not called any more after the last window.

**Fairness.** `WF_vars(Participant(p))`, in `Connections` `WF_vars(Step(p))`, for each
participant: a solver keeps calling
preCICE, and a blocking call whose message is there returns (so does the poll for a file, and the
retried `connect`, once the other side is there). Nothing is assumed of
the verdicts: an implicit scheme reaches its iteration limit, and where it has none,
`IterationBound`. That a scheme without a limit converges eventually is a property of
the physics and not of this code. In `SendQueue` fairness is for each of the two threads of
each rank, as the operating system schedules them. `Composition` needs less, `WF_vars(Next)`:
somebody who can go on does. `QuasiNewton` has safety properties only and no
fairness.

## 4. What the runs check

| Run | Config | Distinct states | Shows |
|---|---|---|---|
| `serial` | `SerialCoupling.cfg` | 518,218 in 762 configurations | 9 invariants, iteration limits, refinement of `Lockstep`, termination, with mapped data; six of these are also proved (section 5) |
| `parallel` | `ParallelCoupling.cfg` | 179,248 in 432 configurations | what depends on the other order of exchange; `TypeOK` and `KeepsLockstep` are also proved, with the promises that only `serial` runs |
| `composition` | `Composition.cfg` | 121,492 in 136 networks | 4 invariants and termination of multi and compositional schemes |
| `connections` | `Connections.cfg` | 99,748 in 119 configurations | 4 invariants and the refinement of `Rendezvous`, which are also proved (without remeshing), 1 action property, termination |
| `rendezvous` | `Rendezvous.cfg` | 188,066 in 1,024 graphs | 2 invariants, which are also proved |
| `send_queue` | `SendQueue.cfg` | 637,479 in 7 configurations | 4 invariants, three of which are also proved, and that everybody closes |
| `quasi_newton` | `QuasiNewton.cfg` | 129,090 in 312 configurations | 5 invariants |
| `serial_truncated` | `SerialTruncated.cfg` | violation | see section 6 |
| `composition_mixed` | `CompositionMixed.cfg` | violation | see section 6 |
| `imvj_restart` | `ImvjRestart.cfg` | violation | see section 6 |
| `remeshing_chain` | `RemeshingChain.cfg` | violation | see section 6 |
| `remeshing_closes` | `RemeshingCloses.cfg` | violation | see section 6 |

The configurations of the coupling runs combine explicit and implicit coupling; both window methods
(fixed size 2, or set by the first participant's steps of 1 or 2); an end by three
windows or by time 3, which truncates the second window of size 2; all choices of
who sends, who initializes and who uses substeps; min-iterations 1 and 2;
max-iterations 2 or none; strict and sufficing measures; buffered and blocking
sends; with and without wait-in-finalize, from either side.

These bounds are enough for the cases that matter: windows after the first and
before the last (three of them), a window repeated and a window that converges at
once, steps that end the window, steps inside it (size 2 against steps of 1), and a
last window cut short. Rounds only ever matter relative to the current one.

The networks of `composition` are those of the integration tests: a chain of three with an explicit
coupling and any second one, all choices of serial or parallel and of who is first, with
windows of the same size or explicit ones twice as long; a multi coupling of three
that all exchange with each other, joined by a fourth; a circle of explicit one-way
couplings; five participants with a multi coupling and four explicit ones; and windows of
different sizes (2 and 3) in explicit couplings. Two windows (or time 6) and two iterations are enough
for a window that repeats while explicit schemes are on hold, and one after it. Chains of
equal windows with initial data run with blocking sends too.

The run of the connections takes every graph on four names in which nobody is alone,
each in four orientations (the side that accepts decides who speaks first), with
wait-in-finalize and one window; among them are chains, stars, triangles with and without a cyclic
orientation, squares and the complete graph. Remeshing is admitted for parallel-explicit coupling
only, and run for a pair in both orientations over three windows, with and without
wait-in-finalize: reconnecting once, twice, in consecutive windows, at the wish of one or of both. Four names
are the smallest number with two disjoint connections, and with a cycle that is not a triangle;
`rendezvous` takes all graphs on five names, for two rounds (`RoundBound`), and `NobodyBlocked` is proved for
any number of participants and rounds.

`send_queue` has two ranks that send to two that list each other in opposite orders, and two ranks that exchange three
times with one, in three orders of sends and receives, each with ranks that wait for each other before a call and
with ranks that go on at their own pace. Other sequences of calls and other mappings are left to the theorems, which have all of
them, but for safety only; `AllClose` is known for these seven. A message is two pieces and a socket
takes one, the smallest numbers at which writes could overlap and a slow receiver holds
up a sender. `quasi_newton` runs four windows of up to four iterations, with up to two windows
reused, one to four columns, a system of two rows (it becomes square) or five, every restart type that
is modelled and chunks of one and two.

`MCSerialCoupling` leaves out of the large run the configurations in which the code breaks
`StampsTrue` or `EndsWithWindowEnd` (`StoredTooLate`), and gives strict measures a
limit of iterations (section 6); `serial_truncated` keeps the former.

| Property | Question |
|---|---|
| `ExpectedMessage` | Does every receive find the message it is meant for? (Messages carry no type.) |
| `KeepsLockstep` | Do both sides go through the same rounds and windows, one following the other by at most a round and taking its decision to repeat or go on? (Refinement of `Lockstep`; a side that gets no data may run ahead.) |
| `EndTogether` | After `finalize()`, are both at the same window and time, with no message left unread? |
| `FreshData` | At the start of a step, does a solver read its partner's newest data in the order the scheme promises: Gauss-Seidel or Jacobi? |
| `MappingsAreCurrent` | Does a mapping send and show exactly the samples of the current iteration, though its storages are trimmed apart from the scheme's and a time that is there is not mapped again? |
| `StampsTrue` | Is every sample stored under the time it was computed for, on either side, after windows that were cut short or set by the partner? |
| `StampsInOrder` | Does the assertion of `Storage::setSampleAtTime` always hold? |
| `EndsWithWindowEnd` | Can Second read up to the end of its window, and no later? |
| `SolverFollowsScheme` | Are solver time and checkpoint where the scheme takes them to be? |
| `IterationsWithinLimits` | Do both sides, which count on their own, complete windows only between min-iterations and max-iterations? |
| `NoCrossTalk` | Is what a participant reads from a primary connection meant for what it is doing, flag, ping or pong, with nothing left over at the end? |
| `MeshesOpenWhileCoupling` | While a participant computes, do all its partners hold the connection of their meshes, after each reconnection and until they close? |
| `NobodyLeavesEarly` | With wait-in-finalize and several partners, is nobody gone before all its partners have computed their windows? |
| `SwarmAgrees` | Does the handshake tell whether anybody requests to remesh? |
| `NobodyBlocked` | Can somebody always move on: are two partners at each other, or is somebody behind ready for its next round? |
| `PartnersInStep` | Have two partners always visited each other equally often, whatever each does with others? |
| `ImplementsRendezvous` | Are connecting, shaking hands and closing visits that partners make together, round by round? (Refinement of `Rendezvous`.) |
| `EveryoneFinishes` | Does everybody get to the end of `finalize()`? |
| `MeshesCloseLast` | Are meshes disconnected only when the primary ranks are (`remeshing_closes`)? |
| `Terminates` | Do all sides always reach an end, one side's error included? |
| `CountsWindows` | In a composition, does each scheme do each window once, on hold or not? |
| `OnlyConvergedData` | Does nobody send by an explicit scheme data of a time that its implicit scheme may compute again? |
| `MessagesWhole` | Does each receive get the pieces of its own message in order, while writes of several messages wait in one queue? |
| `BuffersAlive` | Does the buffer of a queued or running write stay alive? |
| `QueueOutlivesHandlers` | Is the queue destroyed only when empty, with no write and no handler left? |
| `AllClose` | Do all ranks get through, though one queue serves all partners and sockets block? |
| `CountersMatch` | Do the counters per window add up to the columns, with none of them zero by mistake? |
| `OnlyReusedWindows` | Does an update use columns of the windows allowed, and no others? |
| `FactorsMatch` | Is the factorization one of just the columns of V? |
| `WtilIsCurrent` | Does `_Wtil` belong to the present V, and to the Jacobian of the window before? |
| `ChunkMatches` | Do the stored matrices of the restart mode fit together (`imvj_restart`)? |

`parallel` leaves out the questions that the same code answers in `serial`, in `Storage` and in
the base class, and asks those about which the order of exchange could tell another story:
`FreshData` (Jacobi instead of Gauss-Seidel), `MappingsAreCurrent`, `KeepsLockstep` and
`Terminates`. `OnlyReusedWindows` is claimed for the QR2 filter only, and `WtilIsCurrent` not for the
first step of a window when nothing is reused (section 6).

For every property of the passing runs `PROJECT.json` names a fault that TLC then
finds to break it: an uncounted window, one iteration too many, a verdict that
stays, a window size taken too late, a trim that is off by one, a wait for data that
nobody sends, schemes that stay on hold, a queue that starts two writes, a filter that
forgets the counters.

## 5. What is proved

**Each side of a bi-directional scheme, and both together.** For every set of admissible configurations (any window sizes, limits, measures and
choices of what is exchanged), any `StepBound` and any `IterationBound`, under
`ConfigAssumption` (two different participants, admissible configurations), and
`ParallelAssumption` for the parallel scheme:

| Theorem | Statement |
|---|---|
| `SerialInvariance`, `ParallelInvariance` | `Spec => []IInv` |
| `SerialTypeCorrect`, `ParallelTypeCorrect` | `Spec => []TypeOK` |
| `SerialSolverFollowsScheme`, `ParallelSolverFollowsScheme` | `Spec => []SolverFollowsScheme` |
| `SerialExpectedMessage`, `ParallelExpectedMessage` | `Spec => []ExpectedMessage` |
| `SerialEndTogether`, `ParallelEndTogether` | `Spec => []EndTogether` |
| `SerialIterationsWithinLimits`, `ParallelIterationsWithinLimits` | `Spec => IterationsWithinLimits` |
| `SerialLockstep`, `ParallelLockstep` | `Spec => KeepsLockstep`: both schemes implement `Lockstep` |
| `SerialFlowFollowsScheme`, `ParallelFlowFollowsScheme` | `FlowSpec => [](TypeOK /\ SolverFollowsScheme)` |
| `SerialFlowPromises`, `ParallelFlowPromises` | `FlowSpec` keeps the four promises above, too |
| `ParallelStampsTrue`, `ParallelStampsInOrder` | `Spec => []StampsTrue`, `Spec => []StampsInOrder` |
| `ParallelFreshData` | `Spec => []FreshData` |
| `ParallelFlowSamples` | `FlowSpec` keeps these three, too |
| `SerialStampsTrue`, `SerialStampsInOrder` | `Spec => [](WindowsFit => StampsTrue)`, `Spec => [](WindowsFit => StampsInOrder)` |
| `SerialFreshData`, `SerialEndsWithWindowEnd` | `Spec => [](WindowsFit => FreshData)`, `Spec => [](WindowsFit => EndsWithWindowEnd)` |
| `SerialFlowSamples` | `FlowSpec` keeps these four, too |
| `ParallelMappingsAreCurrent` | `FlowSpec => []MappingsAreCurrent` |
| `SerialMappingsAreCurrent` | `FlowSpec => [](WindowsFit => MappingsAreCurrent)` |

`FlowSpec` is the specification with mapped data, the one that the runs check; its steps are
steps of the coupling scheme. The iteration limits and `Lockstep` are about steps: the proofs
show that no step violates them and that each maps to a step of the abstract specification or to a stutter.

*One side.*

Neither `TypeOK` nor `SolverFollowsScheme` is inductive. Storing a sample at the end of the
window to come keeps its time natural only if the size of that window is known; that
`readCheckpoint` takes the solver to where the scheme is, only if the scheme was
reset to the window's start, and if the checkpoint in hand was written there. `IInv`
adds both:

- `SizeIsKnown(place, c)`: at a place that receives for the end of a window, the size is
  known; the places that send or receive a size belong to the first-participant
  method; the window counter is at least 1, and at least 2 inside an exchange (where
  `secondExchange` may take it back).
- `InStep(place, c, s)`: while `ReadCheckpoint` is missing the scheme is at the window's start and so
  is the checkpoint; otherwise solver and scheme are at the same time; a
  `WriteCheckpoint` that is missing is missing at a window's start; inside an exchange
  nothing is required and the checkpoint is the window's start.

`IInv` is true in the initial state (`InitConsistent`); each action keeps it, by one
lemma per action (`AdvanceStep`, `SendConvergenceStep`, ...). Three of them carry the
weight. `StepOf`: a step that touches p's state alone and leaves it consistent keeps the
invariant. `ExchangeStep`: nothing that `InStep` reads changes inside an exchange.
`SecondExchangeConsistent`: whatever the verdict, completing the window (truncated or
not) keeps the time and moves the window's start there, and repeating it goes
back to the start, to where the checkpoint is. TLC checks `IInv` too, with the
configurations of both passing runs, by adding it as an invariant to a module that
extends the MC module and `CouplingSchemeProofs`.

*Both sides.* The other four properties relate two participants that never see each other's
state. Each counts windows and iterations and works out window ends on its own, and a message
carries no type: a receive takes whatever comes next. That they nevertheless agree rests on a
sequence of rounds that both go through, so the invariant says that there is one:

    Agreement == IInv /\ (Broken \/ \E L \in Ledgers : Agree(L))

A ledger maps a round (of explicit coupling: a window) to its window, start, end, iteration and
verdict. It is no variable of the model, and an action that decides something nobody has
decided yet (the size of a window, the end of a round, a verdict) gives a new witness that
differs from the old at the newest round only. `Agree(L)` says of each participant p

- that it is in its round of L (`Joins`): L is kept up to that round (`Kept`), that is, it starts with window 1 at
  time 0 (`First1`), all its rounds keep to the limits (`Proper`), and each follows from the one before by the verdict
  (`Follows`); and p's counters, start and end of window are those of the round, depending on the place p
  is at (`InRound`);
- that the messages on their way to p are those that the ledger makes (`Delivers`). The rounds make a
  stream to p: per round the verdict (to First) or the size of the window (to Second), if the scheme sends any, at
  position `Header(p, k)`, then the data, if any, at `Data(p, k)`. The channel holds
  this stream (`Carries`) from what p has read by its place (`ReadAt`) to what the other has sent by its own
  (`SentAt`), and after it at most a ping or a pong (`Bye`);
- that it closes in the order of `closeCommunicationChannels` (`LeavesInOrder`).

How far apart the places of the two may be follows from `ReadAt <= SentAt` of both streams, and need not be listed
pair by pair. `Broken` is the one way out: Second has ended in the error of a strict measure that
missed the iteration limit (`doImplicitStep`), so that nothing more comes. The invariant is needed in full: `ExpectedMessage` needs the kinds
of the messages in the channel, those need that both count the same rounds, and that needs the verdicts
and sizes inside the messages to be those that the sender acted on, even for messages that are read
several steps later or, when one side gets no data, several rounds later.

Each action keeps `Agree`, by one lemma per action and side on top of `StepAgrees` (a step of p leaves what the other
side tracks, and appends to one stream or takes from the other). `ExpectedMessage` follows from `Fits` at the
head of the channel, `EndTogether` since two participants at `finalized` are both in a round of the same ledger that
is not `Open`, and there is just one (`NobodyIsAhead`), `IterationsWithinLimits` from `Judged`, and
`KeepsLockstep` by mapping p's round, window and verdict to the ledger's entry. TLC checked `Agree` before it was
proved, with the ledger as a history variable: 197,480 distinct states with the configurations of
`parallel`, 688,594 with those of `serial`.

*Samples.* `Agreement` places each message of data in its round but does not say which samples it
has. The invariant that does is, for the parallel scheme,

    DataAgreement == IInv /\ ((Broken /\ StampsTrue) \/ \E L \in Ledgers : Agree(L) /\ Sampled(L))

`Stamp(L, k)` is the end of round k, 0 for the initial data; `EndsIn(store, k, t)` says that the last sample of a storage was
written in round k and is stored at t. Every iteration of a window begins with the same sample, the last of the window before, which
was written in round `k - L[k].iteration` for `L[k].start`: `Root(L, k)`, which a participant works out from its own counters as
`OwnRoot`; `Rooted(store, root)` says that nothing else is stored up to that time. `Sampled(L)` says of each participant p

- what it has written (`Holds`): nothing later than its scheme's time, all at the time it was computed for, and from the end of a round until the
  data is sent, a last sample of that round;
- which samples the messages to p have (`Parcels`): the one at `Data(p, k)` has those of round k and ends at `Stamp(L, k)`, without substeps with a single sample, with substeps with `Root(L, k)` in front;
- what it has received (`Got`): data that ends with that of the last round of which it has read the message (`RoundRead`);
- that both its storages are at the root of its round (`Starts`).

When a new witness replaces the ledger, the ends of the rounds whose data somebody still has to send or to store must be what they were
(`Keeps`, `SampledAlike`). `FreshData` follows as the round read and the round computed are one apart for every place in
the solver, or the same for Second of the serial scheme; `StampsInOrder` as what is stored next is of a round that does not end
earlier.

The serial scheme is harder, because Second stores data for the end of a window before it has moved to that
window, at the time that it works out on its own. So its `Sampled` has one more conjunct, `Steady`: the windows that Second repeats keep
their end; at a receive of data for the scheme's time the window is to be repeated, at one for the end of the window to come it is
complete (`Settled`); and the windows before took a configured size each, if that is all that Second has to go by. That last case is

    Fitted     == First \in Sends \ Substeps /\ TimeWindowSize # Undefined
    WindowsFit == Fitted /\ MaxTime # Undefined => \E n \in Nat : MaxTime = n * TimeWindowSize

If First sends a single sample and the size is configured, Second stores the sample at the end that the size gives the
window, and if max-time truncates that window, First has computed it for an earlier time: the disagreement that run `serial_truncated`
shows (section 6). The theorems of the serial scheme have `WindowsFit` as their premise for that reason, and hold with
substeps, with the first-participant method, without max-time and with one that is a multiple of the size, whatever else is configured.

*Mappings.* `MappingsAreCurrent` compares storages that are trimmed apart: those of the scheme
in `SecondExchange`, those of the mappings after it, by what `ParticipantImpl` finds in the scheme then. The danger is that
`mapData()` skips a sample whose time the target has already, so that a sample left from the iteration before keeps the new one
out. The invariant (`MappingsHold`) adds to `DataAgreement`, for each participant,

- `MapsWrites`: its own side of the write mapping has what is written. While the solver computes, what is mapped of it
  is the part up to the start of the window; from the end of a window until the data is sent, all of it.
- `MapsReads`: what is mapped is what was received while the solver computes, and nothing before `initialize()`
  is through. During an exchange the mapped samples of the round that ends are at its root, and for Second of the serial
  scheme they end with that round, which is what `clearExceptLast()` keeps of a complete window; in explicit coupling without such
  a rest nothing is later than the window's start.

Then, whatever the verdict, what `trimReadMappedData` leaves is no more than the root of the next round (`ReadsFinish`). By `Starts` what has
been received has the same root, so that skipping it loses nothing, and all later samples are mapped anew. This is why
`Sampled` speaks of roots: without them the sample at the start of a window could be one of another iteration. The same
argument about `TrimAfter` gives `MapsWrites` back (`MapsFinish`). In the serial scheme Second moves what it sends to the next
window before it receives (`Late`), while its mapping does so at the end of `advance()`: `Writes` says that in between
the scheme's storage is what is left of the mapping's. `SerialMappingsAreCurrent` has the premise `WindowsFit`,
since it rests on `Sampled`.

**Visiting in the order of the names never blocks** (`RendezvousProofs`), for every set
`Participants` of natural numbers, finite or not, and every symmetric graph on it:

| Theorem | Statement |
|---|---|
| `DeadlockFreedom` | `Spec => []NobodyBlocked` |
| `StaysInStep` | `Spec => []PartnersInStep` |

The inductive invariant is `TypeOK /\ PartnersInStep`: partners have visited each other
equally often, counting rounds and the visit of the current one. `NobodyBlocked` follows
from it. If p has partners left, take the smallest round of anybody not ahead of p who has
partners left, and in it the smallest name q, and let r be the smallest partner q has left. By
`PartnersInStep` r has not visited q in that round either, so it is in the same round or behind. If it
is behind and its loop is through, it can begin the next. Otherwise it has partners left
and, by the choice of the round, is in the same; the smallest it has left, s, is in the same round by
the same argument and has a name no smaller than q, which was chosen smallest; and q is one
that r has left. So s is q, and q and r can meet. Only the order of the names is used: two participants that
disagree on it (`AtOwnOrder`, `AtAsConfigured`) can wait in a circle.

**Connecting and closing without remeshing** (`ConnectionsProofs`), for every set `Participants` of
natural numbers, finite or not, every graph of m2ns, any number of windows, with and without wait-in-finalize:

| Theorem | Statement |
|---|---|
| `Invariance` | `Spec => []IInv` |
| `TypeCorrect` | `Spec => []TypeOK` |
| `MeshesStayOpen` | `Spec => [](~config.allowsRemeshing => MeshesOpenWhileCoupling)` |
| `NobodyGoesEarly` | `Spec => [](~config.allowsRemeshing => NobodyLeavesEarly)` |
| `PingsAndPongs` | `Spec => [](~config.allowsRemeshing => NoCrossTalk)` |
| `Refinement` | if no configuration allows remeshing, `Spec => ImplementsRendezvous` |
| `NobodyWaitsInACircle` | if no configuration allows remeshing, `Spec => []Abstract!NobodyBlocked` |

The premise is needed: with remeshing the handshake of a chain does not agree (section 6), and one side of
an m2n reconnects alone. Without it the two sides of an m2n are never further apart than one visit, and
`Pair(ph, a, r)` says how far: in loop ph the requesting side r has asked, and both have yet to end the
visit; or the accepting side a has answered and ended it, and r waits with the answer before it; or nothing is
between them, and both have ended it or neither. `IInv` is that for every m2n and every loop in which
partners wait for each other, with what a participant is connected to by the loop it is in (`Local`),
what can be on a wire (`Wires`), and the windows that are left (`WindowsLeft`). An action at one partner leaves the
visits to all others where they are (`OtherVisits`, `OtherPairs`), so that each of the eight has one `Pair` to
look at. `MeshesOpenWhileCoupling` follows as a partner that has closed would have ended the visit
of closing, which takes the ping or the pong of the participant that still computes.

The refinement maps a visit to `Meet` when the accepting side ends it (`AcceptorMeets`): the requesting side
is then at it, in the same loop and hence in the same round (`Counted`). Its own end of the visit, as
everything else in between, is a stutter (`RequesterUnnoticed`), since the mapping counts an answer that lies
before it; the end of a loop is `Advance`, but for closing without waiting, which is no round.
`NobodyWaitsInACircle` is `DeadlockFreedom` of `RendezvousProofs`, instantiated with the same mapping.

**The send queue** (`SendQueueProofs`), for any ranks, mappings and calls on both sides, any
number of pieces and any capacity of the sockets, under `SendQueueAssumption`:

| Theorem | Statement |
|---|---|
| `Invariance` | `Spec => []IInv` |
| `TypeCorrect` | `Spec => []TypeOK` |
| `BuffersStayAlive` | `Spec => []BuffersAlive` |
| `QueueOutlives` | `Spec => []QueueOutlivesHandlers` |
| `MessagesStayWhole` | `Spec => []MessagesWhole` |

`BuffersAlive` is not inductive: `checkBufferedRequests` frees what is complete, and only
the history of a request tells that a complete one is neither queued nor written. `IInv` is `TypeOK` and
for each rank: at most one of "a write runs", "a handler runs" and "ready" holds, and a queue that waits
has one of the first two (`OneWrite`); an item is queued once, and not both queued and written (`Once`); what
is queued or written is not complete, and what the call under way has yet to post is new
(`Fresh`, with `InCall` about the call); what is queued or written is kept; and when the thread has been stopped nothing is left
(`Quiet`). `Close` then finds an empty queue as all kept requests are
complete and all queued ones are kept. Every action touches the state of one rank, and of
it what the solver thread or the I/O thread owns; `FrameStep` says so once for all
actions.

`MessagesWhole` relates the queue of one rank to the reads of another, with any number of pieces in between. Its invariant,
`StreamInv`, adds to `IInv` for every two ranks q and r that are mapped to each other

- that the messages q has handed to its queue for r are 1, 2, ... up to the one its `send()` is at (`Handed`), that
  those complete are the first n - 1 of them, that only n is being written, and that the rest wait
  in their order (`InOrder`);
- that the wire holds the pieces from the one that r reads next (`ToRead`) up to the one before the one
  that q writes next (`WritesNext`), each the successor of the one before (`Connects`);
- that what r has read of its message is its beginning, and nothing outside of a receive (`Reads`).

`process()` is the step that matters (`ProcessOrder`): it takes the head of a queue that serves all partners, and
that head, if it is for r, is message n, because whatever else of r waits comes behind it and has a greater number, while
n itself is handed over, not complete and not being written. The order of pieces is given by their successor
(`Piece`, `After`), so that no step needs the product of a message's number and its pieces. TLC finds
`StreamInv` true in the 637,479 states of `send_queue`, with messages numbered up to 4.

**Model-checked only.**

- `FreshData`, `StampsTrue`, `StampsInOrder` and `MappingsAreCurrent` of serial coupling where `WindowsFit` is false: nothing is claimed of them there.
  `EndsWithWindowEnd` fails (section 6).
- `NoCrossTalk`, `MeshesOpenWhileCoupling` and `NobodyLeavesEarly` with remeshing, and `SwarmAgrees`; `Composition`.
- `QuasiNewton`: its invariants speak of sums over a sequence of counters, which takes induction over data. The
  library's induction theorems take an operator as parameter, which none of the provers can instantiate.
- `Terminates`, `EveryoneFinishes` and `AllClose`: liveness under fairness (and ENABLED) is out of the
  prover's reach.

## 6. Disagreements with the code's own statements

**Data for a truncated window is stored past its end** (run `serial_truncated`,
cplscheme/BaseCouplingScheme.cpp:216-227). `receiveDataForWindowEnd()` sets the time to
the window's start plus `_nextTimeWindowSize`; its comment says that "_time state
[points] to end of this window". If max-time cuts the last window short,
First computed up to max-time, but without substeps Second stores the sample
under a time beyond it: with windows of size 2 and max-time 3, as in the run, the sample that First
computed at 3 is stored under 4. The next receive of that window, in its second iteration, is
for max-time: earlier than what is stored, which `Storage::setSampleAtTime`
(time/Storage.cpp:44) asserts not to happen; a read within the last window
interpolates towards a time that is never reached.

**A composition exchanges twice when windows differ in size** (run `composition_mixed`,
cplscheme/CompositionalCouplingScheme.cpp:217). If an explicit window ends inside a window of the
implicit scheme nothing is on hold, and `firstExchange()` runs the explicit schemes
(lines 174-177). `secondExchange()` of the same `advance()` sees that the implicit scheme is not behind
them and takes them to be waiting: it runs their first exchange again. The window counts twice in
`getTimeWindows()`, and a participant that sends in its first exchange
sends twice. The configuration is that of
`tests/serial/mixed-time-window-sizes/implicit`, for which preCICE only warns, and
whose test looks at neither.

**IQN-IMVJ in restart mode stores matrices that do not fit** (run `imvj_restart`,
acceleration/IQNIMVJAcceleration.cpp:682). With time-windows-reused > 0 a window that ends drops the oldest
columns of V, marks `_Wtil` as outdated, and leaves it as it is. If the next window converges before a
quasi-Newton step has rebuilt it, `specializedIterationsConverged()` stores the old `_Wtil` with the new Z.
Later updates multiply them, and assert before that the sizes agree (line 230).

**The handshake does not reach everybody** (run `remeshing_chain`,
precice/impl/ParticipantImpl.cpp:1754-1766). `reinitHandshake()` sends each partner
`requestReinit`, its own wish, and not `swarmReinitRequired`, what it has learnt so far. Its
documentation (precice/impl/ParticipantImpl.hpp:465) promises "does any participant request to remesh?", and its debug
output calls the result "overall". With two couplings of two participants each, joined by one more m2n (which the
configuration accepts together with allow-remeshing), a request at one end is unknown
at the other, and one side of the joining m2n closes and reconnects while the other does not. With
one coupling of two, the case that remeshing is meant for at present, the promise holds (`SwarmAgrees` in `connections`).

**Gather-scatter communication is closed before its primary connection** (run
`remeshing_closes`, precice/impl/ParticipantImpl.cpp:301).
`GatherScatterCommunication::closeConnection()` asserts that the primary ranks are not connected any
more (m2n/GatherScatterCommunication.cpp:61), which holds in `M2N::closeConnection()` and not in
`reinitialize()`, which closes the distributed connections only. Nothing excludes
enforce-gather-scatter from remeshing.

Met while modelling, and described here without a run:

- A strict measure without max-iterations ends the simulation at once
  (cplscheme/BaseCouplingScheme.cpp:747-756): without the tag the limit is
  `INFINITE_MAX_ITERATIONS`, -2, and the check on strict measures compares with it all the
  same. The first iteration that misses the measure "did not converge within the
  maximum allowed iterations".
- The check against endless iterations
  (cplscheme/config/CouplingSchemeConfiguration.cpp:982-987) does not fire. It asks for -1, which
  `updateConfigForImplicitCoupling()` has replaced by -2 before.
- cplscheme/BaseCouplingScheme.hpp:417 says the window counter stays at most at
  `_maxTimeWindows`, while it ends at one more.
- cplscheme/CompositionalCouplingScheme.cpp:306 says "the most timeWindows" above a `std::min`;
  CompositionalCouplingScheme.hpp:179 "Only true, if all" above what is an `any_of`.
- The participant that the XML names "acceptor" of an m2n is the one that requests the
  connection (`configureM2Ns`, precice/impl/ParticipantImpl.cpp:1322-1325); an m2n in
  `Connections` is named by what the sides do.
- A circle of implicit serial and explicit parallel schemes may deadlock, as the comment at the head of
  cplscheme/CompositionalCouplingScheme.hpp:53-55 says; no such network is among those
  checked.
- The QR1 filter may discard the newest column. If it is the only one of its window, its counter is
  erased (acceleration/BaseQNAcceleration.cpp:546) and later columns count as those of
  the window before, which then stays a window longer: the reason why `OnlyReusedWindows` is about QR2.
- In the first step of a window, IQN-IMVJ without reused windows uses columns of `_Wtil` that belong to the
  Jacobian of two windows ago: the columns are kept for this one step, `_Wtil` is marked as outdated after it.
- The condition of acceleration/BaseQNAcceleration.cpp:168 admits one column more than rows;
  QR2 removes it again, QR1 does not factorize it.
- The backup of the matrices (acceleration/BaseQNAcceleration.cpp:264) is restored in no state
  the model reaches.

## 7. Plan

Done: the bi-directional schemes with base, storage, channels and closing, and the mappings around
them; compositions and multi coupling; the connections of N participants; the send
queue with a proof of its buffers, and proofs about connecting and closing for every graph; the
columns of the quasi-Newton methods. Left, in this order:

1. Remeshing in the coupling schemes: `reinitialize`, `firstSynchronization` and
   `secondSynchronization`, storage trimmed to one sample, and `MultiLock`. Joins `ParallelCoupling`.
2. Meshes and partitions: what partners exchange between the two connecting loops, by name of mesh. `Rendezvous`
   with meshes as the order in which partners are visited.
3. The life cycle of `ParticipantImpl`: which call is admitted in which state.
4. `IntraComm`: order of collective calls, when one rank of a participant fails.
5. Restart of IQN-IMVJ by least squares (RS-LS), and broken sockets in `SendQueue`.

Theorems to come, in this order:

- `OnlyConvergedData` and `ExpectedMessage` of `Composition`, for explicit windows that are multiples of the implicit one.
- One coupling of two with remeshing implements `Rendezvous`.

## 8. Not modelled

- **Numerics**: mappings, acceleration's linear algebra, interpolation between samples,
  actions on values. TLC and the provers do not do floating-point numbers; the values
  do not steer the protocol, except through the convergence verdict, which is free.
- **Configuration parsing** and XML: what it admits is `Admissible`.
- **Profiling, logging, exports, bindings for C and Fortran**: output and forwarding.
- **MPI back ends**: wrappers of a library, seen here as channels.
- **Solvers that violate the API** get an error message from checks at the start of each
  call; the model's solvers do not.
- **Remeshing** in the coupling schemes (`reinitialize`, `firstSynchronization`,
  `secondSynchronization`): experimental and off by default, plan item 1. What it does
  to the connections is modelled in `Connections`.
- **Secondary data of the quasi-Newton methods**, and with it a limit on columns that exceeds the rows of V
  (section 3).
- **Recovery**: there is none. Files of a crashed run make the next one end with a message that asks
  to delete `precice-run`, or let it dial an address where nobody answers; a broken socket
  ends the run, or goes unnoticed where handlers ignore their error code.
- **Ranks of a participant** make the same calls in the same order; `SendQueue` has several ranks, the
  other modules take the primary rank for its participant. Waiting of the primary rank for the others
  before it removes the connection files (`waitForSecondaryRanks`) is within one participant.
- **Blocking sends in multi coupling**: participants other than the controller send first
  and to each other, so sends that blocked would block them all. Point-to-point communication sends
  asynchronously; the networks with a multi coupling are run with buffered sends only.
- **Two-level initialization**: in beta according to its own warning.
