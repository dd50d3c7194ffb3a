----------------------------- MODULE AgreementProofs -----------------------------
(***************************************************************************)
(* What the two participants of a coupling agree on, for the proofs of     *)
(* SerialCouplingProofs and ParallelCouplingProofs.  Neither sees the      *)
(* other: they agree because there is one ledger of rounds that both go    *)
(* through, and because every message on its way to one of them has its    *)
(* place in the stream of messages that the rounds of the ledger make.     *)
(*                                                                         *)
(* The ledger is no variable: the invariant says that there is one.        *)
(***************************************************************************)
EXTENDS CouplingSchemeProofs

--------------------------------------------------------------------------------
(* The ledger *)

\* A round: its time window, where that starts and ends, its iteration in the
\* window, and the verdict of the convergence measures on it.
Entries == [window : Nat, start : Nat, end : Nat, iteration : Nat, converged : BOOLEAN]

Ledgers == [Nat -> Entries]

\* isCouplingOngoing() at the start of a round
Open(e) ==
  /\ MaxTimeWindows = Undefined \/ MaxTimeWindows >= e.window
  /\ MaxTime = Undefined \/ e.start < MaxTime

Size(e) == e.end - e.start

Done(e) == ~Implicit \/ e.converged

\* The end of a window that starts at a time, truncated by max-time
WindowEnd(start, size) ==
  IF MaxTime # Undefined /\ MaxTime < start + size THEN MaxTime ELSE start + size

\* The verdict of doImplicitStep() keeps to the limits.
Judged(e) ==
  IF e.converged THEN e.iteration >= MinIterations
  ELSE MaxIterations # Undefined => e.iteration < MaxIterations

\* The first round, what any round is like, and how one follows another
First1(e) == e.window = 1 /\ e.start = 0 /\ e.iteration = 1

Proper(e) ==
  /\ e.window >= 1 /\ e.iteration >= 1
  /\ TimeWindowSize # Undefined => e.end = WindowEnd(e.start, TimeWindowSize)
  /\ MaxTime # Undefined => e.start <= MaxTime /\ e.end <= MaxTime
  /\ MaxIterations # Undefined => e.iteration <= MaxIterations

Follows(e, f) ==
  /\ Open(e) /\ e.start < e.end
  /\ IF Done(e) THEN f.window = e.window + 1 /\ f.start = e.end /\ f.iteration = 1
     ELSE f.window = e.window /\ f.start = e.start /\ f.iteration = e.iteration + 1

\* The ledger is kept up to round r.
Kept(L, r) ==
  /\ First1(L[1])
  /\ \A k \in 1 .. r : Proper(L[k])
  /\ \A k \in 1 .. r - 1 : Follows(L[k], L[k + 1])

--------------------------------------------------------------------------------
(* A participant in its round *)

WindowAt(place, c) == IF place \in ExchangeSteps THEN c.timeWindows - 1 ELSE c.timeWindows

RoundAt(place, c) == IF Implicit THEN c.totalIterations ELSE WindowAt(place, c)

Early == {"constructed"} \cup InitializeSteps

Leaving == {"receivePing", "receivePong", "finalized"}

\* First of the first-participant method, which sets the size of a window
SetsSize(p) == TimeWindowSize = Undefined /\ p = First

\* p with its scheme c at a place is in round e of the ledger.
InRound(p, place, c, e) ==
  LET now == Time!TimeOf(c.time)
  IN  /\ place \in Places \ {"failed"}
      /\ RoundAt(place, c) >= 1
      /\ e.window = WindowAt(place, c) /\ e.start = c.time.start /\ e.iteration = c.iterations
      /\ place \in Early => RoundAt(place, c) = 1
      /\ place \in ExchangeSteps => Open(e) /\ now = e.end /\ c.time.progress > 0
      /\ place \in Early \cup Leaving \/ ~Open(e) => c.time.progress = 0
      /\ place \in Leaving => ~Open(e)
      /\ place = "solving" /\ Open(e) =>
           IF SetsSize(p) THEN c.time.progress = 0 ELSE now < e.end
      /\ TimeWindowSize # Undefined => c.timeWindowSize = TimeWindowSize
      /\ SetsSize(p) =>
           /\ c.nextTimeWindowSize = Undefined
           /\ c.timeWindowSize = IF place \in ExchangeSteps \ {"sendTimeWindowSize"}
                                 THEN Size(e) ELSE Undefined
      /\ TimeWindowSize = Undefined /\ p = Second /\ Open(e)
           /\ place \in ExchangeSteps \cup {"solving"} => c.timeWindowSize = Size(e)

--------------------------------------------------------------------------------
(* The messages on their way to q *)

\* In each round the verdict comes to First, the size of the window to Second,
\* if there is one, and then the data, if there is any; initial data is sent in
\* a round 0.
HasHeader(q) == IF q = First THEN Implicit ELSE TimeWindowSize = Undefined

HasData(q) == Other(q) \in Sends

\* The position of the header and of the data of round k in the stream
Header(q, k) ==
  IF HasData(q) THEN IF HasHeader(q) THEN 2 * k - 1 ELSE k
  ELSE IF HasHeader(q) THEN k - 1 ELSE 0

Data(q, k) ==
  IF HasData(q) THEN IF HasHeader(q) THEN 2 * k ELSE k
  ELSE IF HasHeader(q) THEN k ELSE 0

Beginning(q) == IF Other(q) \in Initializes THEN Data(q, 0) ELSE Header(q, 1)

\* The message m to q tells the size or the verdict of round e.
Tells(q, e, m) ==
  IF q = Second THEN m.kind = "size" /\ m.size = Size(e) /\ e.start < e.end
  ELSE m.kind = "convergence" /\ m.hasConverged = e.converged /\ Judged(e)

\* The message m is the one at position n of the stream to q.
Fits(L, q, n, m) ==
  /\ HasHeader(q) => \A k \in Nat \ {0} : n = Header(q, k) => Tells(q, L[k], m)
  /\ HasData(q) => \A k \in Nat : n = Data(q, k) => m.kind = "data"

\* The messages hold the stream to q from read to sent, and maybe a goodbye.
Carries(L, q, messages, read, sent, bye) ==
  /\ read \in Nat /\ sent \in Nat /\ read <= sent
  /\ bye \in {"nothing", "ping", "pong"}
  /\ Len(messages) = sent - read + (IF bye = "nothing" THEN 0 ELSE 1)
  /\ \A i \in 1 .. Len(messages) :
       IF read + i - 1 = sent THEN messages[i].kind = bye
       ELSE Fits(L, q, read + i - 1, messages[i])

\* The goodbye on its way to q at a place, with the other side at its place
Bye(q, place, other) ==
  IF ~WaitInFinalize THEN "nothing"
  ELSE IF q # Requesting
  THEN IF other \in {"receivePong", "finalized"} /\ place # "finalized" THEN "ping" ELSE "nothing"
  ELSE IF other = "finalized" /\ place = "receivePong" THEN "pong" ELSE "nothing"

\* The order of closeCommunicationChannels()
LeavesInOrder(p, place, other) ==
  /\ place = "receivePing" => WaitInFinalize /\ p # Requesting
  /\ place = "receivePong" => WaitInFinalize /\ p = Requesting
  /\ WaitInFinalize /\ place = "finalized" =>
       IF p = Requesting THEN other = "finalized" ELSE other \in {"receivePong", "finalized"}

\* An error of Second has ended the coupling, or is about to.
Broken ==
  /\ Implicit /\ pc[Second] = "failed" /\ channel[First] = <<>>
  /\ pc[First] \in {"sendData", "receiveConvergence", "failed"}

--------------------------------------------------------------------------------
(* The stream of messages *)

\* The positions in a stream count the messages before them.
LEMMA Positions ==
  ASSUME NEW q, NEW k \in Nat
  PROVE  /\ Data(q, k) \in Nat
         /\ k >= 1 => Header(q, k) \in Nat
         /\ Header(q, k + 1) = Data(q, k) + (IF HasData(q) THEN 1 ELSE 0)
         /\ Data(q, k) = Header(q, k) + (IF HasHeader(q) THEN 1 ELSE 0)
BY DEF Header, Data

\* The positions of different rounds are in the order of the rounds.
LEMMA PositionsInOrder ==
  ASSUME NEW q, NEW j \in Nat, NEW k \in Nat, j < k
  PROVE  /\ Header(q, j) <= Data(q, j) /\ Data(q, j) <= Header(q, j + 1)
         /\ Header(q, j + 1) <= Header(q, k) /\ Header(q, k) <= Data(q, k)
         /\ HasData(q) \/ HasHeader(q) =>
              Header(q, j) < Header(q, k) /\ Data(q, j) < Data(q, k)
BY DEF Header, Data

\* Every position of a stream is that of a header or of data, and only one.
LEMMA HeaderOrData ==
  ASSUME NEW q, NEW j \in Nat, NEW k \in Nat, HasHeader(q), HasData(q)
  PROVE  Header(q, j) # Data(q, k)
BY DEF Header, Data

\* The data that is sent comes after all other messages.
LEMMA DataIsSent ==
  ASSUME NEW L, NEW q, NEW s \in Seq(Messages), NEW n, NEW k \in Nat, NEW t \in Seq(Messages),
         Carries(L, q, s, n, Data(q, k), "nothing"),
         IF HasData(q) THEN \E m \in Messages : m.kind = "data" /\ t = Append(s, m) ELSE t = s
  PROVE  Carries(L, q, t, n, Header(q, k + 1), "nothing")
<1>1. CASE HasData(q)
  <2>1. PICK m \in Messages : m.kind = "data" /\ t = Append(s, m)
    BY <1>1
  <2>2. Header(q, k + 1) = Data(q, k) + 1 /\ Data(q, k) \in Nat /\ n \in Nat /\ n <= Data(q, k)
    BY <1>1, Positions DEF Carries
  <2>3. Len(s) = Data(q, k) - n /\ Len(t) = Len(s) + 1
    BY <2>1 DEF Carries
  <2>4. Fits(L, q, Data(q, k), m)
    BY <1>1, <2>1, HeaderOrData DEF Fits
  <2>5. ASSUME NEW i \in 1 .. Len(t)
        PROVE  n + i - 1 # Header(q, k + 1) /\ Fits(L, q, n + i - 1, t[i])
    <3>1. i \in Nat /\ i >= 1 /\ i <= Data(q, k) - n + 1
      BY <2>2, <2>3
    <3>2. CASE i = Len(t)
      <4>1. n + i - 1 = Data(q, k) /\ n + i - 1 # Header(q, k + 1)
        <5>1. i = Data(q, k) - n + 1
          BY <2>3, <3>2
        <5> QED
          BY <2>2, <5>1
      <4>2. t[i] = m
        BY <2>1, <3>2
      <4> QED
        BY <2>4, <4>1, <4>2
    <3>3. CASE i # Len(t)
      <4>1. i <= Len(s) /\ n + i - 1 # Data(q, k) /\ n + i - 1 # Header(q, k + 1)
        BY <2>2, <2>3, <3>1, <3>3
      <4>2. i \in 1 .. Len(s) /\ t[i] = s[i]
        BY <2>1, <3>1, <4>1
      <4> QED
        BY <4>1, <4>2 DEF Carries
    <3> QED
      BY <3>1, <3>2, <3>3
  <2>6. /\ Len(t) = Header(q, k + 1) - n + 0
        /\ Header(q, k + 1) \in Nat /\ n <= Header(q, k + 1)
    BY <2>2, <2>3
  <2> QED
    BY <2>2, <2>5, <2>6 DEF Carries
<1>2. CASE ~HasData(q)
  <2>1. Header(q, k + 1) = Data(q, k) /\ Data(q, k) \in Nat
    BY <1>2, Positions
  <2> QED
    BY <1>2, <2>1
<1> QED
  BY <1>1, <1>2

\* The header that is sent comes after all other messages.
LEMMA HeaderIsSent ==
  ASSUME NEW L, NEW q, NEW s \in Seq(Messages), NEW n, NEW k \in Nat \ {0},
         HasHeader(q), Carries(L, q, s, n, Header(q, k), "nothing"),
         NEW m \in Messages, Tells(q, L[k], m)
  PROVE  Carries(L, q, Append(s, m), n, Data(q, k), "nothing")
<1> DEFINE t == Append(s, m)
<1>1. /\ Data(q, k) = Header(q, k) + 1 /\ Header(q, k) \in Nat /\ n \in Nat
      /\ n <= Header(q, k) /\ Data(q, k) \in Nat
  BY Positions DEF Carries
<1>2. Len(s) = Header(q, k) - n /\ Len(t) = Len(s) + 1
  BY DEF Carries
<1>3. Fits(L, q, Header(q, k), m)
  <2>1. ASSUME NEW j \in Nat \ {0}, j # k PROVE Header(q, k) # Header(q, j)
    BY <2>1 DEF Header
  <2> QED
    BY <2>1, HeaderOrData DEF Fits
<1>4. ASSUME NEW i \in 1 .. Len(t)
      PROVE  n + i - 1 # Data(q, k) /\ Fits(L, q, n + i - 1, t[i])
  <2>1. n + i - 1 # Data(q, k)
    BY <1>1, <1>2
  <2>2. CASE i = Len(t)
    <3>1. n + i - 1 = Header(q, k) /\ t[i] = m
      BY <1>1, <1>2, <2>2
    <3> QED
      BY <1>3, <2>1, <3>1
  <2>3. CASE i # Len(t)
    <3>1. i \in 1 .. Len(s) /\ t[i] = s[i] /\ n + i - 1 # Header(q, k)
      BY <1>1, <1>2, <2>3
    <3> QED
      BY <2>1, <3>1 DEF Carries
  <2> QED
    BY <2>1, <2>2, <2>3
<1> QED
  BY <1>1, <1>2, <1>4 DEF Carries

\* Whoever reads a message that is no goodbye has not yet read all.
LEMMA NotAllRead ==
  ASSUME NEW L, NEW q, NEW s \in Seq(Messages), NEW n, NEW m, NEW bye,
         Carries(L, q, s, n, m, bye),
         s # <<>>, Head(s).kind \notin {"ping", "pong", "nothing"}
  PROVE  n < m /\ Fits(L, q, n, Head(s)) /\ Carries(L, q, Tail(s), n + 1, m, bye)
<1>1. /\ n \in Nat /\ m \in Nat /\ n <= m /\ bye \in {"nothing", "ping", "pong"}
      /\ Len(s) = m - n + (IF bye = "nothing" THEN 0 ELSE 1)
      /\ \A i \in 1 .. Len(s) :
           IF n + i - 1 = m THEN s[i].kind = bye ELSE Fits(L, q, n + i - 1, s[i])
  BY DEF Carries
<1>2. Len(s) \in Nat \ {0} /\ Head(s) = s[1]
  OBVIOUS
<1>3. n < m /\ Fits(L, q, n, Head(s))
  <2>1. IF n + 1 - 1 = m THEN s[1].kind = bye ELSE Fits(L, q, n + 1 - 1, s[1])
    BY <1>1, <1>2
  <2> QED
    BY <1>1, <1>2, <2>1
<1>4. Len(Tail(s)) = Len(s) - 1 /\ \A i \in 1 .. Len(Tail(s)) : Tail(s)[i] = s[i + 1]
  OBVIOUS
<1>5. ASSUME NEW i \in 1 .. Len(Tail(s))
      PROVE  IF n + 1 + i - 1 = m THEN Tail(s)[i].kind = bye
             ELSE Fits(L, q, n + 1 + i - 1, Tail(s)[i])
  <2>1. i + 1 \in 1 .. Len(s) /\ n + (i + 1) - 1 = n + 1 + i - 1
    BY <1>1, <1>2, <1>4
  <2> QED
    BY <1>1, <1>4, <2>1
<1> QED
  BY <1>1, <1>3, <1>4, <1>5 DEF Carries

\* The data that is read was the first message.
LEMMA DataIsRead ==
  ASSUME NEW L, NEW q, NEW s \in Seq(Messages), NEW k \in Nat, NEW m, NEW bye,
         Carries(L, q, s, Data(q, k), m, bye),
         HasData(q) => s # <<>> /\ Head(s).kind = "data"
  PROVE  Carries(L, q, IF HasData(q) THEN Tail(s) ELSE s, Header(q, k + 1), m, bye)
<1>1. CASE HasData(q)
  <2>1. Carries(L, q, Tail(s), Data(q, k) + 1, m, bye)
    BY <1>1, NotAllRead
  <2>2. Header(q, k + 1) = Data(q, k) + 1
    BY <1>1, Positions
  <2> QED
    BY <1>1, <2>1, <2>2
<1>2. CASE ~HasData(q)
  <2>1. Header(q, k + 1) = Data(q, k)
    BY <1>2, Positions
  <2> QED
    BY <1>2, <2>1
<1> QED
  BY <1>1, <1>2

\* The header that is read was the first message, and it tells of its round.
LEMMA HeaderIsRead ==
  ASSUME NEW L, NEW q, NEW s \in Seq(Messages), NEW k \in Nat \ {0}, NEW m, NEW bye,
         HasHeader(q), Carries(L, q, s, Header(q, k), m, bye),
         s # <<>>, Head(s).kind \in {"size", "convergence"}
  PROVE  /\ Tells(q, L[k], Head(s)) /\ Header(q, k) < m
         /\ Carries(L, q, Tail(s), Data(q, k), m, bye)
<1>1. /\ Header(q, k) < m /\ Fits(L, q, Header(q, k), Head(s))
      /\ Carries(L, q, Tail(s), Header(q, k) + 1, m, bye)
  BY NotAllRead
<1> QED
  BY <1>1, Positions DEF Fits

\* Rounds of the ledger that no message tells of may be rewritten.
LEMMA CarriesAlike ==
  ASSUME NEW L, NEW M, NEW q, NEW s, NEW n, NEW m, NEW bye,
         Carries(L, q, s, n, m, bye), Len(s) \in Nat,
         HasHeader(q) =>
           \A k \in Nat \ {0} : n <= Header(q, k) /\ Header(q, k) < m => M[k] = L[k]
  PROVE  Carries(M, q, s, n, m, bye)
<1> SUFFICES ASSUME NEW i \in 1 .. Len(s), n + i - 1 # m
             PROVE  Fits(M, q, n + i - 1, s[i])
  BY DEF Carries
<1>1. n + i - 1 >= n /\ n + i - 1 < m /\ n \in Nat
  BY DEF Carries
<1>2. Fits(L, q, n + i - 1, s[i])
  BY DEF Carries
<1> QED
  BY <1>1, <1>2 DEF Fits

--------------------------------------------------------------------------------
(* The scheme of a participant *)

\* Two schemes that differ at most in their actions and their received data
Alike(c, d) ==
  /\ d.time = c.time /\ d.timeWindows = c.timeWindows
  /\ d.timeWindowSize = c.timeWindowSize /\ d.nextTimeWindowSize = c.nextTimeWindowSize
  /\ d.iterations = c.iterations /\ d.totalIterations = c.totalIterations
  /\ d.hasConverged = c.hasConverged

\* Where nothing but the actions or the received data is noted, the rest stays.
LEMMA AlikeMembers ==
  ASSUME NEW c \in Schemes, NEW fulfilled, NEW required
  PROVE  /\ Alike(c, c) /\ Alike(c, NotifyDataHasBeenReceived(c)) /\ Alike(c, ClearActions(c))
         /\ Alike(c, [c EXCEPT !.fulfilledActions = fulfilled])
         /\ Alike(c, [c EXCEPT !.fulfilledActions = fulfilled, !.requiredActions = required])
BY DEF Alike, NotifyDataHasBeenReceived, ClearActions, Schemes

\* firstExchange() after addComputedTime() moves the time and counts the window.
LEMMA AdvanceMembers ==
  ASSUME NEW c \in Schemes, NEW dt \in Nat,
         NEW a, a = AddComputedTime(c, dt), NEW d, d = FirstExchange(a)
  PROVE  /\ ReachedEndOfTimeWindow(a) <=>
              (c.timeWindowSize # Undefined =>
                 Time!ReachedEndOfWindow(Time!ProgressBy(c.time, dt), c.timeWindowSize))
         /\ d.time.start = c.time.start /\ d.time.progress = c.time.progress + dt
         /\ d.timeWindows = IF ReachedEndOfTimeWindow(a) THEN c.timeWindows + 1
                            ELSE c.timeWindows
         /\ d.timeWindowSize = c.timeWindowSize /\ d.nextTimeWindowSize = c.nextTimeWindowSize
         /\ d.iterations = c.iterations /\ d.totalIterations = c.totalIterations
         /\ d.hasConverged = c.hasConverged
<1>1. /\ a \in Schemes /\ a.time = Time!ProgressBy(c.time, dt) /\ a.timeWindows = c.timeWindows
      /\ a.timeWindowSize = c.timeWindowSize /\ a.nextTimeWindowSize = c.nextTimeWindowSize
      /\ a.iterations = c.iterations /\ a.totalIterations = c.totalIterations
      /\ a.hasConverged = c.hasConverged
  BY AddComputedTimeMembers DEF AddComputedTime, Schemes
<1>2. a.time.start = c.time.start /\ a.time.progress = c.time.progress + dt
  BY <1>1 DEF Time!ProgressBy, Schemes, Time!TimeHandlers
<1> DEFINE e == ClearActions(a)
           windows == IF ReachedEndOfTimeWindow(a) THEN a.timeWindows + 1 ELSE a.timeWindows
<1>3. Alike(a, e) /\ e \in Schemes
  BY <1>1, AlikeMembers, ClearActionsFields
<1>4. d = [e EXCEPT !.hasDataBeenReceived = FALSE, !.isTimeWindowComplete = FALSE,
                    !.timeWindows = windows]
  BY <1>3 DEF FirstExchange, Alike
<1> HIDE DEF e, windows
<1>5. /\ d.time = a.time /\ d.timeWindows = windows /\ d.timeWindowSize = a.timeWindowSize
      /\ d.nextTimeWindowSize = a.nextTimeWindowSize /\ d.iterations = a.iterations
      /\ d.totalIterations = a.totalIterations /\ d.hasConverged = a.hasConverged
  BY <1>3, <1>4 DEF Schemes, Alike
<1>6. ReachedEndOfTimeWindow(a) <=>
        (a.timeWindowSize # Undefined => Time!ReachedEndOfWindow(a.time, a.timeWindowSize))
  BY DEF ReachedEndOfTimeWindow, HasTimeWindowSize
<1> QED
  BY <1>1, <1>2, <1>5, <1>6 DEF windows

\* secondExchange() goes on to the next round: the next time window once this
\* one is done, from its start again otherwise.
LEMMA SecondExchangeMembers ==
  ASSUME NEW c \in Schemes, NEW d, d = SecondExchange(c)
  PROVE  /\ d.timeWindows = IF Complete(c) THEN c.timeWindows ELSE c.timeWindows - 1
         /\ d.timeWindowSize = c.nextTimeWindowSize
         /\ d.nextTimeWindowSize = c.nextTimeWindowSize
         /\ d.iterations = IF Complete(c) THEN 1 ELSE c.iterations + 1
         /\ d.totalIterations = IF Implicit THEN c.totalIterations + 1 ELSE c.totalIterations
         /\ d.time.progress = 0
         /\ d.time.start = IF Complete(c) THEN Time!TimeOf(c.time) ELSE c.time.start
         /\ d.isTimeWindowComplete <=> Complete(c)
<1> DEFINE
     complete == ~Implicit \/ c.hasConverged
     required == IF ~complete THEN {"ReadCheckpoint"}
                 ELSE IF Implicit /\ IsCouplingOngoing(c) THEN {"WriteCheckpoint"}
                 ELSE {}
     windows == IF complete THEN c.timeWindows ELSE c.timeWindows - 1
     total == IF Implicit THEN c.totalIterations + 1 ELSE c.totalIterations
     iterations == IF complete THEN 1 ELSE c.iterations + 1
     time == IF complete THEN Time!CompleteTimeWindow(c.time, c.timeWindowSize)
             ELSE Time!ResetProgress(c.time)
     e == ClearActions(c)
<1>1. e \in Schemes /\ Alike(c, e)
  BY AlikeMembers, ClearActionsFields
<1>2. d = [e EXCEPT !.requiredActions = required,
                    !.isTimeWindowComplete = complete,
                    !.timeWindows = windows,
                    !.totalIterations = total,
                    !.iterations = iterations,
                    !.time = time,
                    !.timeWindowSize = c.nextTimeWindowSize]
  BY <1>1 DEF SecondExchange, Alike
<1>3. complete <=> Complete(c)
  BY DEF Complete
<1>4. /\ time.progress = 0
      /\ time.start = IF Complete(c) THEN Time!TimeOf(c.time) ELSE c.time.start
  <2>1. c.time \in Time!TimeHandlers
    BY DEF Schemes
  <2> QED
    BY <1>3, <2>1 DEF Time!CompleteTimeWindow, Time!ResetProgress, Time!ResetTo, Time!TimeOf,
                      Time!TimeHandlers
<1>5. /\ windows = IF Complete(c) THEN c.timeWindows ELSE c.timeWindows - 1
      /\ iterations = IF Complete(c) THEN 1 ELSE c.iterations + 1
  BY <1>3
<1>6. total = IF Implicit THEN c.totalIterations + 1 ELSE c.totalIterations
  OBVIOUS
<1> HIDE DEF e, windows, total, iterations, time, complete, required
<1>7. /\ d.timeWindows = windows /\ d.totalIterations = total /\ d.iterations = iterations
      /\ d.time = time /\ d.timeWindowSize = c.nextTimeWindowSize
      /\ d.nextTimeWindowSize = e.nextTimeWindowSize /\ d.isTimeWindowComplete = complete
  BY <1>1, <1>2 DEF Schemes
<1>8. e.nextTimeWindowSize = c.nextTimeWindowSize
  BY <1>1 DEF Alike
<1> QED
  BY <1>3, <1>4, <1>5, <1>6, <1>7, <1>8

--------------------------------------------------------------------------------
(* A participant goes through its rounds *)

\* What the configuration file may say
LEMMA ConfigTypes ==
  ASSUME config \in Configurations
  PROVE  /\ {MaxTime, MaxTimeWindows, TimeWindowSize, MaxIterations} \subseteq
              (Nat \ {0}) \cup {-1}
         /\ MinIterations \in Nat \ {0} /\ Undefined = -1 /\ Implicit \in BOOLEAN
         /\ MaxIterations # Undefined => MinIterations <= MaxIterations
         /\ Implicit => Sends = Participants
         /\ Sends \subseteq Participants /\ Initializes \subseteq Sends
         /\ Requesting \in Participants /\ First # Second
BY ConfigAssumption DEF Admissible, MaxTime, MaxTimeWindows, TimeWindowSize, MaxIterations,
   MinIterations, Undefined, Time!Undefined, Implicit, Sends, Initializes, Requesting

\* Nothing that InRound says depends on the actions of a scheme.
LEMMA InRoundAlike ==
  ASSUME NEW p, NEW place, NEW c, NEW d, NEW e, InRound(p, place, c, e), Alike(c, d)
  PROVE  InRound(p, place, d, e) /\ RoundAt(place, d) = RoundAt(place, c)
BY DEF InRound, Alike, RoundAt, WindowAt

\* isCouplingOngoing() says whether the round is open.
LEMMA OngoingIsOpen ==
  ASSUME config \in Configurations, NEW p, NEW place, place \notin ExchangeSteps, NEW c \in Schemes,
         NEW e \in Entries, Proper(e), InRound(p, place, c, e)
  PROVE  IsCouplingOngoing(c) <=> Open(e)
<1>1. /\ c.timeWindows = e.window /\ c.time.start = e.start
      /\ Time!TimeOf(c.time) = c.time.start + c.time.progress
      /\ c.time.start \in Nat /\ c.time.progress \in Nat /\ e.end \in Nat
  <2>1. c.time \in Time!TimeHandlers /\ e.end \in Nat
    BY DEF Schemes, Entries
  <2>2. WindowAt(place, c) = c.timeWindows
    BY DEF WindowAt
  <2> QED
    BY <2>1, <2>2 DEF InRound, Time!TimeHandlers, Time!TimeOf
<1>2. Time!ReachedEnd(c.time) <=> MaxTime # Undefined /\ MaxTime - Time!TimeOf(c.time) = 0
  BY DEF Time!ReachedEnd, Time!UntilEnd, Undefined
<1>3. /\ MaxTime \in (Nat \ {0}) \cup {-1} /\ Undefined = -1
      /\ MaxTime # Undefined => e.start <= MaxTime /\ e.end <= MaxTime
  BY ConfigTypes DEF Proper
<1>4. CASE Open(e)
  <2>1. MaxTime # Undefined => Time!TimeOf(c.time) < MaxTime
    <3>1. place \in {"solving"} \cup Early \/ c.time.progress = 0
      BY DEF InRound, Places, Leaving, Early, Ends
    <3>2. c.time.progress = 0 \/ Time!TimeOf(c.time) < e.end
      BY <1>4, <3>1 DEF InRound
    <3> QED
      BY <1>1, <1>3, <1>4, <3>2 DEF Open
  <2> QED
    BY <1>1, <1>2, <1>3, <1>4, <2>1 DEF Open, IsCouplingOngoing
<1>5. CASE ~Open(e)
  <2>1. c.time.progress = 0
    BY <1>5 DEF InRound
  <2> QED
    BY <1>1, <1>2, <1>3, <1>5, <2>1 DEF Open, IsCouplingOngoing
<1> QED
  BY <1>4, <1>5

\* A participant that knows the size of its window knows the window's end.
LEMMA EndIsKnown ==
  ASSUME config \in Configurations, NEW p \in Participants,
         NEW place \in ExchangeSteps \cup {"solving"}, NEW c \in Schemes, NEW e \in Entries,
         Proper(e), Open(e), InRound(p, place, c, e), e.start < e.end,
         ~SetsSize(p) \/ place \in ExchangeSteps \ {"sendTimeWindowSize"}
  PROVE  /\ c.timeWindowSize # Undefined /\ c.timeWindowSize \in Nat
         /\ WindowEnd(c.time.start, c.timeWindowSize) = e.end
<1>1. c.time.start = e.start /\ e.start \in Nat /\ e.end \in Nat
      /\ c.timeWindowSize \in Nat \cup {Undefined}
  BY DEF InRound, Entries, Schemes
<1>2. /\ TimeWindowSize \in (Nat \ {0}) \cup {-1} /\ Undefined = -1
      /\ MaxTime \in (Nat \ {0}) \cup {-1}
  BY ConfigTypes
<1>3. CASE TimeWindowSize # Undefined
  BY <1>1, <1>2, <1>3 DEF InRound, Proper
<1>4. CASE TimeWindowSize = Undefined
  <2>1. c.timeWindowSize = Size(e)
    BY <1>4 DEF InRound, SetsSize, Participants
  <2>2. c.timeWindowSize = e.end - e.start /\ (MaxTime # Undefined => e.end <= MaxTime)
    BY <2>1 DEF Size, Proper
  <2> QED
    BY <1>1, <1>2, <2>2 DEF WindowEnd
<1> QED
  BY <1>3, <1>4

\* TimeHandler's arithmetic in terms of the end of the window
LEMMA UntilWindowEnd ==
  ASSUME config \in Configurations, NEW time \in Time!TimeHandlers, NEW size \in Nat
  PROVE  Time!UntilWindowEnd(time, size) = WindowEnd(time.start, size) - Time!TimeOf(time)
BY ConfigTypes
   DEF Time!UntilWindowEnd, Time!UntilEnd, Time!TimeOf, Time!TimeHandlers, WindowEnd, Undefined

\* What advance() makes of the round: the method of the first participant has
\* First set the end of its window.
EndSet(p, e, d) == IF SetsSize(p) THEN [e EXCEPT !.end = Time!TimeOf(d.time)] ELSE e

\* advance() stays in the round, and enters the exchange at the round's end.
LEMMA AdvanceInRound ==
  ASSUME config \in Configurations, NEW p \in Participants, NEW c \in Schemes,
         NEW e \in Entries, Proper(e), InRound(p, "solving", c, e), IsCouplingOngoing(c),
         NEW dt \in Nat \ {0}, dt <= NextTimeStepMaxSize(c),
         NEW a, a = AddComputedTime(c, dt), NEW d, d = FirstExchange(a),
         NEW place \in ExchangeSteps, SetsSize(p) <=> place = "sendTimeWindowSize",
         NEW f, f = EndSet(p, e, d)
  PROVE  /\ f \in Entries /\ Proper(f) /\ f.start < f.end
         /\ InRound(p, IF ReachedEndOfTimeWindow(a) THEN place ELSE "solving", d, f)
         /\ RoundAt(IF ReachedEndOfTimeWindow(a) THEN place ELSE "solving", d)
              = RoundAt("solving", c)
<1>1. /\ ReachedEndOfTimeWindow(a) <=>
           (c.timeWindowSize # Undefined =>
              Time!ReachedEndOfWindow(Time!ProgressBy(c.time, dt), c.timeWindowSize))
      /\ d.time.start = c.time.start /\ d.time.progress = c.time.progress + dt
      /\ d.timeWindows = IF ReachedEndOfTimeWindow(a) THEN c.timeWindows + 1
                         ELSE c.timeWindows
      /\ d.timeWindowSize = c.timeWindowSize /\ d.nextTimeWindowSize = c.nextTimeWindowSize
      /\ d.iterations = c.iterations /\ d.totalIterations = c.totalIterations
  BY AdvanceMembers
<1>2. Open(e)
  BY OngoingIsOpen DEF ExchangeSteps
<1>3. /\ c.time \in Time!TimeHandlers /\ c.time.start \in Nat /\ c.time.progress \in Nat
      /\ c.timeWindows \in Nat /\ c.time.start = e.start
      /\ Time!TimeOf(c.time) = c.time.start + c.time.progress
      /\ Time!TimeOf(d.time) = Time!TimeOf(c.time) + dt
  BY <1>1 DEF Schemes, Time!TimeHandlers, Time!TimeOf, InRound
<1>4. /\ e.window = c.timeWindows /\ e.iteration = c.iterations
      /\ e.start \in Nat /\ e.end \in Nat /\ RoundAt("solving", c) >= 1
  BY DEF InRound, WindowAt, ExchangeSteps, Entries
<1>5. place # "solving" /\ place \notin Early /\ place \notin Leaving
      /\ place \in Places \ {"failed"} /\ "solving" \in Places \ {"failed"}
      /\ "solving" \notin Early /\ "solving" \notin Leaving /\ "solving" \notin ExchangeSteps
  BY DEF ExchangeSteps, Early, Leaving, InitializeSteps, Places, Ends
<1>6. CASE SetsSize(p)
  <2>1. c.timeWindowSize = Undefined /\ c.time.progress = 0 /\ c.nextTimeWindowSize = Undefined
    BY <1>2, <1>5, <1>6 DEF InRound
  <2>2. ReachedEndOfTimeWindow(a) /\ place = "sendTimeWindowSize"
    BY <1>1, <1>6, <2>1
  <2>3. dt <= Time!UntilEnd(c.time)
    BY <2>1 DEF NextTimeStepMaxSize, HasTimeWindowSize
  <2>4. MaxTime # Undefined => Time!TimeOf(d.time) <= MaxTime
    BY <1>3, <2>3, ConfigTypes DEF Time!UntilEnd, Undefined
  <2>5. /\ f = [e EXCEPT !.end = Time!TimeOf(d.time)] /\ TimeWindowSize = Undefined
        /\ Time!TimeOf(d.time) \in Nat
    BY <1>3, <1>6 DEF EndSet, SetsSize
  <2>6. /\ f \in Entries /\ f.end = Time!TimeOf(d.time) /\ f.start = e.start
        /\ f.window = e.window /\ f.iteration = e.iteration
    BY <2>5 DEF Entries
  <2>7. Proper(f) /\ Open(f) /\ f.start < f.end
    BY <1>2, <1>3, <1>4, <2>4, <2>5, <2>6 DEF Proper, Open
  <2>8. RoundAt(place, d) = RoundAt("solving", c) /\ WindowAt(place, d) = c.timeWindows
    BY <1>1, <1>3, <1>5, <2>2 DEF RoundAt, WindowAt
  <2>9. p # Second
    BY <1>6, ConfigTypes DEF SetsSize
  <2>10. InRound(p, place, d, f)
    BY <1>1, <1>3, <1>4, <1>5, <1>6, <2>1, <2>2, <2>5, <2>6, <2>7, <2>8, <2>9 DEF InRound
  <2> QED
    BY <2>2, <2>6, <2>7, <2>8, <2>10
<1>7. CASE ~SetsSize(p)
  <2>1. f = e /\ Time!TimeOf(c.time) < e.end
    BY <1>2, <1>7 DEF EndSet, InRound
  <2>2. e.start < e.end
    BY <1>3, <1>4, <2>1
  <2>3. /\ c.timeWindowSize # Undefined /\ c.timeWindowSize \in Nat
        /\ WindowEnd(c.time.start, c.timeWindowSize) = e.end
    BY <1>2, <1>7, <2>2, EndIsKnown
  <2>4. dt <= Time!UntilWindowEnd(c.time, c.timeWindowSize)
    BY <2>3 DEF NextTimeStepMaxSize, HasTimeWindowSize
  <2>5. Time!TimeOf(d.time) <= e.end
    <3>1. Time!UntilWindowEnd(c.time, c.timeWindowSize) = e.end - Time!TimeOf(c.time)
      BY <1>3, <2>3, UntilWindowEnd
    <3> QED
      BY <1>3, <1>4, <2>4, <3>1
  <2>6. ReachedEndOfTimeWindow(a) <=> Time!TimeOf(d.time) = e.end
    <3>1. /\ Time!ProgressBy(c.time, dt) \in Time!TimeHandlers
          /\ Time!ProgressBy(c.time, dt).start = c.time.start
          /\ Time!TimeOf(Time!ProgressBy(c.time, dt)) = Time!TimeOf(d.time)
      BY <1>3, ProgressByMovesTime
    <3>2. Time!UntilWindowEnd(Time!ProgressBy(c.time, dt), c.timeWindowSize)
            = e.end - Time!TimeOf(d.time)
      BY <2>3, <3>1, UntilWindowEnd
    <3> QED
      BY <1>1, <1>3, <1>4, <2>3, <3>2 DEF Time!ReachedEndOfWindow
  <2>7. /\ TimeWindowSize # Undefined => d.timeWindowSize = TimeWindowSize
        /\ TimeWindowSize = Undefined /\ p = Second => d.timeWindowSize = Size(e)
    BY <1>1, <1>2 DEF InRound
  <2>8. CASE ReachedEndOfTimeWindow(a)
    <3>1. RoundAt(place, d) = RoundAt("solving", c) /\ WindowAt(place, d) = c.timeWindows
      BY <1>1, <1>3, <1>5, <2>8 DEF RoundAt, WindowAt
    <3>2. InRound(p, place, d, f)
      BY <1>1, <1>2, <1>3, <1>4, <1>5, <1>7, <2>1, <2>6, <2>7, <2>8, <3>1 DEF InRound
    <3> QED
      BY <2>1, <2>2, <2>8, <3>1, <3>2
  <2>9. CASE ~ReachedEndOfTimeWindow(a)
    <3>1. RoundAt("solving", d) = RoundAt("solving", c) /\ WindowAt("solving", d) = c.timeWindows
      BY <1>1, <1>5, <2>9 DEF RoundAt, WindowAt
    <3>2. Time!TimeOf(d.time) < e.end
      BY <1>3, <1>4, <2>5, <2>6, <2>9
    <3>3. InRound(p, "solving", d, f)
      BY <1>1, <1>2, <1>3, <1>4, <1>5, <1>7, <2>1, <2>7, <3>1, <3>2 DEF InRound
    <3> QED
      BY <2>1, <2>2, <2>9, <3>1, <3>3
  <2> QED
    BY <2>8, <2>9
<1> QED
  BY <1>6, <1>7

\* A round that is over has a next one, within the limits.
LEMMA NextRound ==
  ASSUME config \in Configurations, NEW e \in Entries, Proper(e), Open(e), e.start < e.end,
         Implicit => Judged(e)
  PROVE  \E f \in Entries : Follows(e, f) /\ Proper(f)
<1> DEFINE start == IF Done(e) THEN e.end ELSE e.start
           f == [window |-> IF Done(e) THEN e.window + 1 ELSE e.window,
                 start |-> start,
                 end |-> IF TimeWindowSize = Undefined THEN start
                         ELSE WindowEnd(start, TimeWindowSize),
                 iteration |-> IF Done(e) THEN 1 ELSE e.iteration + 1,
                 converged |-> FALSE]
<1>1. /\ e.window \in Nat /\ e.start \in Nat /\ e.end \in Nat /\ e.iteration \in Nat
      /\ e.window >= 1 /\ e.iteration >= 1 /\ start \in Nat
      /\ MaxTime # Undefined => start <= MaxTime
  BY DEF Entries, Proper
<1>2. /\ {MaxTime, TimeWindowSize, MaxIterations} \subseteq (Nat \ {0}) \cup {-1}
      /\ Undefined = -1
  BY ConfigTypes
<1>3. /\ TimeWindowSize # Undefined => WindowEnd(start, TimeWindowSize) \in Nat
      /\ TimeWindowSize # Undefined /\ MaxTime # Undefined =>
           WindowEnd(start, TimeWindowSize) <= MaxTime
  BY <1>1, <1>2 DEF WindowEnd
<1>4. MaxIterations # Undefined =>
        (IF Done(e) THEN 1 ELSE e.iteration + 1) <= MaxIterations
  BY <1>1, <1>2 DEF Done, Judged
<1> HIDE DEF start
<1>5. f \in Entries
  BY <1>1, <1>3 DEF Entries
<1>6. Follows(e, f)
  BY DEF Follows, start
<1>7. Proper(f)
  BY <1>1, <1>3, <1>4 DEF Proper
<1> QED
  BY <1>5, <1>6, <1>7

\* The ledger is kept on as rounds are added to it.
LEMMA KeptOn ==
  ASSUME NEW L \in Ledgers, NEW r \in Nat \ {0}, Kept(L, r),
         NEW f \in Entries, Follows(L[r], f), Proper(f),
         NEW M, M = [L EXCEPT ![r + 1] = f]
  PROVE  /\ M \in Ledgers /\ M[r + 1] = f /\ \A k \in Nat : k # r + 1 => M[k] = L[k]
         /\ Kept(M, r + 1)
<1>1. M \in Ledgers /\ M[r + 1] = f /\ \A k \in Nat : k # r + 1 => M[k] = L[k]
  BY DEF Ledgers
<1>2. First1(M[1]) /\ \A k \in 1 .. r + 1 : Proper(M[k])
  BY <1>1 DEF Kept
<1>3. ASSUME NEW k \in 1 .. (r + 1) - 1 PROVE Follows(M[k], M[k + 1])
  <2>1. CASE k = r
    BY <1>1, <2>1
  <2>2. CASE k # r
    BY <1>1, <2>2 DEF Kept
  <2> QED
    BY <2>1, <2>2
<1> QED
  BY <1>1, <1>2, <1>3 DEF Kept

\* A ledger that is kept up to a round is kept up to those before.
LEMMA KeptBefore ==
  ASSUME NEW L, NEW r \in Nat, NEW j \in Nat, j <= r, Kept(L, r)
  PROVE  Kept(L, j)
BY DEF Kept

\* Ledgers that are the same up to a round are kept up to there alike.
LEMMA KeptAlike ==
  ASSUME NEW L, NEW M, NEW r \in Nat \ {0}, Kept(L, r), \A k \in 1 .. r : M[k] = L[k]
  PROVE  Kept(M, r)
BY DEF Kept

\* Rewriting the verdict on the last round, or its end, breaks no rule.
LEMMA KeptUpToLast ==
  ASSUME NEW L \in Ledgers, NEW r \in Nat \ {0}, Kept(L, r), NEW f \in Entries, Proper(f),
         f.window = L[r].window, f.start = L[r].start, f.iteration = L[r].iteration,
         NEW M, M = [L EXCEPT ![r] = f]
  PROVE  /\ M \in Ledgers /\ M[r] = f /\ \A k \in Nat : k # r => M[k] = L[k]
         /\ Kept(M, r)
<1>1. M \in Ledgers /\ M[r] = f /\ \A k \in Nat : k # r => M[k] = L[k]
  BY DEF Ledgers
<1>2. First1(M[1]) /\ \A k \in 1 .. r : Proper(M[k])
  BY <1>1 DEF Kept, First1
<1>3. ASSUME NEW k \in 1 .. r - 1 PROVE Follows(M[k], M[k + 1])
  <2>1. Follows(L[k], L[k + 1]) /\ M[k] = L[k]
    BY <1>1 DEF Kept
  <2>2. CASE k + 1 = r
    BY <1>1, <2>1, <2>2 DEF Follows
  <2>3. CASE k + 1 # r
    BY <1>1, <2>1, <2>3
  <2> QED
    BY <2>2, <2>3
<1> QED
  BY <1>1, <1>2, <1>3 DEF Kept

\* secondExchange() takes a participant to the next round of the ledger.
LEMMA FinishInRound ==
  ASSUME config \in Configurations, NEW p \in Participants,
         NEW place \in ExchangeSteps \ {"sendTimeWindowSize"}, NEW c \in Schemes,
         SizeIsKnown(place, c),
         NEW e \in Entries, NEW f \in Entries, InRound(p, place, c, e), Proper(f), Follows(e, f),
         Complete(c) <=> Done(e),
         TimeWindowSize = Undefined /\ p = Second /\ Open(f) =>
           c.nextTimeWindowSize = Size(f) /\ f.start < f.end,
         NEW d, d = SecondExchange(c)
  PROVE  InRound(p, "solving", d, f) /\ RoundAt("solving", d) = RoundAt(place, c) + 1
<1>1. /\ d.timeWindows = IF Complete(c) THEN c.timeWindows ELSE c.timeWindows - 1
      /\ d.timeWindowSize = c.nextTimeWindowSize /\ d.nextTimeWindowSize = c.nextTimeWindowSize
      /\ d.iterations = IF Complete(c) THEN 1 ELSE c.iterations + 1
      /\ d.totalIterations = IF Implicit THEN c.totalIterations + 1 ELSE c.totalIterations
      /\ d.time.progress = 0
      /\ d.time.start = IF Complete(c) THEN Time!TimeOf(c.time) ELSE c.time.start
  BY SecondExchangeMembers
<1>2. /\ e.window = c.timeWindows - 1 /\ e.start = c.time.start /\ e.iteration = c.iterations
      /\ Time!TimeOf(c.time) = e.end /\ RoundAt(place, c) >= 1
      /\ c.timeWindows \in Nat /\ c.totalIterations \in Nat /\ c.iterations \in Nat
  BY DEF InRound, WindowAt, Schemes
<1>3. /\ "solving" \in Places \ {"failed"} /\ "solving" \notin ExchangeSteps
      /\ "solving" \notin Early /\ "solving" \notin Leaving
  BY DEF ExchangeSteps, Early, Leaving, InitializeSteps, Places, Ends
<1>4. /\ f.window = d.timeWindows /\ f.start = d.time.start /\ f.iteration = d.iterations
      /\ Time!TimeOf(d.time) = f.start
  BY <1>1, <1>2 DEF Follows, Time!TimeOf, Entries
<1>5. RoundAt("solving", d) = RoundAt(place, c) + 1 /\ WindowAt("solving", d) = d.timeWindows
  BY <1>1, <1>2, <1>3 DEF RoundAt, WindowAt, Complete
<1>6. Open(f) /\ TimeWindowSize # Undefined => f.start < f.end
  BY ConfigTypes DEF Proper, Open, WindowEnd, Entries
<1>7. TimeWindowSize # Undefined => d.timeWindowSize = TimeWindowSize
  BY <1>1 DEF SizeIsKnown
<1>8. SetsSize(p) => d.timeWindowSize = Undefined /\ d.nextTimeWindowSize = Undefined
  BY <1>1 DEF InRound
<1>9. Open(f) /\ ~SetsSize(p) => f.start < f.end
  BY <1>6 DEF SetsSize, Participants
<1>10. TimeWindowSize = Undefined /\ p = Second /\ Open(f) => d.timeWindowSize = Size(f)
  BY <1>1
<1>11. RoundAt(place, c) \in Int
  BY <1>2 DEF RoundAt, WindowAt
<1>12. RoundAt("solving", d) >= 1
  BY <1>2, <1>5, <1>11
<1> QED
  BY <1>1, <1>3, <1>4, <1>5, <1>7, <1>8, <1>9, <1>10, <1>12 DEF InRound

--------------------------------------------------------------------------------
(* What a step leaves alone *)

\* The configuration is all that these definitions read of the state.
LEMMA KeptNext ==
  ASSUME config' = config, NEW L, NEW r, NEW p, NEW place, NEW c, NEW e
  PROVE  /\ Kept(L, r)' <=> Kept(L, r)
         /\ InRound(p, place, c, e)' <=> InRound(p, place, c, e)
         /\ RoundAt(place, c)' = RoundAt(place, c)
         /\ Judged(e)' <=> Judged(e)
<1>1. /\ UNCHANGED <<MaxTime, MaxTimeWindows, TimeWindowSize, MinIterations, MaxIterations>>
      /\ UNCHANGED Implicit
  BY DEF MaxTime, MaxTimeWindows, TimeWindowSize, MinIterations, MaxIterations, Implicit
<1>2. \A x : (Open(x)' <=> Open(x)) /\ (Done(x)' <=> Done(x))
  BY <1>1 DEF Open, Done
<1>3. \A x : Proper(x)' <=> Proper(x)
  BY <1>1 DEF Proper, WindowEnd
<1>4. \A x, y : Follows(x, y)' <=> Follows(x, y)
  BY <1>2 DEF Follows
<1>5. Kept(L, r)' <=> Kept(L, r)
  BY <1>3, <1>4 DEF Kept, First1
<1>6. RoundAt(place, c)' = RoundAt(place, c) /\ WindowAt(place, c)' = WindowAt(place, c)
  BY <1>1 DEF RoundAt, WindowAt, ExchangeSteps
<1>7. InRound(p, place, c, e)' <=> InRound(p, place, c, e)
  <2>1. (Open(e)' <=> Open(e)) /\ (SetsSize(p)' <=> SetsSize(p))
    BY <1>1, <1>2 DEF SetsSize
  <2>2. Time!TimeOf(c.time)' = Time!TimeOf(c.time)
    BY DEF Time!TimeOf
  <2> QED
    BY <1>1, <1>6, <2>1, <2>2 DEF InRound
<1>8. Judged(e)' <=> Judged(e)
  BY <1>1 DEF Judged
<1> QED
  BY <1>5, <1>6, <1>7, <1>8

\* The same of the messages and of what ends them
LEMMA CarriesNext ==
  ASSUME config' = config, NEW L, NEW q, NEW s, NEW n, NEW m, NEW bye, NEW k,
         NEW place, NEW other
  PROVE  /\ Carries(L, q, s, n, m, bye)' <=> Carries(L, q, s, n, m, bye)
         /\ Header(q, k)' = Header(q, k) /\ Data(q, k)' = Data(q, k)
         /\ Beginning(q)' = Beginning(q)
         /\ Bye(q, place, other)' = Bye(q, place, other)
         /\ LeavesInOrder(q, place, other)' <=> LeavesInOrder(q, place, other)
<1>1. /\ UNCHANGED <<TimeWindowSize, Implicit, Sends, Initializes, MinIterations, MaxIterations>>
      /\ UNCHANGED <<WaitInFinalize, Requesting>>
  BY DEF TimeWindowSize, Implicit, Sends, Initializes, MinIterations, MaxIterations,
         WaitInFinalize, Requesting
<1>2. (HasHeader(q)' <=> HasHeader(q)) /\ (HasData(q)' <=> HasData(q))
  BY <1>1 DEF HasHeader, HasData
<1>3. \A x : Header(q, x)' = Header(q, x) /\ Data(q, x)' = Data(q, x)
  BY <1>2 DEF Header, Data
<1>4. \A e, x : Tells(q, e, x)' <=> Tells(q, e, x)
  BY <1>1 DEF Tells, Judged, Size
<1>5. \A x, y : Fits(L, q, x, y)' <=> Fits(L, q, x, y)
  BY <1>2, <1>3, <1>4 DEF Fits
<1>6. Carries(L, q, s, n, m, bye)' <=> Carries(L, q, s, n, m, bye)
  BY <1>5 DEF Carries
<1>7. Beginning(q)' = Beginning(q)
  BY <1>1, <1>3 DEF Beginning
<1>8. /\ Bye(q, place, other)' = Bye(q, place, other)
      /\ LeavesInOrder(q, place, other)' <=> LeavesInOrder(q, place, other)
  BY <1>1 DEF Bye, LeavesInOrder
<1> QED
  BY <1>3, <1>6, <1>7, <1>8

--------------------------------------------------------------------------------
(* What sends and receives do to the channels *)

LEMMA Others ==
  ASSUME config \in Configurations, NEW p \in Participants
  PROVE  Other(p) \in Participants /\ Other(p) # p /\ Other(Other(p)) = p
         /\ \A q \in Participants : q = p \/ q = Other(p)
BY ConfigTypes DEF Other, Participants

\* sendData()
LEMMA SendsData ==
  ASSUME TypeOK, NEW p \in Participants, SendStored(p, written[p])
  PROVE  /\ channel'[p] = channel[p] /\ channel' \in [Participants -> Seq(Messages)]
         /\ IF HasData(Other(p))
            THEN \E m \in Messages :
                   m.kind = "data" /\ channel'[Other(p)] = Append(channel[Other(p)], m)
            ELSE channel'[Other(p)] = channel[Other(p)]
<1>1. /\ Other(p) \in Participants /\ Other(p) # p /\ Other(Other(p)) = p
      /\ written[p] \in SUBSET Samples /\ Last(written[p]) \in SUBSET Samples
  BY Others, Types DEF TypeOK, Last
<1>2. CASE p \in Sends
  <2>1. PICK samples \in SUBSET Samples : Send(p, [kind |-> "data", samples |-> samples])
    BY <1>1, <1>2 DEF SendStored
  <2> DEFINE m == [kind |-> "data", samples |-> samples]
  <2>2. m \in Messages /\ m.kind = "data"
    BY DEF Messages
  <2> HIDE DEF m
  <2>3. channel' \in [Participants -> Seq(Messages)]
    BY SendStoredType
  <2> QED
    BY <1>1, <1>2, <2>1, <2>2, <2>3 DEF Send, TypeOK, HasData, m
<1>3. CASE p \notin Sends
  BY <1>1, <1>3 DEF SendStored, TypeOK, HasData
<1> QED
  BY <1>2, <1>3

\* receiveData()
LEMMA ReadsData ==
  ASSUME TypeOK, NEW p \in Participants, CanReceiveData(p), ReceiveDataMessage(p)
  PROVE  /\ channel'[Other(p)] = channel[Other(p)]
         /\ HasData(p) => channel[p] # <<>> /\ Head(channel[p]).kind = "data"
         /\ channel'[p] = IF HasData(p) THEN Tail(channel[p]) ELSE channel[p]
<1>1. Other(p) \in Participants /\ Other(p) # p
  BY Others DEF TypeOK
<1> QED
  BY <1>1 DEF CanReceiveData, ReceiveDataMessage, HasMessage, Receive, HasData, TypeOK

\* The send of another message
LEMMA Sends1 ==
  ASSUME TypeOK, NEW p \in Participants, NEW m \in Messages, Send(p, m)
  PROVE  channel'[p] = channel[p] /\ channel'[Other(p)] = Append(channel[Other(p)], m)
<1>1. Other(p) \in Participants /\ Other(p) # p
  BY Others DEF TypeOK
<1> QED
  BY <1>1 DEF Send, TypeOK

\* The receive of another message
LEMMA Reads1 ==
  ASSUME TypeOK, NEW p \in Participants, Receive(p)
  PROVE  channel'[Other(p)] = channel[Other(p)] /\ channel'[p] = Tail(channel[p])
<1>1. Other(p) \in Participants /\ Other(p) # p
  BY Others DEF TypeOK
<1> QED
  BY <1>1 DEF Receive, TypeOK

--------------------------------------------------------------------------------
(* One participant on the ledger, and then the other *)

\* p with its scheme c at a place is in the last round up to which it needs the
\* ledger to be kept.
Tracks(L, p, place, c) ==
  LET r == RoundAt(place, c)
  IN  r \in Nat \ {0} /\ Kept(L, r) /\ InRound(p, place, c, L[r])

\* Who is in a round has its number.
LEMMA RoundTypes ==
  ASSUME NEW p, NEW place, NEW c \in Schemes, NEW e, InRound(p, place, c, e)
  PROVE  RoundAt(place, c) \in Nat \ {0}
BY DEF InRound, RoundAt, WindowAt, Schemes

\* Ledgers that are the same up to the round of p are the same to p.
LEMMA TracksAlike ==
  ASSUME NEW L, NEW M, NEW p, NEW place, NEW c, Tracks(L, p, place, c),
         \A k \in Nat : k <= RoundAt(place, c) => M[k] = L[k]
  PROVE  Tracks(M, p, place, c)
<1>1. Kept(M, RoundAt(place, c))
  BY KeptAlike DEF Tracks
<1> QED
  BY <1>1 DEF Tracks

\* The start of the coupling
LEMMA FirstIsOpen ==
  ASSUME config \in Configurations, NEW e, First1(e)
  PROVE  Open(e)
BY ConfigTypes DEF First1, Open

\* Within initialize() nothing of the round changes.
LEMMA EarlyInRound ==
  ASSUME NEW p, NEW c \in Schemes, NEW d, Alike(c, d), NEW e \in Entries,
         NEW place \in Early, NEW to \in Early, InRound(p, place, c, e)
  PROVE  InRound(p, to, d, e) /\ RoundAt(to, d) = RoundAt(place, c)
<1>1. /\ to \in Places \ {"failed"} /\ to \notin ExchangeSteps /\ to \notin Leaving
      /\ to # "solving" /\ place \notin ExchangeSteps
  BY DEF Early, InitializeSteps, Places, Ends, ExchangeSteps, Leaving
<1> QED
  BY <1>1 DEF InRound, Alike, RoundAt, WindowAt

\* initialize() ends in the first round, before the end of its window.
LEMMA InitializedInRound ==
  ASSUME config \in Configurations, NEW p \in Participants, NEW c \in Schemes,
         NEW d, Alike(c, [d EXCEPT !.timeWindowSize = c.timeWindowSize]), d \in Schemes,
         NEW e \in Entries, Proper(e), Open(e), NEW place \in Early, InRound(p, place, c, e),
         IF TimeWindowSize # Undefined THEN d.timeWindowSize = TimeWindowSize
         ELSE IF p = First THEN d.timeWindowSize = c.timeWindowSize
         ELSE d.timeWindowSize = Size(e) /\ e.start < e.end
  PROVE  InRound(p, "solving", d, e) /\ RoundAt("solving", d) = RoundAt(place, c)
<1>1. /\ "solving" \in Places \ {"failed"} /\ "solving" \notin ExchangeSteps
      /\ "solving" \notin Leaving /\ "solving" \notin Early /\ place \notin ExchangeSteps
      /\ place # "solving"
  BY DEF Early, InitializeSteps, Places, Ends, ExchangeSteps, Leaving
<1>2. /\ d.time = c.time /\ d.timeWindows = c.timeWindows /\ d.iterations = c.iterations
      /\ d.nextTimeWindowSize = c.nextTimeWindowSize /\ d.totalIterations = c.totalIterations
  BY DEF Alike, Schemes
<1>3. c.time.progress = 0 /\ c.time.start = e.start /\ Time!TimeOf(c.time) = e.start
  <2>1. c.time.progress = 0 /\ c.time.start = e.start /\ c.time \in Time!TimeHandlers
    BY DEF InRound, Schemes
  <2> QED
    BY <2>1 DEF Time!TimeOf, Time!TimeHandlers
<1>4. ~SetsSize(p) => e.start < e.end
  BY ConfigTypes DEF Proper, Open, WindowEnd, Entries, SetsSize
<1>5. RoundAt("solving", d) = RoundAt(place, c) /\ WindowAt("solving", d) = WindowAt(place, c)
  BY <1>1, <1>2 DEF RoundAt, WindowAt
<1>6. SetsSize(p) => d.timeWindowSize = Undefined
  BY <1>1 DEF SetsSize, InRound
<1>7. /\ TimeWindowSize # Undefined => d.timeWindowSize = TimeWindowSize
      /\ TimeWindowSize = Undefined /\ p = Second => d.timeWindowSize = Size(e)
  BY ConfigTypes
<1> QED
  BY <1>1, <1>2, <1>3, <1>4, <1>5, <1>6, <1>7 DEF InRound

\* Inside the exchange nothing of the round changes, once the size is sent.
LEMMA ExchangeInRound ==
  ASSUME NEW p, NEW c, NEW d, NEW e,
         d.time = c.time, d.timeWindows = c.timeWindows,
         d.timeWindowSize = c.timeWindowSize, d.iterations = c.iterations,
         d.totalIterations = c.totalIterations,
         SetsSize(p) => d.nextTimeWindowSize = c.nextTimeWindowSize,
         NEW place \in ExchangeSteps, place # "sendTimeWindowSize",
         NEW to \in ExchangeSteps, to # "sendTimeWindowSize", InRound(p, place, c, e)
  PROVE  InRound(p, to, d, e) /\ RoundAt(to, d) = RoundAt(place, c)
<1>1. /\ to \in Places \ {"failed"} /\ to \notin Leaving /\ to \notin Early /\ to # "solving"
  BY DEF Early, InitializeSteps, Places, Ends, ExchangeSteps, Leaving
<1> QED
  BY <1>1 DEF InRound, RoundAt, WindowAt

\* finalize() leaves the coupling in its last round, which is not open.
LEMMA LeavingInRound ==
  ASSUME NEW p, NEW c, NEW d, Alike(c, d), NEW e, ~Open(e),
         NEW place \in Leaving \cup {"solving"}, NEW to \in Leaving, InRound(p, place, c, e)
  PROVE  InRound(p, to, d, e) /\ RoundAt(to, d) = RoundAt(place, c)
<1>1. /\ to \in Places \ {"failed"} /\ to \notin ExchangeSteps /\ to \notin Early
      /\ to # "solving" /\ place \notin ExchangeSteps
  BY DEF Early, InitializeSteps, Places, Ends, ExchangeSteps, Leaving
<1> QED
  BY <1>1 DEF InRound, Alike, RoundAt, WindowAt

\* No one is in a round after one that is not open, or in its exchange.
LEMMA NobodyIsAhead ==
  ASSUME NEW L, NEW p, NEW place, NEW c, NEW q, NEW there, NEW d,
         Tracks(L, p, place, c), Tracks(L, q, there, d), ~Open(L[RoundAt(place, c)])
  PROVE  /\ RoundAt(there, d) <= RoundAt(place, c)
         /\ there \in ExchangeSteps => RoundAt(there, d) < RoundAt(place, c)
<1> DEFINE r == RoundAt(place, c)
           s == RoundAt(there, d)
<1>1. r \in Nat \ {0} /\ s \in Nat \ {0} /\ Kept(L, s) /\ InRound(q, there, d, L[s])
  BY DEF Tracks
<1>2. s <= r
  BY <1>1 DEF Kept, Follows
<1>3. there \in ExchangeSteps => Open(L[s])
  BY <1>1 DEF InRound
<1> HIDE DEF r, s
<1>4. ~Open(L[r])
  BY DEF r
<1> QED
  BY <1>1, <1>2, <1>3, <1>4 DEF r, s

\* The round after one that is over, and a ledger that has it: the one at hand
\* if the other participant, in round s, is there already.
LEMMA LedgerGoesOn ==
  ASSUME config \in Configurations, NEW L \in Ledgers, NEW r \in Nat \ {0}, Kept(L, r),
         Open(L[r]), L[r].start < L[r].end, Implicit => Judged(L[r]),
         NEW s \in Nat \ {0}, Kept(L, s)
  PROVE  \E M \in Ledgers : /\ Kept(M, r + 1)
                            /\ \A k \in Nat : k <= r \/ k <= s => M[k] = L[k]
<1>1. CASE r + 1 <= s
  BY <1>1, KeptBefore
<1>2. CASE ~(r + 1 <= s)
  <2>1. L[r] \in Entries /\ Proper(L[r])
    BY DEF Ledgers, Kept
  <2>2. PICK f \in Entries : Follows(L[r], f) /\ Proper(f)
    BY <2>1, NextRound
  <2> DEFINE M == [L EXCEPT ![r + 1] = f]
  <2>3. M \in Ledgers /\ Kept(M, r + 1) /\ \A k \in Nat : k # r + 1 => M[k] = L[k]
    BY <2>2, KeptOn
  <2> HIDE DEF M
  <2> QED
    BY <1>2, <2>3
<1> QED
  BY <1>1, <1>2

\* Messages that tell of rounds up to k are the same with any ledger that is
\* the same up to there.
LEMMA CarriesUpTo ==
  ASSUME NEW L, NEW M, NEW q, NEW s \in Seq(Messages), NEW n, NEW m, NEW bye,
         Carries(L, q, s, n, m, bye), NEW k \in Nat, m <= Header(q, k + 1),
         \A j \in Nat : j <= k => M[j] = L[j]
  PROVE  Carries(M, q, s, n, m, bye)
<1>1. m \in Nat /\ n \in Nat
  BY DEF Carries
<1>2. ASSUME HasHeader(q), NEW j \in Nat \ {0}, n <= Header(q, j), Header(q, j) < m
      PROVE  M[j] = L[j]
  <2>1. j \in Nat /\ j >= 1 /\ k + 1 \in Nat /\ k + 1 >= 1
    OBVIOUS
  <2>2. Header(q, j) \in Nat /\ Header(q, k + 1) \in Nat
    BY <2>1, Positions
  <2>3. ~(k + 1 < j) /\ j # k + 1
    BY <1>1, <1>2, <2>1, <2>2, PositionsInOrder
  <2> QED
    BY <2>3
<1> QED
  BY <1>2, CarriesAlike

--------------------------------------------------------------------------------
(* Goodbyes *)

\* Who is not yet leaving, and does not leave, owes the other no goodbye and
\* makes no difference to the other's.
LEMMA StaysOn ==
  ASSUME config \in Configurations, NEW p \in Participants,
         NEW place, place \notin Leaving, NEW to, to \notin Leaving, NEW there,
         LeavesInOrder(p, place, there), LeavesInOrder(Other(p), there, place)
  PROVE  /\ LeavesInOrder(p, to, there) /\ LeavesInOrder(Other(p), there, to)
         /\ Bye(p, to, there) = Bye(p, place, there)
         /\ Bye(Other(p), there, place) = "nothing" /\ Bye(Other(p), there, to) = "nothing"
<1>1. Other(p) \in Participants /\ Other(p) # p /\ \A q \in Participants : q = p \/ q = Other(p)
  BY Others
<1>2. Requesting \in Participants
  BY ConfigTypes
<1> QED
  BY <1>1, <1>2 DEF LeavesInOrder, Bye, Leaving

\* The goodbye comes after all other messages.
LEMMA GoodbyeIsSent ==
  ASSUME NEW L, NEW q, NEW s \in Seq(Messages), NEW n, NEW m,
         Carries(L, q, s, n, m, "nothing"), NEW x \in Messages, NEW bye \in {"ping", "pong"},
         x.kind = bye
  PROVE  Carries(L, q, Append(s, x), n, m, bye)
<1> DEFINE t == Append(s, x)
<1>1. n \in Nat /\ m \in Nat /\ n <= m /\ Len(s) = m - n
  BY DEF Carries
<1>2. Len(t) = Len(s) + 1 /\ t[Len(s) + 1] = x /\ \A i \in 1 .. Len(s) : t[i] = s[i]
  OBVIOUS
<1>3. ASSUME NEW i \in 1 .. Len(t)
      PROVE  IF n + i - 1 = m THEN t[i].kind = bye ELSE Fits(L, q, n + i - 1, t[i])
  <2>1. CASE i = Len(s) + 1
    BY <1>1, <1>2, <2>1
  <2>2. CASE i # Len(s) + 1
    <3>1. i \in 1 .. Len(s) /\ t[i] = s[i] /\ n + i - 1 # m
      BY <1>1, <1>2, <2>2
    <3> QED
      BY <3>1 DEF Carries
  <2> QED
    BY <2>1, <2>2
<1> HIDE DEF t
<1>4. Len(t) = m - n + 1
  BY <1>1, <1>2
<1>5. Carries(L, q, t, n, m, bye)
  BY <1>1, <1>3, <1>4 DEF Carries
<1> QED
  BY <1>5 DEF t

\* Once all else is read, the first message is the goodbye, and the last.
LEMMA GoodbyeIsRead ==
  ASSUME NEW L, NEW q, NEW s \in Seq(Messages), NEW n, NEW bye, Carries(L, q, s, n, n, bye)
  PROVE  /\ s # <<>> => Head(s).kind = bye /\ bye # "nothing" /\ Carries(L, q, Tail(s), n, n, "nothing")
         /\ bye = "nothing" => s = <<>>
<1>1. n \in Nat /\ Len(s) = (IF bye = "nothing" THEN 0 ELSE 1)
  BY DEF Carries
<1>2. bye = "nothing" => s = <<>>
  BY <1>1
<1>3. ASSUME s # <<>>
      PROVE  Head(s).kind = bye /\ bye # "nothing" /\ Carries(L, q, Tail(s), n, n, "nothing")
  <2>1. Len(s) # 0 /\ Head(s) = s[1] /\ Len(Tail(s)) = Len(s) - 1
    BY <1>3
  <2>2. bye # "nothing" /\ Len(s) = 1
    BY <1>1, <2>1
  <2>3. Tail(s) \in Seq(Messages) /\ Len(Tail(s)) = 0
    BY <1>3, <2>1, <2>2
  <2>4. Tail(s) = <<>>
    <3>1. ASSUME NEW t \in Seq(Messages), Len(t) = 0 PROVE t = <<>>
      BY <3>1
    <3> QED
      BY <2>3, <3>1
  <2>5. n + 1 - 1 = n
    BY <1>1
  <2>6. Head(s).kind = bye
    BY <2>1, <2>2, <2>5 DEF Carries
  <2> QED
    BY <1>1, <2>2, <2>4, <2>6 DEF Carries
<1> QED
  BY <1>2, <1>3

\* Who has read or sent more is in a later round.
LEMMA EarlierRound ==
  ASSUME NEW q, HasData(q) \/ HasHeader(q), NEW j \in Nat, NEW k \in Nat,
         Header(q, j) <= Header(q, k)
  PROVE  j <= k
BY DEF Header

\* doImplicitStep() sets the verdict and nothing else.
LEMMA DoImplicitStepMembers ==
  ASSUME NEW c \in Schemes, NEW converged, NEW d, d = DoImplicitStep(c, converged)
  PROVE  /\ d \in Schemes
         /\ d.hasConverged <=> \/ MeasureConvergence(c, converged)
                               \/ c.iterations = MaxIterations
         /\ d.time = c.time /\ d.timeWindows = c.timeWindows
         /\ d.timeWindowSize = c.timeWindowSize /\ d.nextTimeWindowSize = c.nextTimeWindowSize
         /\ d.iterations = c.iterations /\ d.totalIterations = c.totalIterations
<1> DEFINE verdict == MeasureConvergence(c, converged) \/ c.iterations = MaxIterations
<1>1. verdict \in BOOLEAN /\ d = [c EXCEPT !.hasConverged = verdict]
  BY DEF DoImplicitStep, MeasureConvergence
<1> HIDE DEF verdict
<1>2. d \in Schemes /\ d.hasConverged = verdict
  BY <1>1 DEF Schemes
<1> QED
  BY <1>1, <1>2 DEF Schemes, verdict

\* The verdict keeps to the limits of the iterations.
LEMMA VerdictIsJudged ==
  ASSUME config \in Configurations, NEW c \in Schemes, NEW converged, NEW e \in Entries,
         Proper(e), e.iteration = c.iterations,
         NEW f, f = [e EXCEPT !.converged = DoImplicitStep(c, converged).hasConverged]
  PROVE  /\ f \in Entries /\ Proper(f) /\ Judged(f)
         /\ f.converged = DoImplicitStep(c, converged).hasConverged
         /\ f.window = e.window /\ f.start = e.start /\ f.end = e.end
         /\ f.iteration = e.iteration
<1> DEFINE d == DoImplicitStep(c, converged)
<1>1. /\ d.hasConverged \in BOOLEAN
      /\ d.hasConverged <=> MeasureConvergence(c, converged) \/ c.iterations = MaxIterations
  <2>1. /\ d \in Schemes
        /\ d.hasConverged <=> MeasureConvergence(c, converged) \/ c.iterations = MaxIterations
    BY DoImplicitStepMembers
  <2> QED
    BY <2>1 DEF Schemes
<1> HIDE DEF d
<1>2. /\ f \in Entries /\ f.converged = d.hasConverged
      /\ f.window = e.window /\ f.start = e.start /\ f.end = e.end /\ f.iteration = e.iteration
  BY <1>1 DEF Entries, d
<1>3. Proper(f)
  BY <1>2 DEF Proper
<1>4. Judged(f)
  <2>1. /\ MaxIterations \in (Nat \ {0}) \cup {-1} /\ Undefined = -1 /\ MinIterations \in Nat
        /\ MaxIterations # Undefined => MinIterations <= MaxIterations
    BY ConfigTypes
  <2>2. e.iteration \in Nat /\ (MaxIterations # Undefined => e.iteration <= MaxIterations)
    BY DEF Entries, Proper
  <2>3. MeasureConvergence(c, converged) => c.iterations >= MinIterations
    BY DEF MeasureConvergence
  <2>4. d.hasConverged => f.iteration >= MinIterations
    BY <1>1, <1>2, <2>1, <2>2, <2>3
  <2>5. ~d.hasConverged /\ MaxIterations # Undefined => f.iteration < MaxIterations
    BY <1>1, <1>2, <2>1, <2>2
  <2> QED
    BY <1>2, <2>4, <2>5 DEF Judged
<1> QED
  BY <1>2, <1>3, <1>4 DEF d

--------------------------------------------------------------------------------
(* The start *)

\* There is a ledger of the first round, and whoever is constructed is in it.
LEMMA FirstRound ==
  ASSUME config \in Configurations
  PROVE  \E L \in Ledgers :
           Kept(L, 1) /\ \A p \in Participants : Tracks(L, p, "constructed", Constructed(p))
<1> DEFINE e == [window |-> 1, start |-> 0,
                 end |-> IF TimeWindowSize = Undefined THEN 0 ELSE WindowEnd(0, TimeWindowSize),
                 iteration |-> 1, converged |-> FALSE]
           L == [k \in Nat |-> e]
<1>1. e \in Entries /\ Proper(e) /\ First1(e)
  BY ConfigTypes DEF Entries, Proper, First1, WindowEnd
<1>2. L \in Ledgers /\ L[1] = e
  BY <1>1 DEF Ledgers
<1> HIDE DEF e, L
<1>3. Kept(L, 1)
  BY <1>1, <1>2 DEF Kept
<1>4. ASSUME NEW p \in Participants
      PROVE  Tracks(L, p, "constructed", Constructed(p))
  <2> DEFINE c == Constructed(p)
             place == "constructed"
  <2>1. /\ c.time.start = 0 /\ c.time.progress = 0 /\ c.timeWindows = 1
        /\ c.timeWindowSize = TimeWindowSize /\ c.nextTimeWindowSize = TimeWindowSize
        /\ c.iterations = 1 /\ c.totalIterations = 1
    BY DEF Constructed, Time!ResetTo
  <2>2. /\ place \in Places \ {"failed"} /\ place \in Early /\ place \notin ExchangeSteps
        /\ place \notin Leaving /\ place # "solving"
    BY DEF Places, Early, InitializeSteps, ExchangeSteps, Leaving, Ends
  <2> HIDE DEF c, place
  <2>3. RoundAt(place, c) = 1 /\ WindowAt(place, c) = 1
    BY <2>1, <2>2 DEF RoundAt, WindowAt
  <2>4. InRound(p, place, c, e)
    BY <1>1, <2>1, <2>2, <2>3 DEF InRound, First1, SetsSize
  <2> QED
    BY <1>2, <1>3, <2>3, <2>4 DEF Tracks, c, place
<1> QED
  BY <1>2, <1>3, <1>4

--------------------------------------------------------------------------------
(* What is next in a channel *)

\* As long as not all is read, what comes next is no goodbye.
LEMMA NextMessage ==
  ASSUME NEW L, NEW q, NEW s \in Seq(Messages), s # <<>>, NEW n, NEW m, NEW bye,
         Carries(L, q, s, n, m, bye), n < m
  PROVE  Fits(L, q, n, Head(s))
<1>1. /\ n \in Nat /\ m \in Nat
      /\ \A i \in 1 .. Len(s) :
           IF n + i - 1 = m THEN s[i].kind = bye ELSE Fits(L, q, n + i - 1, s[i])
  BY Zenon DEF Carries
<1>2. 1 \in 1 .. Len(s) /\ Head(s) = s[1]
  OBVIOUS
<1>3. n + 1 - 1 = n /\ n # m
  BY <1>1
<1>4. Fits(L, q, n + 1 - 1, s[1])
  BY <1>1, <1>2, <1>3, Zenon
<1> QED
  BY <1>2, <1>3, <1>4, Zenon

\* Whoever has left is past all rounds that another is in.
LEMMA LeftLast ==
  ASSUME config \in Configurations,
         NEW L \in Ledgers, NEW p, NEW place, NEW c, NEW q, NEW there, NEW d,
         Tracks(L, p, place, c), Tracks(L, q, there, d), place \in Leaving,
         there \in ExchangeSteps \cup Early
  PROVE  RoundAt(there, d) < RoundAt(place, c)
<1> DEFINE r == RoundAt(place, c)
           s == RoundAt(there, d)
<1>1. ~Open(L[r]) /\ r \in Nat \ {0} /\ s \in Nat \ {0} /\ First1(L[1])
  BY DEF Tracks, InRound, Kept
<1>2. s <= r /\ (there \in ExchangeSteps => s < r)
  BY <1>1, NobodyIsAhead DEF r, s
<1>3. there \in Early => s = 1
  BY DEF Tracks, InRound
<1>4. Open(L[1])
  BY <1>1, FirstIsOpen
<1>5. r # 1
  BY <1>1, <1>4
<1> QED
  BY <1>1, <1>2, <1>3, <1>5

--------------------------------------------------------------------------------
(* The position of a participant that Lockstep shows *)

\* Position(p), of the scheme of p
PositionOf(c) ==
  LET early == IF c.time.progress > 0 /\ ReachedEndOfTimeWindow(c) THEN 1 ELSE 0
      window == c.timeWindows - early
  IN  [round |-> IF Implicit THEN c.totalIterations ELSE window, window |-> window]

\* The position is read off the scheme alone, and it says the round.
LEMMA PositionInRound ==
  ASSUME config \in Configurations, NEW p \in Participants, NEW place, NEW c \in Schemes,
         NEW e \in Entries, Proper(e), InRound(p, place, c, e)
  PROVE  PositionOf(c) = [round |-> RoundAt(place, c), window |-> WindowAt(place, c)]
<1>1. /\ c.time \in Time!TimeHandlers /\ c.timeWindows \in Nat /\ e.end \in Nat
      /\ e.start \in Nat /\ c.time.start = e.start
  BY DEF Schemes, Entries, InRound
<1>2. Time!TimeOf(c.time) = e.start + c.time.progress /\ c.time.progress \in Nat
  BY <1>1 DEF Time!TimeOf, Time!TimeHandlers
<1>3. (c.time.progress > 0 /\ ReachedEndOfTimeWindow(c)) <=> place \in ExchangeSteps
  <2>1. CASE place \in ExchangeSteps
    <3>1. Open(e) /\ Time!TimeOf(c.time) = e.end /\ c.time.progress > 0
      BY <2>1 DEF InRound
    <3>2. e.start < e.end
      BY <1>1, <1>2, <3>1
    <3>3. ReachedEndOfTimeWindow(c)
      <4>1. CASE SetsSize(p) /\ place = "sendTimeWindowSize"
        <5>1. c.timeWindowSize = Undefined
          BY <4>1 DEF InRound
        <5> QED
          BY <5>1 DEF ReachedEndOfTimeWindow, HasTimeWindowSize
      <4>2. CASE ~(SetsSize(p) /\ place = "sendTimeWindowSize")
        <5>1. /\ c.timeWindowSize \in Nat
              /\ WindowEnd(c.time.start, c.timeWindowSize) = e.end
          BY <2>1, <3>1, <3>2, <4>2, EndIsKnown
        <5>2. Time!UntilWindowEnd(c.time, c.timeWindowSize) = e.end - e.end
          BY <1>1, <3>1, <5>1, UntilWindowEnd
        <5> QED
          BY <1>1, <5>2 DEF ReachedEndOfTimeWindow, Time!ReachedEndOfWindow
      <4> QED
        BY <4>1, <4>2
    <3> QED
      BY <2>1, <3>1, <3>3
  <2>2. CASE place \notin ExchangeSteps
    <3>1. CASE place = "solving" /\ Open(e) /\ ~SetsSize(p) /\ c.time.progress > 0
      <4>1. Time!TimeOf(c.time) < e.end
        BY <3>1 DEF InRound
      <4>2. e.start < e.end
        BY <1>1, <1>2, <4>1
      <4>3. /\ c.timeWindowSize # Undefined /\ c.timeWindowSize \in Nat
            /\ WindowEnd(c.time.start, c.timeWindowSize) = e.end
        BY <3>1, <4>2, EndIsKnown
      <4>4. Time!UntilWindowEnd(c.time, c.timeWindowSize) = e.end - Time!TimeOf(c.time)
        BY <1>1, <4>3, UntilWindowEnd
      <4>5. e.end - Time!TimeOf(c.time) # 0
        BY <1>1, <1>2, <4>1
      <4> QED
        BY <2>2, <4>3, <4>4, <4>5
           DEF ReachedEndOfTimeWindow, HasTimeWindowSize, Time!ReachedEndOfWindow
    <3>2. CASE ~(place = "solving" /\ Open(e) /\ ~SetsSize(p) /\ c.time.progress > 0)
      <4>1. place \in {"solving"} \cup Early \cup Leaving
        BY <2>2 DEF InRound, Places, Early, Leaving, Ends
      <4>2. c.time.progress = 0
        BY <1>2, <3>2, <4>1 DEF InRound
      <4> QED
        BY <2>2, <4>2
    <3> QED
      BY <3>1, <3>2
  <2> QED
    BY <2>1, <2>2
<1> DEFINE early == IF c.time.progress > 0 /\ ReachedEndOfTimeWindow(c) THEN 1 ELSE 0
<1>4. early = IF place \in ExchangeSteps THEN 1 ELSE 0
  BY <1>3
<1> HIDE DEF early
<1>5. c.timeWindows - early = WindowAt(place, c)
  BY <1>1, <1>4 DEF WindowAt
<1>6. PositionOf(c) = [round |-> IF Implicit THEN c.totalIterations ELSE c.timeWindows - early,
                       window |-> c.timeWindows - early]
  BY DEF PositionOf, early
<1> QED
  BY <1>5, <1>6 DEF RoundAt

\* secondExchange() goes on by a round, and by a window if it is done.
LEMMA FinishPosition ==
  ASSUME config \in Configurations, NEW p, NEW place \in ExchangeSteps, NEW c \in Schemes,
         NEW e \in Entries, InRound(p, place, c, e), Complete(c) <=> Done(e),
         NEW d, d = SecondExchange(c)
  PROVE  /\ RoundAt("solving", d) = RoundAt(place, c) + 1
         /\ WindowAt("solving", d) = e.window + (IF Done(e) THEN 1 ELSE 0)
<1>1. /\ d.timeWindows = IF Complete(c) THEN c.timeWindows ELSE c.timeWindows - 1
      /\ d.totalIterations = IF Implicit THEN c.totalIterations + 1 ELSE c.totalIterations
  BY SecondExchangeMembers
<1>2. /\ e.window = c.timeWindows - 1 /\ c.timeWindows \in Nat /\ c.totalIterations \in Nat
      /\ e.window \in Nat
  BY DEF InRound, WindowAt, Schemes, Entries
<1>3. "solving" \notin ExchangeSteps
  BY DEF ExchangeSteps
<1>4. ~Implicit => Complete(c)
  BY DEF Complete
<1> QED
  BY <1>1, <1>2, <1>3, <1>4 DEF RoundAt, WindowAt

\* The one that goes on leads if the other is in its round, or if it gets no
\* data, and follows if the other is in a later one.
LEMMA MovesInLockstep ==
  ASSUME config \in Configurations, config' = config, NEW L \in Ledgers,
         NEW p \in Participants, NEW q, q = Other(p),
         NEW r \in Nat \ {0}, Kept(L, r), NEW s \in Nat \ {0}, Kept(L, s),
         Position(p) = [round |-> r, window |-> L[r].window],
         Position(q) = [round |-> s, window |-> L[s].window],
         NEW step, step = IF Done(L[r]) THEN 1 ELSE 0,
         Position(p)' = [round |-> r + 1, window |-> L[r].window + step],
         Position(q)' = Position(q), HasData(p) => r <= s
  PROVE  Promise!Next
<1> DEFINE position == [x \in Participants |-> Position(x)]
           free == {x \in Participants : Other(x) \notin Sends}
<1>1. /\ q \in Participants /\ q # p /\ \A x \in Participants : x = p \/ x = q
      /\ UNCHANGED free
  BY Others DEF Sends, Other
<1>2. position[p] = Position(p) /\ position[q] = Position(q)
  BY <1>1
<1>3. step \in {0, 1} /\ L[r].window \in Nat
  BY DEF Ledgers, Entries
<1>4. [x \in Participants |-> Position(x)'] =
        [position EXCEPT ![p] = [round |-> position[p].round + 1,
                                 window |-> position[p].window + step]]
  <2>1. \A x \in Participants : x # p => Position(x)' = Position(x)
    BY <1>1
  <2> QED
    BY <1>2, <2>1
<1>5. position' = [x \in Participants |-> Position(x)']
  BY DEF Participants
<1>6. Promise!Step(p, step)
  BY <1>4, <1>5 DEF Promise!Step
<1>7. CASE ~HasData(p) \/ s = r
  <2>1. p \in free \/ \A x \in Participants : position[x] = position[p]
    BY <1>1, <1>2, <1>7 DEF HasData
  <2>2. Promise!Lead(p)
    BY <1>3, <1>6, <2>1 DEF Promise!Lead
  <2> QED
    BY <1>1, <2>2 DEF Promise!Next
<1>8. CASE r < s
  <2>1. position[q].round > position[p].round
    BY <1>2, <1>8
  <2>2. position[q].round = position[p].round + 1 => Position(p)' = position[q]
    <3>1. ASSUME s = r + 1 PROVE L[s].window = L[r].window + step
      <4>1. Follows(L[r], L[s])
        BY <1>8, <3>1 DEF Kept
      <4> QED
        BY <1>3, <4>1 DEF Follows
    <3> QED
      BY <1>2, <3>1
  <2>3. position'[p] = Position(p)'
    BY <1>5
  <2>4. Promise!Follow(p)
    BY <1>1, <1>3, <1>6, <2>1, <2>2, <2>3 DEF Promise!Follow
  <2> QED
    BY <1>1, <2>4 DEF Promise!Next
<1> QED
  BY <1>7, <1>8

\* The position after a step, of the scheme after it
LEMMA PositionNext ==
  ASSUME config' = config, NEW p
  PROVE  Position(p) = PositionOf(scheme[p]) /\ Position(p)' = PositionOf(scheme'[p])
<1>1. UNCHANGED <<Implicit, MaxTime>>
  BY DEF Implicit, MaxTime
<1>2. \A c : ReachedEndOfTimeWindow(c)' <=> ReachedEndOfTimeWindow(c)
  BY <1>1 DEF ReachedEndOfTimeWindow, HasTimeWindowSize, Undefined, Time!Undefined,
     Time!ReachedEndOfWindow, Time!UntilWindowEnd, Time!UntilEnd, Time!TimeOf
<1>3. Position(p)' = PositionOf(scheme'[p])
  BY <1>1, <1>2 DEF Position, PositionOf
<1> QED
  BY <1>3 DEF Position, PositionOf

\* Everybody starts in the first round and the first window.
LEMMA InitInLockstep ==
  ASSUME Init
  PROVE  Promise!Init
<1>1. config \in Configurations
  BY DEF Init
<1>2. ASSUME NEW p \in Participants
      PROVE  Position(p) = [round |-> 1, window |-> 1]
  <2>1. scheme[p] = Constructed(p)
    BY DEF Init
  <2>2. /\ scheme[p].time.progress = 0 /\ scheme[p].timeWindows = 1
        /\ scheme[p].totalIterations = 1
    BY <2>1 DEF Constructed, Time!ResetTo
  <2> QED
    BY <2>2 DEF Position
<1> QED
  BY <1>2 DEF Promise!Init, Participants

\* Who leaves the schemes alone leaves the positions.
LEMMA SchemesStay ==
  ASSUME config' = config, scheme' = scheme
  PROVE  UNCHANGED <<[p \in Participants |-> Position(p)],
                     {p \in Participants : Other(p) \notin Sends}>>
<1>1. \A p \in Participants : Position(p)' = Position(p)
  BY PositionNext
<1>2. [p \in Participants |-> Position(p)]' = [p \in Participants |-> Position(p)']
  BY DEF Participants
<1> QED
  BY <1>1, <1>2 DEF Sends, Participants, Other

\* The same if both positions are
LEMMA PositionsStay ==
  ASSUME config' = config, \A p \in Participants : Position(p)' = Position(p)
  PROVE  UNCHANGED <<[p \in Participants |-> Position(p)],
                     {p \in Participants : Other(p) \notin Sends}>>
<1>1. [p \in Participants |-> Position(p)]' = [p \in Participants |-> Position(p)']
  BY DEF Participants
<1> QED
  BY <1>1 DEF Sends, Participants, Other
================================================================================
