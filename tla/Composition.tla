------------------------------ MODULE Composition ------------------------------
(***************************************************************************)
(* Networks of coupled participants.  A participant with several coupling  *)
(* schemes runs them by a CompositionalCouplingScheme: explicit ones and   *)
(* at most one implicit one, which may be a MultiCouplingScheme among many *)
(* participants.  While the implicit scheme iterates the explicit ones are *)
(* on hold, and they catch up once it has converged.                       *)
(*                                                                         *)
(* The schemes are those of SerialCoupling and ParallelCoupling without    *)
(* their data: a message says only which scheme it belongs to, what it is, *)
(* and which time its samples are of.  An exchange is the list of blocking *)
(* sends and receives it consists of, and a participant works it off.      *)
(***************************************************************************)
EXTENDS Integers, Sequences, SequencesExt

CONSTANTS
  Configurations,  \* what the configuration files of the participants say
  StepBound        \* bound on a solver's time step

VARIABLES
  config,   \* the configuration
  pc,       \* where each participant is
  todo,     \* the sends and receives left of the exchange it is in
  scheme,   \* its coupling schemes
  onHold,   \* _explicitOnHold of its CompositionalCouplingScheme
  channel   \* the messages under way from one participant to another

vars == <<config, pc, todo, scheme, onHold, channel>>

Time == INSTANCE TimeHandler WITH MaxTime <- config.maxTime, Infinity <- StepBound
Undefined == Time!Undefined

--------------------------------------------------------------------------------
(* The configuration *)

\* The participants in the order of their names, which is that of the maps of
\* a MultiCouplingScheme
Participants == ToSet(config.names)
Indices == 1 .. Len(config.schemes)
Conf(s) == config.schemes[s]

\* The participant that does not do the first step: Second, or the controller
Second(s) == Conf(s).second
Members(s) == Conf(s).firsts \cup {Second(s)}
Implicit(s) == Conf(s).implicit
Serial(s) == Conf(s).serial

\* An implicit scheme limits its iterations, a serial one couples two
\* participants, and nobody has two implicit schemes.
Admissible(c) ==
  /\ \A i \in 1 .. Len(c.schemes) :
       LET d == c.schemes[i]
           members == d.firsts \cup {d.second}
       IN  /\ d.serial \in BOOLEAN /\ d.implicit \in BOOLEAN
           /\ d.firsts # {} /\ d.second \notin d.firsts /\ members \subseteq ToSet(c.names)
           /\ d.serial \/ ~d.implicit => \E p \in d.firsts : d.firsts = {p}
           /\ {d.size, d.maxIterations} \subseteq Nat \ {0}
           /\ d.maxTimeWindows \in Nat \cup {-1}
           /\ d.sends \subseteq members \X members /\ \A p \in members : <<p, p>> \notin d.sends
           /\ d.initializes \subseteq d.sends
           /\ \A j \in 1 .. Len(c.schemes) :
                LET e == c.schemes[j]
                IN  i # j /\ d.implicit /\ e.implicit =>
                      members \cap (e.firsts \cup {e.second}) = {}

ASSUME CompositionAssumption ==
  /\ \A c \in Configurations : Admissible(c)
  /\ StepBound \in Nat \ {0}

\* The schemes of p in the order in which the configuration adds them
ExplicitSchemes(p) ==
  SelectSeq([i \in Indices |-> i], LAMBDA s : p \in Members(s) /\ ~Implicit(s))
ImplicitScheme(p) ==
  SelectSeq([i \in Indices |-> i], LAMBDA s : p \in Members(s) /\ Implicit(s))
AllSchemes(p) == ExplicitSchemes(p) \o ImplicitScheme(p)

HasImplicit(p) == ImplicitScheme(p) # <<>>
Composed(p) == HasImplicit(p) /\ ExplicitSchemes(p) # <<>>

\* _activeSchemes
ActiveSchemes(p) == IF onHold[p] THEN ImplicitScheme(p) ELSE AllSchemes(p)

--------------------------------------------------------------------------------
(* A coupling scheme s with state c *)

Constructed == [time |-> Time!ResetTo(0), timeWindows |-> 1, iterations |-> 1,
                hasConverged |-> FALSE]

ReachedEndOfTimeWindow(c, s) == Time!ReachedEndOfWindow(c.time, Conf(s).size)

IsOngoing(c, s) ==
  /\ Conf(s).maxTimeWindows = Undefined \/ Conf(s).maxTimeWindows >= c.timeWindows
  /\ ~Time!ReachedEnd(c.time)

MaxStep(c, s) == IF IsOngoing(c, s) THEN Time!UntilWindowEnd(c.time, Conf(s).size) ELSE 0

AddComputedTime(c, dt) == [c EXCEPT !.time = Time!ProgressBy(@, dt)]

FirstExchange(c, s) ==
  IF ReachedEndOfTimeWindow(c, s) THEN [c EXCEPT !.timeWindows = @ + 1] ELSE c

SecondExchangeKeeps(c, s) ==   \* fault: an iteration to repeat counts as a window
  LET complete == ~Implicit(s) \/ c.hasConverged
  IN  IF ~ReachedEndOfTimeWindow(c, s) THEN c
      ELSE [c EXCEPT !.iterations = IF complete THEN 1 ELSE @ + 1,
                     !.time = IF complete THEN Time!CompleteTimeWindow(@, Conf(s).size)
                              ELSE Time!ResetProgress(@)]

SecondExchange(c, s) ==
  LET complete == ~Implicit(s) \/ c.hasConverged
  IN  IF ~ReachedEndOfTimeWindow(c, s) THEN c
      ELSE [c EXCEPT !.timeWindows = IF complete THEN @ ELSE @ - 1,
                     !.iterations = IF complete THEN 1 ELSE @ + 1,
                     !.time = IF complete THEN Time!CompleteTimeWindow(@, Conf(s).size)
                              ELSE Time!ResetProgress(@)]

\* The schemes with state c, f applied to those of a sequence
Applied(f(_, _), seq, c) ==
  [s \in DOMAIN c |-> IF s \in ToSet(seq) THEN f(c[s], s) ELSE c[s]]

--------------------------------------------------------------------------------
(* The exchanges of scheme s at p, as the sends and receives they consist of *)

SendTo(s, q, kind, at) == [do |-> "send", scheme |-> s, with |-> q, kind |-> kind, at |-> at]
ReceiveFrom(s, q, kind, at) ==
  [do |-> "receive", scheme |-> s, with |-> q, kind |-> kind, at |-> at]
DoImplicitStep(s) == [do |-> "judge", scheme |-> s]

\* The participants of a set in the order of their names
Ordered(S) == SelectSeq(config.names, LAMBDA q : q \in S)

SendData(p, s, pairs, at) ==
  LET to == Ordered({q \in Participants : <<p, q>> \in pairs})
  IN  [i \in DOMAIN to |-> SendTo(s, to[i], "data", at)]

ReceiveData(p, s, pairs, at) ==
  LET from == Ordered({q \in Participants : <<q, p>> \in pairs})
  IN  [i \in DOMAIN from |-> ReceiveFrom(s, from[i], "data", at)]

SendConvergence(s) ==
  LET to == Ordered(Conf(s).firsts)
  IN  [i \in DOMAIN to |-> SendTo(s, to[i], "convergence", 0)]

ReceiveConvergence(s) == <<ReceiveFrom(s, Second(s), "convergence", 0)>>

\* doImplicitStep() of the participant that judges, and its verdict to the others
Judge(s) == IF Implicit(s) THEN <<DoImplicitStep(s)>> \o SendConvergence(s) ELSE <<>>
HearVerdict(s) == IF Implicit(s) THEN ReceiveConvergence(s) ELSE <<>>

\* exchangeInitialData(): in a serial scheme Second also waits for First's data
\* of the end of the first window.
InitialData(p, s) ==
  LET initial == Conf(s).initializes
      send == SendData(p, s, initial, 0)
      receive == ReceiveData(p, s, initial, 0)
  IN  IF Serial(s)
      THEN IF p = Second(s)
           THEN send \o receive \o ReceiveData(p, s, Conf(s).sends, Conf(s).size)
           ELSE receive \o send
      ELSE IF p = Second(s) THEN receive \o send ELSE send \o receive

\* exchangeFirstData()
FirstDataSame(p, s, c) ==   \* fault: the controller sends like the others
  IF Serial(s)
  THEN (IF p = Second(s) THEN Judge(s) ELSE <<>>)
         \o SendData(p, s, Conf(s).sends, Time!TimeOf(c.time))
  ELSE SendData(p, s, Conf(s).sends, Time!TimeOf(c.time))

FirstData(p, s, c) ==
  LET now == Time!TimeOf(c.time)
      send == SendData(p, s, Conf(s).sends, now)
  IN  IF Serial(s) THEN (IF p = Second(s) THEN Judge(s) ELSE <<>>) \o send
      ELSE IF p = Second(s) THEN ReceiveData(p, s, Conf(s).sends, now)
      ELSE send

\* exchangeSecondData(): a Second receives for the window to come, or for the
\* one it repeats, but nothing once it has done the last.
SecondData(p, s, c) ==
  LET now == Time!TimeOf(c.time)
      receive(at) == ReceiveData(p, s, Conf(s).sends, at)
      done == ~Implicit(s) \/ c.hasConverged
  IN  IF p # Second(s) THEN HearVerdict(s) \o receive(now)
      ELSE IF ~Serial(s) THEN Judge(s) \o SendData(p, s, Conf(s).sends, now)
      ELSE IF ~done THEN receive(now)
      ELSE IF IsOngoing(c, s) THEN receive(now + Conf(s).size)
      ELSE <<>>

\* The exchanges of the schemes of a sequence that are at the end of a window
Exchange(data(_, _, _), p, seq, c) ==
  FlattenSeq([i \in DOMAIN seq |->
    IF ReachedEndOfTimeWindow(c[seq[i]], seq[i]) THEN data(p, seq[i], c[seq[i]]) ELSE <<>>])

--------------------------------------------------------------------------------
(* The composition *)

IsCouplingOngoing(p) ==
  LET s == IF HasImplicit(p) THEN ImplicitScheme(p)[1] ELSE ExplicitSchemes(p)[1]
  IN  IsOngoing(scheme[p][s], s)

Initialize(p) ==
  /\ pc[p] = "constructed"
  /\ todo' = [todo EXCEPT ![p] =
       FlattenSeq([i \in DOMAIN AllSchemes(p) |-> InitialData(p, AllSchemes(p)[i])])]
  /\ pc' = [pc EXCEPT ![p] = "initializing"]
  /\ UNCHANGED <<config, scheme, onHold, channel>>

\* The schemes that firstExchange() runs: those on hold wait.
RunFirstAll(p, hold) ==   \* fault: the explicit schemes do not wait
  ImplicitScheme(p) \o ExplicitSchemes(p)

RunFirst(p, hold) == ImplicitScheme(p) \o IF hold THEN <<>> ELSE ExplicitSchemes(p)

\* firstExchange() of the schemes of a sequence, whose state is c before
BeginFirstExchange(p, seq, c, place) ==
  LET d == Applied(FirstExchange, seq, c)
  IN  /\ scheme' = [scheme EXCEPT ![p] = d]
      /\ todo' = [todo EXCEPT ![p] = Exchange(FirstData, p, seq, d)]
      /\ pc' = [pc EXCEPT ![p] = place]

\* advance(dt): addComputedTime() and firstExchange().  The end of a window of
\* the implicit scheme puts the explicit ones on hold.
Holds(p, c) ==
  onHold[p] \/ (Composed(p) /\ LET s == ImplicitScheme(p)[1]
                               IN  ReachedEndOfTimeWindow(c[s], s))

Advance(p) ==
  /\ pc[p] = "solving" /\ IsCouplingOngoing(p)
  /\ \E dt \in 1 .. StepBound :
       LET add(c, s) == AddComputedTime(c, dt)
           c == Applied(add, ActiveSchemes(p), scheme[p])
           hold == Holds(p, c)
       IN  /\ \A s \in ToSet(ActiveSchemes(p)) : dt <= MaxStep(scheme[p][s], s)
           /\ onHold' = [onHold EXCEPT ![p] = hold]
           /\ BeginFirstExchange(p, RunFirst(p, hold), c, "firstExchange")
  /\ UNCHANGED <<config, channel>>

\* secondExchange(): of the implicit scheme, or of the explicit ones if there is none
RunSecond(p) == IF HasImplicit(p) THEN ImplicitScheme(p) ELSE ExplicitSchemes(p)

BeginSecondExchange(p) ==
  /\ pc[p] = "firstExchange" /\ todo[p] = <<>>
  /\ todo' = [todo EXCEPT ![p] = Exchange(SecondData, p, RunSecond(p), scheme[p])]
  /\ pc' = [pc EXCEPT ![p] = "secondExchange"]
  /\ UNCHANGED <<config, scheme, onHold, channel>>

\* Whether the implicit scheme went back behind the explicit ones
Iterating(p, c) ==
  Time!TimeOf(c[ImplicitScheme(p)[1]].time) < Time!TimeOf(c[ExplicitSchemes(p)[1]].time)

\* Once the implicit scheme is done the explicit ones catch up.
EndSecondExchange(p) ==
  /\ pc[p] = "secondExchange" /\ todo[p] = <<>>
  /\ LET c == Applied(SecondExchange, RunSecond(p), scheme[p])
     IN  IF Composed(p) /\ ~Iterating(p, c)
         THEN BeginFirstExchange(p, ExplicitSchemes(p), c, "catchUpFirst")
         ELSE /\ scheme' = [scheme EXCEPT ![p] = c]
              /\ pc' = [pc EXCEPT ![p] = "solving"]
              /\ UNCHANGED todo
  /\ UNCHANGED <<config, onHold, channel>>

CatchUpSecond(p) ==
  /\ pc[p] = "catchUpFirst" /\ todo[p] = <<>>
  /\ todo' = [todo EXCEPT ![p] = Exchange(SecondData, p, ExplicitSchemes(p), scheme[p])]
  /\ pc' = [pc EXCEPT ![p] = "catchUpSecond"]
  /\ UNCHANGED <<config, scheme, onHold, channel>>

CaughtUpOnHold(p) ==   \* fault: the explicit schemes stay on hold
  /\ pc[p] = "catchUpSecond" /\ todo[p] = <<>>
  /\ scheme' = [scheme EXCEPT ![p] = Applied(SecondExchange, ExplicitSchemes(p), @)]
  /\ pc' = [pc EXCEPT ![p] = "solving"]
  /\ UNCHANGED <<config, todo, onHold, channel>>

CaughtUp(p) ==
  /\ pc[p] = "catchUpSecond" /\ todo[p] = <<>>
  /\ scheme' = [scheme EXCEPT ![p] = Applied(SecondExchange, ExplicitSchemes(p), @)]
  /\ onHold' = [onHold EXCEPT ![p] = FALSE]
  /\ pc' = [pc EXCEPT ![p] = "solving"]
  /\ UNCHANGED <<config, todo, channel>>

Return(p) ==
  /\ pc[p] = "initializing" /\ todo[p] = <<>>
  /\ pc' = [pc EXCEPT ![p] = "solving"]
  /\ UNCHANGED <<config, todo, scheme, onHold, channel>>

Finalize(p) ==
  /\ pc[p] = "solving" /\ ~IsCouplingOngoing(p)
  /\ pc' = [pc EXCEPT ![p] = "finalized"]
  /\ UNCHANGED <<config, todo, scheme, onHold, channel>>

--------------------------------------------------------------------------------
(* The next send or receive of an exchange *)

Op(p) == Head(todo[p])
Doing(p, what) == todo[p] # <<>> /\ Op(p).do = what

\* A send that blocks until it is received holds up all that follows it.
CanProceed(p) == config.synchronous => \A q \in Participants : channel[p][q] = <<>>

Done(p) == todo' = [todo EXCEPT ![p] = Tail(@)]

\* The message that an operation o sends or expects, and a verdict
Message(o) == [scheme |-> o.scheme, kind |-> o.kind, at |-> o.at]

Send(p) ==
  /\ Doing(p, "send") /\ CanProceed(p)
  /\ LET o == Op(p)
         m == [message |-> Message(o), hasConverged |-> scheme[p][o.scheme].hasConverged]
     IN  channel' = [channel EXCEPT ![p][o.with] = Append(@, m)]
  /\ Done(p)
  /\ UNCHANGED <<config, pc, scheme, onHold>>

Receive(p) ==
  /\ Doing(p, "receive") /\ CanProceed(p)
  /\ LET o == Op(p)
         from == channel[o.with][p]
     IN  /\ from # <<>>
         /\ Head(from).message.kind = o.kind
         /\ channel' = [channel EXCEPT ![o.with][p] = Tail(@)]
         /\ scheme' = IF o.kind = "convergence"
                      THEN [scheme EXCEPT ![p][o.scheme].hasConverged = Head(from).hasConverged]
                      ELSE scheme
  /\ Done(p)
  /\ UNCHANGED <<config, pc, onHold>>

\* doImplicitStep(): the measures say anything, the iteration limit is kept.
DoJudgeFreely(p) ==   \* fault: the limit is not looked at
  /\ Doing(p, "judge") /\ CanProceed(p)
  /\ \E converged \in BOOLEAN :
       scheme' = [scheme EXCEPT ![p][Op(p).scheme].hasConverged = converged]
  /\ Done(p)
  /\ UNCHANGED <<config, pc, onHold, channel>>

DoJudge(p) ==
  /\ Doing(p, "judge") /\ CanProceed(p)
  /\ LET s == Op(p).scheme
     IN  \E converged \in BOOLEAN :
           scheme' = [scheme EXCEPT ![p][s].hasConverged =
             converged \/ scheme[p][s].iterations = Conf(s).maxIterations]
  /\ Done(p)
  /\ UNCHANGED <<config, pc, onHold, channel>>

--------------------------------------------------------------------------------
Init ==
  /\ config \in Configurations
  /\ pc = [p \in Participants |-> "constructed"]
  /\ todo = [p \in Participants |-> <<>>]
  /\ scheme = [p \in Participants |-> [s \in ToSet(AllSchemes(p)) |-> Constructed]]
  /\ onHold = [p \in Participants |-> FALSE]
  /\ channel = [p \in Participants |-> [q \in Participants |-> <<>>]]

Participant(p) ==
  \/ Initialize(p) \/ Return(p) \/ Advance(p)
  \/ BeginSecondExchange(p) \/ EndSecondExchange(p) \/ CatchUpSecond(p) \/ CaughtUp(p)
  \/ Finalize(p)
  \/ Send(p) \/ Receive(p) \/ DoJudge(p)

Next == \E p \in Participants : Participant(p)

\* Somebody who can go on does: a solver that keeps calling advance(), or a
\* blocking call whose message is there.  Nobody needs to be treated fairly with
\* respect to the others, as nobody can go on for ever alone.
Fairness == WF_vars(Next)

Spec == Init /\ [][Next]_vars /\ Fairness

--------------------------------------------------------------------------------
(* Properties *)

\* Every variable stays in its type, no scheme iterates more often than its limit,
\* and only a participant with explicit and implicit schemes puts any on hold.
TypeOK ==
  /\ config \in Configurations
  /\ pc \in [Participants -> {"constructed", "initializing", "solving", "firstExchange",
             "secondExchange", "catchUpFirst", "catchUpSecond", "finalized"}]
  /\ onHold \in [Participants -> BOOLEAN]
  /\ \A p \in Participants :
       /\ onHold[p] => Composed(p)
       /\ \A i \in DOMAIN todo[p] : todo[p][i].do \in {"send", "receive", "judge"}
       /\ \A s \in DOMAIN scheme[p] :
            /\ scheme[p][s].time \in [start : Nat, progress : Nat]
            /\ scheme[p][s].timeWindows \in Nat \ {0}
            /\ scheme[p][s].iterations \in 1 .. Conf(s).maxIterations
            /\ scheme[p][s].hasConverged \in BOOLEAN

\* Whoever waits in a receive finds at the head of the channel the message that
\* receive is meant for: of the same scheme, the same kind and the same time.
\* Messages carry neither, so a wrong one is taken for the right one.
ExpectedMessage ==
  \A p \in Participants : Doing(p, "receive") =>
    LET from == channel[Op(p).with][p]
    IN  from # <<>> => Head(from).message = Message(Op(p))

\* Between two steps of a solver each of its schemes counts the windows it has
\* completed: every exchange of a window happened once (firstExchange() counts,
\* secondExchange() completes).
CountsWindows ==
  \A p \in Participants : pc[p] = "solving" =>
    \A s \in DOMAIN scheme[p] :
      LET c == scheme[p][s]
      IN  c.time.start = (c.timeWindows - 1) * Conf(s).size

\* Explicit data is final: what a participant sends by an explicit scheme is of
\* a time it does not compute again, for its implicit scheme has completed the
\* windows up to there (_explicitOnHold; "Explicit schemes now run after the
\* implicit scheme has reached convergence").
OnlyConvergedData ==
  \A p, q \in Participants : HasImplicit(p) =>
    LET c == scheme[p][ImplicitScheme(p)[1]]
    IN  \A i \in DOMAIN channel[p][q] :
          LET m == channel[p][q][i].message
          IN  m.kind = "data" /\ ~Implicit(m.scheme) => m.at <= c.time.start

\* All participants get to the end of the coupling, whatever the schemes that
\* connect them, and leave no message unread.
Terminates ==
  <>(\A p \in Participants :
       pc[p] = "finalized" /\ \A q \in Participants : channel[p][q] = <<>>)

================================================================================
