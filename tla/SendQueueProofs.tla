---------------------------- MODULE SendQueueProofs ----------------------------
(***************************************************************************)
(* Theorems of SendQueue, for any ranks, mappings and calls, messages of   *)
(* any number of pieces and sockets of any capacity: a buffer outlives the *)
(* write that reads it, the queue outlives the handlers that touch it, and *)
(* what arrives are whole messages.                                        *)
(***************************************************************************)
EXTENDS SendQueue, FiniteSetTheorems, TLAPS

--------------------------------------------------------------------------------
(* The inductive invariant *)

\* The messages that a rank has begun to send
Sent(r) == Cardinality({i \in 1 .. phase[r] : config.calls[r][i] = "sending"})

\* The items that it has handed to the queue: waiting, being written, complete
AsItem(w) == [to |-> w.to, message |-> w.message]
Started(r) == {AsItem(w) : w \in writing[r]}
Dispatched(r) == ToSet(itemQueue[r]) \cup Started(r) \cup completed[r]

Alive(r) == bufferedRequests[r] \cup IF pc[r] = "emplacing" THEN {Item(r)} ELSE {}

\* Where the solver thread is in its call
Sending(r) == pc[r] \in {"sending", "emplacing"}

InCall(r) ==
  /\ pc[r] \in Calls \cup {"emplacing"} =>
       phase[r] > 0 /\ Call(r) = IF pc[r] = "emplacing" THEN "sending" ELSE pc[r]
  /\ posted[r] <= Len(mappings[r])
  /\ pc[r] = "emplacing" => posted[r] < Len(mappings[r])
  /\ ~Sending(r) => posted[r] = 0

\* The mappings whose items of this call are dispatched
Reached(r) == {mappings[r][i] : i \in 1 .. (posted[r] + IF pc[r] = "emplacing" THEN 1 ELSE 0)}

\* Items of the call that send() is in are those of the mappings behind it, so
\* the next item is a new one.
Fresh(r) ==
  \A x \in Dispatched(r) :
    /\ x.message <= Sent(r)
    /\ Sending(r) /\ x.message = Sent(r) => x.to \in Reached(r)

\* No item is in two places, or twice in the queue.
Once(r) ==
  /\ IsInjective(itemQueue[r])
  /\ ToSet(itemQueue[r]) \cap Started(r) = {}
  /\ (ToSet(itemQueue[r]) \cup Started(r)) \cap completed[r] = {}

\* _ready: no write and no handler, and then nothing waits.
OneWrite(r) ==
  /\ ready[r] <=> writing[r] = {} /\ ~handler[r]
  /\ handler[r] => writing[r] = {}
  /\ \A v, w \in writing[r] : v = w
  /\ ready[r] => itemQueue[r] = <<>>

Quiet(r) ==
  /\ ~IORuns(r) => itemQueue[r] = <<>> /\ writing[r] = {}
  /\ pc[r] = "closed" => ~handler[r]

RankInv(r) ==
  /\ InCall(r) /\ Fresh(r) /\ Once(r) /\ OneWrite(r) /\ Quiet(r)
  /\ ToSet(itemQueue[r]) \cup Started(r) \subseteq Alive(r)

IInv == TypeOK /\ \A r \in Ranks : RankInv(r)

--------------------------------------------------------------------------------
(* The configuration, and what may change a rank's state *)

\* The calls and the mappings of a rank are sequences, and no mapping is there twice.
LEMMA AdmissibleConfig ==
  ASSUME config \in Configurations
  PROVE  /\ \A r \in Ranks : /\ config.calls[r] \in Seq(Calls)
                             /\ mappings[r] \in Seq(Ranks)
                             /\ IsInjective(mappings[r])
         /\ Pieces \in Nat \ {0}
<1>1. Admissible(config)
  BY SendQueueAssumption
<1>2. ASSUME NEW r \in Ranks
      PROVE  /\ config.calls[r] \in Seq(Calls)
             /\ mappings[r] \in Seq(Ranks)
             /\ IsInjective(mappings[r])
  <2>1. /\ config.calls[r] \in Seq(Calls)
        /\ mappings[r] \in Seq({q \in Ranks : q \in config.first <=> r \notin config.first})
        /\ IsInjective(mappings[r])
    BY <1>1 DEF Admissible, Ranks, mappings
  <2> QED
    BY <2>1
<1> QED
  BY <1>1, <1>2 DEF Admissible, Pieces

solverState(r) == <<pc[r], phase[r], posted[r], bufferedRequests[r]>>
ioState(r) == <<completed[r], itemQueue[r], ready[r], writing[r], handler[r]>>

\* A step that leaves the state of a rank alone keeps its invariant.
LEMMA FrameStep ==
  ASSUME NEW r \in Ranks, RankInv(r), config' = config,
         solverState(r)' = solverState(r), ioState(r)' = ioState(r)
  PROVE  RankInv(r)'
<1>1. /\ pc'[r] = pc[r] /\ phase'[r] = phase[r] /\ posted'[r] = posted[r]
      /\ bufferedRequests'[r] = bufferedRequests[r] /\ completed'[r] = completed[r]
      /\ itemQueue'[r] = itemQueue[r] /\ ready'[r] = ready[r]
      /\ writing'[r] = writing[r] /\ handler'[r] = handler[r]
  BY DEF solverState, ioState
<1>2. /\ Sent(r)' = Sent(r) /\ Started(r)' = Started(r) /\ Sending(r)' = Sending(r)
      /\ Call(r)' = Call(r) /\ mappings' = mappings /\ IORuns(r)' = IORuns(r)
  BY <1>1 DEF Sent, Started, Sending, Call, mappings, IORuns
<1>3. /\ Dispatched(r)' = Dispatched(r) /\ Reached(r)' = Reached(r)
      /\ Message(r)' = Message(r)
  BY <1>1, <1>2 DEF Dispatched, Reached, Message, ToSet
<1>4. Alive(r)' = Alive(r)
  BY <1>1, <1>2, <1>3 DEF Alive, Item
<1>5. InCall(r)'
  BY <1>1, <1>2 DEF RankInv, InCall
<1>6. Fresh(r)'
  BY <1>1, <1>2, <1>3 DEF RankInv, Fresh
<1>7. Once(r)' /\ OneWrite(r)' /\ Quiet(r)'
  BY <1>1, <1>2 DEF RankInv, Once, OneWrite, Quiet, ToSet, IsInjective
<1> QED
  BY <1>1, <1>2, <1>4, <1>5, <1>6, <1>7 DEF RankInv, ToSet

\* The rest of a sequence without duplicates does not contain its head.
LEMMA TailOfInjective ==
  ASSUME NEW S, NEW s \in Seq(S), s # <<>>, IsInjective(s)
  PROVE  /\ Head(s) \in S /\ Tail(s) \in Seq(S) /\ IsInjective(Tail(s))
         /\ ToSet(s) = ToSet(Tail(s)) \cup {Head(s)}
         /\ Head(s) \notin ToSet(Tail(s))
<1>1. /\ Len(s) \in Nat \ {0} /\ Tail(s) \in Seq(S) /\ Len(Tail(s)) = Len(s) - 1
      /\ Head(s) = s[1] /\ DOMAIN s = 1 .. Len(s) /\ DOMAIN Tail(s) = 1 .. (Len(s) - 1)
      /\ \A i \in 1 .. (Len(s) - 1) : Tail(s)[i] = s[i + 1]
  OBVIOUS
<1>2. Head(s) \in S
  BY <1>1
<1>3. IsInjective(Tail(s))
  <2> SUFFICES ASSUME NEW i \in DOMAIN Tail(s), NEW j \in DOMAIN Tail(s), Tail(s)[i] = Tail(s)[j]
               PROVE  i = j
    BY DEF IsInjective
  <2>1. s[i + 1] = s[j + 1] /\ i + 1 \in DOMAIN s /\ j + 1 \in DOMAIN s
    BY <1>1
  <2>2. i + 1 = j + 1
    BY <2>1 DEF IsInjective
  <2> QED
    BY <1>1, <2>2
<1>4. ToSet(s) \subseteq ToSet(Tail(s)) \cup {Head(s)}
  <2> SUFFICES ASSUME NEW i \in DOMAIN s PROVE s[i] \in ToSet(Tail(s)) \cup {Head(s)}
    BY DEF ToSet
  <2>1. CASE i = 1
    BY <1>1, <2>1
  <2>2. CASE i # 1
    <3>1. i - 1 \in DOMAIN Tail(s) /\ Tail(s)[i - 1] = s[i]
      BY <1>1, <2>2
    <3> QED
      BY <3>1 DEF ToSet
  <2> QED
    BY <2>1, <2>2
<1>5. ToSet(Tail(s)) \cup {Head(s)} \subseteq ToSet(s)
  <2>1. ASSUME NEW i \in DOMAIN Tail(s) PROVE Tail(s)[i] \in ToSet(s)
    <3>1. i + 1 \in DOMAIN s /\ Tail(s)[i] = s[i + 1]
      BY <1>1
    <3> QED
      BY <3>1 DEF ToSet
  <2>2. 1 \in DOMAIN s /\ Head(s) \in ToSet(s)
    BY <1>1 DEF ToSet
  <2> QED
    BY <2>1, <2>2 DEF ToSet
<1>6. Head(s) \notin ToSet(Tail(s))
  <2> SUFFICES ASSUME NEW i \in DOMAIN Tail(s), Tail(s)[i] = Head(s) PROVE FALSE
    BY DEF ToSet
  <2>1. i + 1 \in DOMAIN s /\ 1 \in DOMAIN s /\ s[i + 1] = s[1]
    BY <1>1
  <2>2. i + 1 = 1
    BY <2>1 DEF IsInjective
  <2> QED
    BY <1>1, <2>2
<1> QED
  BY <1>1, <1>2, <1>3, <1>4, <1>5, <1>6

--------------------------------------------------------------------------------
(* process() *)

\* A write that begins is one of the item at the head of the queue.
LEMMA FirstWrite ==
  ASSUME NEW x \in Items, Pieces \in Nat
  PROVE  LET new == [to |-> x.to, message |-> x.message, pieces |-> 0]
         IN  new \in Writes /\ AsItem(new) = x
<1>1. x.to \in Ranks /\ x.message \in Nat /\ x = [to |-> x.to, message |-> x.message]
  BY DEF Items
<1>2. 0 \in 0 .. Pieces
  OBVIOUS
<1> QED
  BY <1>1, <1>2 DEF Writes, AsItem

\* What holds of a rank while process() decides about items: the write that is
\* over, or its handler that ends, is no write any more.
CanProcess(r, items, done) ==
  /\ IsInjective(items) /\ ToSet(items) \cap Started(r) = {}
  /\ done <=> writing[r] = {} /\ ~handler'[r]
  /\ handler'[r] => writing[r] = {}
  /\ \A v, w \in writing[r] : v = w

\* process() starts a write only when none is under way, and loses no item.
LEMMA ProcessStep ==
  ASSUME TypeOK, config' = config, NEW r \in Ranks, NEW items \in Seq(Items),
         NEW done \in BOOLEAN, CanProcess(r, items, done), Process(r, items, done)
  PROVE  /\ itemQueue' \in [Ranks -> Seq(Items)] /\ ready' \in [Ranks -> BOOLEAN]
         /\ writing' \in [Ranks -> SUBSET Writes]
         /\ ToSet(itemQueue'[r]) \cup Started(r)' = ToSet(items) \cup Started(r)
         /\ IsInjective(itemQueue'[r]) /\ ToSet(itemQueue'[r]) \cap Started(r)' = {}
         /\ OneWrite(r)'
         /\ items = <<>> => itemQueue'[r] = <<>> /\ writing'[r] = writing[r]
         /\ \A s \in Ranks \ {r} : /\ itemQueue'[s] = itemQueue[s] /\ ready'[s] = ready[s]
                                   /\ writing'[s] = writing[s]
<1> USE DEF TypeOK
<1>1. CASE ~done \/ items = <<>>
  <2>1. /\ itemQueue' = [itemQueue EXCEPT ![r] = items]
        /\ ready' = [ready EXCEPT ![r] = done] /\ writing' = writing
    BY <1>1 DEF Process
  <2>2. Started(r)' = Started(r) /\ ToSet(itemQueue'[r]) = ToSet(items) /\ itemQueue'[r] = items
    BY <2>1 DEF Started
  <2>3. OneWrite(r)'
    BY <1>1, <2>1 DEF OneWrite, CanProcess
  <2> QED
    BY <2>1, <2>2, <2>3 DEF CanProcess
<1>2. CASE done /\ items # <<>>
  <2> DEFINE new == [to |-> Head(items).to, message |-> Head(items).message, pieces |-> 0]
  <2>1. /\ itemQueue' = [itemQueue EXCEPT ![r] = Tail(items)]
        /\ ready' = [ready EXCEPT ![r] = FALSE]
        /\ writing' = [writing EXCEPT ![r] = @ \cup {new}]
    BY <1>2 DEF Process
  <2>2. /\ Head(items) \in Items /\ Tail(items) \in Seq(Items) /\ IsInjective(Tail(items))
        /\ ToSet(items) = ToSet(Tail(items)) \cup {Head(items)}
        /\ Head(items) \notin ToSet(Tail(items))
    BY <1>2, TailOfInjective DEF CanProcess
  <2>3. new \in Writes /\ AsItem(new) = Head(items)
    <3>1. Pieces \in Nat
      BY AdmissibleConfig
    <3> QED
      BY <2>2, <3>1, FirstWrite
  <2>4. writing[r] = {} /\ writing'[r] = {new}
    BY <1>2, <2>1 DEF CanProcess
  <2>5. Started(r) = {} /\ Started(r)' = {Head(items)}
    BY <2>3, <2>4 DEF Started
  <2>6. Writes' = Writes /\ Ranks' = Ranks
    BY DEF Writes, Ranks, Pieces
  <2>7. OneWrite(r)'
    BY <1>2, <2>1, <2>4 DEF OneWrite, CanProcess
  <2>8. writing' \in [Ranks -> SUBSET Writes]
    BY <2>1, <2>3
  <2>9. itemQueue'[r] = Tail(items)
    BY <2>1
  <2> QED
    BY <1>2, <2>1, <2>2, <2>5, <2>7, <2>8, <2>9
<1> QED
  BY <1>1, <1>2

--------------------------------------------------------------------------------
(* The messages of a rank *)

\* The calls of send() among the first n are finitely many.
LEMMA SentIsNumber ==
  ASSUME TypeOK, NEW r \in Ranks
  PROVE  Sent(r) \in Nat
<1>1. IsFiniteSet(1 .. phase[r])
  BY FS_Interval DEF TypeOK
<1> QED
  BY <1>1, FS_Subset, FS_CardinalityType DEF Sent

\* A rank's writes.
LEMMA WritesOfRank ==
  ASSUME TypeOK, NEW r \in Ranks, NEW w \in writing[r]
  PROVE  /\ w \in Writes /\ w.to \in Ranks /\ w.message \in Nat /\ w.pieces \in 0 .. Pieces
         /\ Pieces \in Nat \ {0} /\ config \in Configurations
<1>1. config \in Configurations /\ writing[r] \subseteq Writes
  BY DEF TypeOK
<1>2. Pieces \in Nat \ {0}
  BY <1>1, AdmissibleConfig
<1>3. w \in Writes
  BY <1>1
<1> QED
  BY <1>1, <1>2, <1>3 DEF Writes

\* What is dispatched are items.
LEMMA DispatchedItems ==
  ASSUME TypeOK, NEW r \in Ranks
  PROVE  Dispatched(r) \subseteq Items
<1>1. ToSet(itemQueue[r]) \subseteq Items
  <2>1. itemQueue[r] \in Seq(Items)
    BY DEF TypeOK
  <2> QED
    BY <2>1 DEF ToSet
<1>2. Started(r) \subseteq Items
  <2>1. writing[r] \subseteq Writes
    BY DEF TypeOK
  <2>2. ASSUME NEW w \in Writes PROVE AsItem(w) \in Items
    BY DEF AsItem, Writes, Items
  <2> QED
    BY <2>1, <2>2 DEF Started
<1>3. completed[r] \subseteq Items
  BY DEF TypeOK
<1> QED
  BY <1>1, <1>2, <1>3 DEF Dispatched

\* A call of send() begins a new message, one of receive() none.
LEMMA SentGrows ==
  ASSUME TypeOK, config' = config, NEW r \in Ranks, phase'[r] = phase[r] + 1
  PROVE  Sent(r)' = IF config.calls[r][phase'[r]] = "sending" THEN Sent(r) + 1 ELSE Sent(r)
<1> DEFINE n == phase[r]
           sends == {i \in 1 .. n : config.calls[r][i] = "sending"}
           sendsNext == {i \in 1 .. (n + 1) : config.calls[r][i] = "sending"}
<1>1. n \in Nat /\ IsFiniteSet(1 .. n)
  BY FS_Interval DEF TypeOK
<1>2. IsFiniteSet(sends) /\ n + 1 \notin sends
  BY <1>1, FS_Subset
<1>3. sendsNext = IF config.calls[r][n + 1] = "sending" THEN sends \cup {n + 1} ELSE sends
  BY <1>1
<1>4. Cardinality(sends \cup {n + 1}) = Cardinality(sends) + 1
  BY <1>2, FS_AddElement
<1>5. Sent(r) = Cardinality(sends) /\ Sent(r)' = Cardinality(sendsNext)
  BY DEF Sent
<1> QED
  BY <1>3, <1>4, <1>5

\* The item that send() dispatches next has not been dispatched before.
LEMMA NextItemIsNew ==
  ASSUME TypeOK, NEW r \in Ranks, RankInv(r), pc[r] = "sending",
         posted[r] < Len(mappings[r])
  PROVE  /\ Item(r) \in Items /\ Item(r) \notin Dispatched(r)
         /\ Item(r).message = Sent(r) /\ Item(r).to = mappings[r][posted[r] + 1]
<1>1. Sending(r) /\ Message(r) = Sent(r)
  BY DEF RankInv, InCall, Sending, Calls, Message, Sent
<1>2. /\ mappings[r] \in Seq(Ranks) /\ IsInjective(mappings[r])
      /\ posted[r] \in Nat /\ Sent(r) \in Nat
  BY AdmissibleConfig, SentIsNumber DEF TypeOK
<1>3. posted[r] + 1 \in DOMAIN mappings[r] /\ mappings[r][posted[r] + 1] \in Ranks
  BY <1>2
<1>4. /\ Item(r) \in Items /\ Item(r).message = Sent(r)
      /\ Item(r).to = mappings[r][posted[r] + 1]
  BY <1>1, <1>2, <1>3 DEF Item, Items
<1>5. ASSUME Item(r) \in Dispatched(r) PROVE FALSE
  <2>1. Item(r).to \in Reached(r)
    BY <1>1, <1>4, <1>5 DEF RankInv, Fresh
  <2>2. PICK i \in 1 .. posted[r] : mappings[r][posted[r] + 1] = mappings[r][i]
    BY <1>2, <1>4, <2>1 DEF Reached
  <2>3. i \in DOMAIN mappings[r]
    BY <1>2, <2>2
  <2> QED
    BY <1>2, <1>3, <2>2, <2>3 DEF IsInjective
<1> QED
  BY <1>4, <1>5

--------------------------------------------------------------------------------
(* One lemma per action *)

\* An invariant kept for the rank that steps holds of all ranks.
LEMMA OnlyRank ==
  ASSUME IInv, config' = config, NEW r \in Ranks, TypeOK', RankInv(r)',
         \A s \in Ranks \ {r} : solverState(s)' = solverState(s) /\ ioState(s)' = ioState(s)
  PROVE  IInv'
<1>1. Ranks' = Ranks
  BY DEF Ranks
<1>2. ASSUME NEW s \in Ranks PROVE RankInv(s)'
  <2>1. CASE s = r
    BY <2>1
  <2>2. CASE s # r
    BY <2>2, FrameStep DEF IInv
  <2> QED
    BY <2>1, <2>2
<1> QED
  BY <1>1, <1>2 DEF IInv

\* What a step that leaves the queue alone keeps
LEMMA QueueKept ==
  ASSUME NEW r \in Ranks, RankInv(r), ioState(r)' = ioState(r)
  PROVE  /\ Once(r)' /\ OneWrite(r)' /\ Started(r)' = Started(r)
         /\ Dispatched(r)' = Dispatched(r) /\ ToSet(itemQueue[r])' = ToSet(itemQueue[r])
<1>1. /\ completed'[r] = completed[r] /\ itemQueue'[r] = itemQueue[r]
      /\ ready'[r] = ready[r] /\ writing'[r] = writing[r] /\ handler'[r] = handler[r]
  BY DEF ioState
<1>2. Started(r)' = Started(r) /\ ToSet(itemQueue[r])' = ToSet(itemQueue[r])
  BY <1>1 DEF Started, ToSet
<1> QED
  BY <1>1, <1>2 DEF RankInv, Once, OneWrite, Dispatched

\* Another call begins: of send() with a new message.
LEMMA BeginStep ==
  ASSUME IInv, NEW r \in Ranks, Begin(r)
  PROVE  IInv'
<1> USE DEF IInv
<1>1. /\ pc[r] = "solving" /\ phase[r] < Len(config.calls[r]) /\ config' = config
      /\ phase' = [phase EXCEPT ![r] = @ + 1]
      /\ pc' = [pc EXCEPT ![r] = config.calls[r][phase[r] + 1]]
      /\ UNCHANGED <<posted, bufferedRequests, completed, queueVars, handler, wire, inbox>>
  BY DEF Begin, MayBegin
<1>2. /\ config.calls[r] \in Seq(Calls) /\ phase[r] \in Nat
      /\ config.calls[r][phase[r] + 1] \in Calls
  <2>1. config.calls[r] \in Seq(Calls) /\ phase[r] \in Nat
    BY AdmissibleConfig DEF TypeOK
  <2> QED
    BY <1>1, <2>1
<1>3. pc'[r] \in Calls /\ phase'[r] = phase[r] + 1 /\ config.calls[r][phase'[r]] = pc'[r]
  BY <1>1, <1>2 DEF TypeOK
<1>4. TypeOK'
  <2>1. pc' \in [Ranks -> {"solving", "sending", "emplacing", "receiving", "joining", "closed"}]
    BY <1>1, <1>2 DEF TypeOK, Calls
  <2>2. phase' \in [Ranks -> Nat]
    BY <1>1 DEF TypeOK
  <2>3. \A s \in Ranks : phase'[s] <= Len(config.calls[s])
    <3>1. phase'[r] <= Len(config.calls[r])
      BY <1>1, <1>2, <1>3
    <3> QED
      BY <1>1, <3>1 DEF TypeOK
  <2> QED
    BY <1>1, <2>1, <2>2, <2>3 DEF TypeOK, Ranks, Items, Writes, Pieces, queueVars
<1>5. RankInv(r) /\ ~Sending(r) /\ posted[r] = 0 /\ Alive(r) = bufferedRequests[r]
  BY <1>1 DEF RankInv, InCall, Sending, Alive
<1>6. ioState(r)' = ioState(r) /\ mappings' = mappings
  BY <1>1 DEF ioState, queueVars, mappings
<1>7. InCall(r)'
  <2>1. phase'[r] > 0 /\ Call(r)' = pc'[r] /\ pc'[r] # "emplacing"
    BY <1>1, <1>2, <1>3 DEF Call, Calls
  <2>2. posted'[r] = 0 /\ Len(mappings[r]) \in Nat
    <3>1. mappings[r] \in Seq(Ranks)
      BY AdmissibleConfig DEF TypeOK
    <3> QED
      BY <1>1, <1>5, <3>1
  <2> QED
    BY <1>6, <2>1, <2>2 DEF InCall
<1>8. Fresh(r)'
  <2>1. Dispatched(r)' = Dispatched(r)
    BY <1>5, <1>6, QueueKept
  <2>2. Sent(r) \in Nat /\ Sent(r)' = IF pc'[r] = "sending" THEN Sent(r) + 1 ELSE Sent(r)
    BY <1>1, <1>3, SentGrows, SentIsNumber
  <2>3. \A x \in Dispatched(r) : x.message \in Nat /\ x.message <= Sent(r)
    <3>1. \A x \in Dispatched(r) : x.message <= Sent(r)
      BY <1>5 DEF RankInv, Fresh
    <3>2. Dispatched(r) \subseteq Items
      BY DispatchedItems
    <3> QED
      BY <3>1, <3>2 DEF Items
  <2>4. Sending(r)' => pc'[r] = "sending"
    BY <1>3 DEF Sending, Calls
  <2> QED
    BY <2>1, <2>2, <2>3, <2>4 DEF Fresh
<1>9. RankInv(r)'
  <2>1. IORuns(r)' /\ Alive(r)' = bufferedRequests[r]
    BY <1>1, <1>3 DEF IORuns, Alive, Calls
  <2>2. Quiet(r)'
    BY <2>1 DEF Quiet, IORuns
  <2> QED
    BY <1>5, <1>6, <1>7, <1>8, <2>1, <2>2, QueueKept DEF RankInv
<1>10. \A s \in Ranks \ {r} : solverState(s)' = solverState(s) /\ ioState(s)' = ioState(s)
  BY <1>1 DEF solverState, ioState, queueVars, TypeOK
<1> QED
  BY <1>1, <1>4, <1>9, <1>10, OnlyRank

\* A function without duplicates that gets one more argument, with a new value
LEMMA ExtendInjective ==
  ASSUME NEW n \in Nat, NEW s, NEW t, NEW x,
         DOMAIN s = 1 .. n, DOMAIN t = 1 .. (n + 1), \A i \in 1 .. n : t[i] = s[i],
         t[n + 1] = x, IsInjective(s), x \notin ToSet(s)
  PROVE  IsInjective(t) /\ ToSet(t) = ToSet(s) \cup {x}
<1>1. \A i \in 1 .. n : s[i] # x
  BY DEF ToSet
<1>2. IsInjective(t)
  <2> SUFFICES ASSUME NEW i \in DOMAIN t, NEW j \in DOMAIN t, t[i] = t[j]
               PROVE  i = j
    BY DEF IsInjective
  <2>1. CASE i \in 1 .. n /\ j \in 1 .. n
    BY <2>1 DEF IsInjective
  <2>2. CASE ~(i \in 1 .. n /\ j \in 1 .. n)
    BY <1>1, <2>2
  <2> QED
    BY <2>1, <2>2
<1>3. ToSet(t) = ToSet(s) \cup {x}
  <2>1. DOMAIN t = DOMAIN s \cup {n + 1}
    OBVIOUS
  <2> QED
    BY <2>1 DEF ToSet
<1> QED
  BY <1>2, <1>3

\* A new element at the end of a sequence without duplicates
LEMMA AppendNew ==
  ASSUME NEW S, NEW s \in Seq(S), IsInjective(s), NEW x \in S, x \notin ToSet(s)
  PROVE  /\ Append(s, x) \in Seq(S) /\ IsInjective(Append(s, x))
         /\ ToSet(Append(s, x)) = ToSet(s) \cup {x}
<1>1. /\ Len(s) \in Nat /\ DOMAIN s = 1 .. Len(s)
      /\ DOMAIN Append(s, x) = 1 .. (Len(s) + 1)
      /\ \A i \in 1 .. Len(s) : Append(s, x)[i] = s[i]
      /\ Append(s, x)[Len(s) + 1] = x /\ Append(s, x) \in Seq(S)
  OBVIOUS
<1>2. ASSUME NEW n, n = Len(s), NEW t, t = Append(s, x)
      PROVE  IsInjective(t) /\ ToSet(t) = ToSet(s) \cup {x}
  <2>1. /\ n \in Nat /\ DOMAIN s = 1 .. n /\ DOMAIN t = 1 .. (n + 1)
        /\ \A i \in 1 .. n : t[i] = s[i]
        /\ t[n + 1] = x
    BY <1>1, <1>2
  <2> QED
    BY <2>1, ExtendInjective
<1> QED
  BY <1>1, <1>2

\* aSend() of the next mapping: its item is new, and the buffer is a local variable.
LEMMA DispatchStep ==
  ASSUME IInv, NEW r \in Ranks, Dispatch(r)
  PROVE  IInv'
<1> USE DEF IInv
<1> DEFINE items == Append(itemQueue[r], Item(r))
<1>1. /\ pc[r] = "sending" /\ posted[r] < Len(mappings[r]) /\ config' = config
      /\ Process(r, items, ready[r])
      /\ pc' = [pc EXCEPT ![r] = "emplacing"]
      /\ UNCHANGED <<phase, posted, bufferedRequests, completed, handler, wire, inbox>>
  BY DEF Dispatch, Appended
<1>2. RankInv(r) /\ pc'[r] = "emplacing"
  BY <1>1 DEF TypeOK
<1>3. /\ Item(r) \in Items /\ Item(r) \notin Dispatched(r)
      /\ Item(r).message = Sent(r) /\ Item(r).to = mappings[r][posted[r] + 1]
  BY <1>1, <1>2, NextItemIsNew
<1>4. /\ items \in Seq(Items) /\ IsInjective(items)
      /\ ToSet(items) = ToSet(itemQueue[r]) \cup {Item(r)}
  <2>1. itemQueue[r] \in Seq(Items) /\ IsInjective(itemQueue[r]) /\ Item(r) \notin ToSet(itemQueue[r])
    BY <1>2, <1>3 DEF TypeOK, RankInv, Once, Dispatched
  <2> QED
    BY <1>3, <2>1, AppendNew DEF items
<1>5. CanProcess(r, items, ready[r])
  BY <1>1, <1>2, <1>3, <1>4 DEF CanProcess, RankInv, Once, OneWrite, Dispatched
<1> HIDE DEF items
<1>6. /\ itemQueue' \in [Ranks -> Seq(Items)] /\ ready' \in [Ranks -> BOOLEAN]
      /\ writing' \in [Ranks -> SUBSET Writes]
      /\ ToSet(itemQueue'[r]) \cup Started(r)' = ToSet(items) \cup Started(r)
      /\ IsInjective(itemQueue'[r]) /\ ToSet(itemQueue'[r]) \cap Started(r)' = {}
      /\ OneWrite(r)'
      /\ \A s \in Ranks \ {r} : /\ itemQueue'[s] = itemQueue[s] /\ ready'[s] = ready[s]
                                /\ writing'[s] = writing[s]
  <2>1. ready[r] \in BOOLEAN
    BY DEF TypeOK
  <2> QED
    BY <1>1, <1>4, <1>5, <2>1, ProcessStep
<1>7. TypeOK'
  BY <1>1, <1>6 DEF TypeOK, Ranks, Items, Writes, Pieces
<1>8. /\ Item(r)' = Item(r) /\ mappings' = mappings /\ Sent(r)' = Sent(r)
      /\ Dispatched(r)' = Dispatched(r) \cup {Item(r)}
      /\ completed'[r] = completed[r]
  <2>1. Item(r)' = Item(r) /\ mappings' = mappings /\ Sent(r)' = Sent(r)
    BY <1>1 DEF Item, Message, Call, mappings, Sent
  <2> QED
    BY <1>1, <1>4, <1>6, <2>1 DEF Dispatched, ToSet
<1>9. RankInv(r)'
  <2>1. InCall(r)'
    BY <1>1, <1>2, <1>8 DEF RankInv, InCall, Calls, Call, Sending
  <2>2. Fresh(r)'
    <3> DEFINE n == posted[r]
    <3>1. /\ Sending(r) /\ n \in Nat /\ Reached(r) = {mappings[r][i] : i \in 1 .. n}
          /\ Reached(r)' = {mappings[r][i] : i \in 1 .. (n + 1)}
      BY <1>1, <1>2, <1>8 DEF Sending, Reached, TypeOK
    <3>2. Reached(r) \subseteq Reached(r)' /\ Item(r).to \in Reached(r)'
      BY <1>3, <3>1
    <3>3. Sent(r) <= Sent(r)
      BY SentIsNumber
    <3> QED
      BY <1>2, <1>3, <1>8, <3>1, <3>2, <3>3 DEF RankInv, Fresh
  <2>3. Once(r)'
    <3>1. completed[r] \cap (ToSet(itemQueue[r]) \cup Started(r)) = {}
      BY <1>2 DEF RankInv, Once
    <3>2. completed[r] \cap (ToSet(items) \cup Started(r)) = {}
      BY <1>3, <1>4, <3>1 DEF Dispatched
    <3>3. (ToSet(itemQueue[r]))' = ToSet(itemQueue'[r])
      BY DEF ToSet
    <3> QED
      BY <1>6, <1>8, <3>2, <3>3 DEF Once
  <2>4. Quiet(r)'
    BY <1>2 DEF Quiet, IORuns
  <2>5. Alive(r)' = Alive(r) \cup {Item(r)}
    BY <1>1, <1>2, <1>8 DEF Alive
  <2>6. (ToSet(itemQueue[r]) \cup Started(r) \subseteq Alive(r))'
    BY <1>2, <1>4, <1>6, <2>5 DEF RankInv, ToSet
  <2> QED
    BY <1>6, <2>1, <2>2, <2>3, <2>4, <2>6 DEF RankInv
<1>10. \A s \in Ranks \ {r} : solverState(s)' = solverState(s) /\ ioState(s)' = ioState(s)
  BY <1>1, <1>6 DEF solverState, ioState, TypeOK
<1> QED
  BY <1>1, <1>7, <1>9, <1>10, OnlyRank

\* The buffer is kept before the local variable ends.
LEMMA EmplaceStep ==
  ASSUME IInv, NEW r \in Ranks, Emplace(r)
  PROVE  IInv'
<1> USE DEF IInv
<1>1. /\ pc[r] = "emplacing" /\ config' = config
      /\ bufferedRequests' = [bufferedRequests EXCEPT ![r] = @ \cup {Item(r)}]
      /\ posted' = [posted EXCEPT ![r] = @ + 1]
      /\ pc' = [pc EXCEPT ![r] = "sending"]
      /\ UNCHANGED <<phase, completed, queueVars, handler, wire, inbox>>
  BY DEF Emplace
<1>2. RankInv(r) /\ posted[r] \in Nat /\ posted[r] < Len(mappings[r]) /\ Call(r) = "sending"
  BY <1>1 DEF TypeOK, RankInv, InCall
<1>3. pc'[r] = "sending" /\ posted'[r] = posted[r] + 1
      /\ bufferedRequests'[r] = bufferedRequests[r] \cup {Item(r)}
  BY <1>1 DEF TypeOK
<1>4. ioState(r)' = ioState(r) /\ mappings' = mappings /\ Sent(r)' = Sent(r) /\ Call(r)' = Call(r)
  BY <1>1 DEF ioState, queueVars, mappings, Sent, Call
<1>5. Item(r) \in Items
  <2>1. mappings[r] \in Seq(Ranks)
    BY AdmissibleConfig DEF TypeOK
  <2>2. posted[r] + 1 \in 1 .. Len(mappings[r])
    BY <1>2, <2>1
  <2>3. Message(r) = Sent(r)
    BY <1>2 DEF Message, Sent
  <2> QED
    BY <2>1, <2>2, <2>3, SentIsNumber DEF Item, Items
<1>6. TypeOK'
  <2>1. bufferedRequests' \in [Ranks -> SUBSET Items]
    <3>1. bufferedRequests[r] \cup {Item(r)} \in SUBSET Items
      BY <1>5 DEF TypeOK
    <3> QED
      BY <1>1, <3>1 DEF TypeOK
  <2>2. posted' \in [Ranks -> Nat]
    <3>1. posted[r] + 1 \in Nat
      BY <1>2
    <3> QED
      BY <1>1, <3>1 DEF TypeOK
  <2> QED
    BY <1>1, <2>1, <2>2 DEF TypeOK, Ranks, Items, Writes, Pieces, queueVars
<1>7. RankInv(r)'
  <2>1. InCall(r)'
    BY <1>1, <1>2, <1>3, <1>4, AdmissibleConfig DEF RankInv, InCall, Sending, Calls, TypeOK
  <2>2. Reached(r)' = Reached(r) /\ Sending(r)
    BY <1>1, <1>2, <1>3, <1>4 DEF Reached, Sending
  <2>3. Fresh(r)'
    BY <1>2, <1>4, <2>2, QueueKept DEF RankInv, Fresh
  <2>4. Alive(r)' = Alive(r)
    BY <1>1, <1>3 DEF Alive
  <2>5. Quiet(r)'
    BY <1>3 DEF Quiet, IORuns
  <2> QED
    BY <1>2, <1>4, <2>1, <2>3, <2>4, <2>5, QueueKept DEF RankInv
<1>8. \A s \in Ranks \ {r} : solverState(s)' = solverState(s) /\ ioState(s)' = ioState(s)
  BY <1>1 DEF solverState, ioState, queueVars, TypeOK
<1> QED
  BY <1>1, <1>6, <1>7, <1>8, OnlyRank

\* Only complete requests are dropped, and no complete item is in the queue.
LEMMA CheckBufferedRequestsStep ==
  ASSUME IInv, NEW r \in Ranks, CheckBufferedRequests(r)
  PROVE  IInv'
<1> USE DEF IInv
<1>1. /\ pc[r] = "sending" /\ config' = config
      /\ bufferedRequests' = [bufferedRequests EXCEPT ![r] = @ \ Tested(r)]
      /\ posted' = [posted EXCEPT ![r] = 0]
      /\ pc' = [pc EXCEPT ![r] = "solving"]
      /\ UNCHANGED <<phase, completed, queueVars, handler, wire, inbox>>
  BY DEF CheckBufferedRequests
<1>2. /\ RankInv(r) /\ pc'[r] = "solving" /\ posted'[r] = 0
      /\ bufferedRequests'[r] = bufferedRequests[r] \ completed[r]
  BY <1>1 DEF TypeOK, Tested
<1>3. ioState(r)' = ioState(r) /\ mappings' = mappings /\ Sent(r)' = Sent(r)
  BY <1>1 DEF ioState, queueVars, mappings, Sent
<1>4. TypeOK'
  BY <1>1 DEF TypeOK, Ranks, Items, Writes, Pieces, queueVars
<1>5. RankInv(r)'
  <2>1. InCall(r)'
    <3>1. mappings[r] \in Seq(Ranks)
      BY AdmissibleConfig DEF TypeOK
    <3> QED
      BY <1>2, <1>3, <3>1 DEF InCall, Calls
  <2>2. Fresh(r)'
    BY <1>2, <1>3, QueueKept DEF RankInv, Fresh, Sending
  <2>3. Quiet(r)'
    BY <1>2 DEF Quiet, IORuns
  <2>4. Alive(r) = bufferedRequests[r] /\ Alive(r)' = bufferedRequests[r] \ completed[r]
    BY <1>1, <1>2 DEF Alive
  <2>5. (ToSet(itemQueue[r]) \cup Started(r)) \cap completed[r] = {}
    BY <1>2 DEF RankInv, Once
  <2> QED
    BY <1>2, <1>3, <2>1, <2>2, <2>3, <2>4, <2>5, QueueKept DEF RankInv
<1>6. \A s \in Ranks \ {r} : solverState(s)' = solverState(s) /\ ioState(s)' = ioState(s)
  BY <1>1 DEF solverState, ioState, queueVars, TypeOK
<1> QED
  BY <1>1, <1>4, <1>5, <1>6, OnlyRank

\* receive() returns and leaves the queue alone.
LEMMA ReceiveReturnsStep ==
  ASSUME IInv, NEW r \in Ranks, ReceiveReturns(r)
  PROVE  IInv'
<1> USE DEF IInv
<1>1. /\ pc[r] = "receiving" /\ config' = config
      /\ inbox' = [inbox EXCEPT ![r] = [q \in Ranks |-> <<>>]]
      /\ pc' = [pc EXCEPT ![r] = "solving"]
      /\ UNCHANGED <<phase, posted, bufferedRequests, completed, queueVars, handler, wire>>
  BY DEF ReceiveReturns
<1>2. RankInv(r) /\ pc'[r] = "solving"
  BY <1>1 DEF TypeOK
<1>3. ioState(r)' = ioState(r) /\ mappings' = mappings /\ Sent(r)' = Sent(r)
  BY <1>1 DEF ioState, queueVars, mappings, Sent
<1>4. TypeOK'
  <2> DEFINE P == Nat \X (1 .. Pieces)
             empty == [q \in Ranks |-> <<>>]
  <2>1. empty \in [Ranks -> Seq(P)] /\ \A q \in Ranks : Len(empty[q]) = 0
    OBVIOUS
  <2>2. Pieces \in Nat
    BY AdmissibleConfig DEF TypeOK
  <2> HIDE DEF P, empty
  <2>3. inbox \in [Ranks -> [Ranks -> Seq(P)]] /\ inbox' = [inbox EXCEPT ![r] = empty]
    BY <1>1 DEF TypeOK, P, empty
  <2>4. inbox' \in [Ranks -> [Ranks -> Seq(P)]]
    BY <2>1, <2>3
  <2>5. \A s, q \in Ranks : Len(inbox'[s][q]) <= Pieces
    BY <2>1, <2>2, <2>3 DEF TypeOK
  <2> QED
    BY <1>1, <2>4, <2>5 DEF P, TypeOK, Ranks, Items, Writes, Pieces, queueVars
<1>5. RankInv(r)'
  <2>1. InCall(r)'
    BY <1>1, <1>2, <1>3 DEF RankInv, InCall, Sending, Calls
  <2>2. Fresh(r)'
    BY <1>2, <1>3, QueueKept DEF RankInv, Fresh, Sending
  <2>3. Quiet(r)' /\ Alive(r)' = Alive(r)
    BY <1>1, <1>2 DEF Quiet, IORuns, Alive
  <2> QED
    BY <1>2, <1>3, <2>1, <2>2, <2>3, QueueKept DEF RankInv
<1>6. \A s \in Ranks \ {r} : solverState(s)' = solverState(s) /\ ioState(s)' = ioState(s)
  BY <1>1 DEF solverState, ioState, queueVars, TypeOK
<1> QED
  BY <1>1, <1>4, <1>5, <1>6, OnlyRank

\* closeConnection(): all requests are complete, so the queue is empty.
LEMMA CloseStep ==
  ASSUME IInv, NEW r \in Ranks, Close(r)
  PROVE  IInv'
<1> USE DEF IInv
<1>1. /\ pc[r] = "solving" /\ config' = config /\ bufferedRequests[r] = Tested(r)
      /\ bufferedRequests' = [bufferedRequests EXCEPT ![r] = {}]
      /\ pc' = [pc EXCEPT ![r] = "joining"]
      /\ UNCHANGED <<phase, posted, completed, queueVars, handler, wire, inbox>>
  BY DEF Close
<1>2. /\ RankInv(r) /\ pc'[r] = "joining" /\ bufferedRequests[r] \subseteq completed[r]
      /\ Alive(r) = bufferedRequests[r]
  BY <1>1 DEF TypeOK, Tested, Alive
<1>3. ioState(r)' = ioState(r) /\ mappings' = mappings /\ Sent(r)' = Sent(r)
  BY <1>1 DEF ioState, queueVars, mappings, Sent
<1>4. TypeOK'
  BY <1>1 DEF TypeOK, Ranks, Items, Writes, Pieces, queueVars
<1>5. ToSet(itemQueue[r]) = {} /\ Started(r) = {}
  BY <1>2 DEF RankInv, Once
<1>6. itemQueue[r] = <<>> /\ writing[r] = {}
  <2>1. itemQueue[r] \in Seq(Items)
    BY DEF TypeOK
  <2>2. Len(itemQueue[r]) = 0
    <3> SUFFICES ASSUME Len(itemQueue[r]) # 0 PROVE FALSE
      OBVIOUS
    <3>1. 1 \in DOMAIN itemQueue[r]
      BY <2>1
    <3> QED
      BY <1>5, <3>1 DEF ToSet
  <2> QED
    BY <1>5, <2>1, <2>2 DEF Started
<1>7. RankInv(r)'
  <2>1. InCall(r)'
    BY <1>1, <1>2, <1>3 DEF RankInv, InCall, Sending, Calls
  <2>2. Fresh(r)'
    BY <1>2, <1>3, QueueKept DEF RankInv, Fresh, Sending
  <2>3. Quiet(r)'
    BY <1>1, <1>2, <1>6 DEF Quiet, queueVars
  <2> QED
    BY <1>2, <1>3, <1>5, <2>1, <2>2, <2>3, QueueKept DEF RankInv
<1>8. \A s \in Ranks \ {r} : solverState(s)' = solverState(s) /\ ioState(s)' = ioState(s)
  BY <1>1 DEF solverState, ioState, queueVars, TypeOK
<1> QED
  BY <1>1, <1>4, <1>7, <1>8, OnlyRank

\* The thread is joined after its last handler.
LEMMA JoinStep ==
  ASSUME IInv, NEW r \in Ranks, Join(r)
  PROVE  IInv'
<1> USE DEF IInv
<1>1. /\ pc[r] = "joining" /\ ~handler[r] /\ config' = config
      /\ pc' = [pc EXCEPT ![r] = "closed"]
      /\ UNCHANGED <<phase, posted, bufferedRequests, completed, queueVars, handler, wire, inbox>>
  BY DEF Join
<1>2. RankInv(r) /\ pc'[r] = "closed"
  BY <1>1 DEF TypeOK
<1>3. ioState(r)' = ioState(r) /\ mappings' = mappings /\ Sent(r)' = Sent(r)
  BY <1>1 DEF ioState, queueVars, mappings, Sent
<1>4. TypeOK'
  BY <1>1 DEF TypeOK, Ranks, Items, Writes, Pieces, queueVars
<1>5. RankInv(r)'
  <2>1. InCall(r)'
    BY <1>1, <1>2, <1>3 DEF RankInv, InCall, Sending, Calls
  <2>2. Fresh(r)'
    BY <1>2, <1>3, QueueKept DEF RankInv, Fresh, Sending
  <2>3. Quiet(r)' /\ Alive(r)' = Alive(r)
    BY <1>1, <1>2 DEF RankInv, Quiet, IORuns, Alive, queueVars
  <2> QED
    BY <1>2, <1>3, <2>1, <2>2, <2>3, QueueKept DEF RankInv
<1>6. \A s \in Ranks \ {r} : solverState(s)' = solverState(s) /\ ioState(s)' = ioState(s)
  BY <1>1 DEF solverState, ioState, queueVars, TypeOK
<1> QED
  BY <1>1, <1>4, <1>5, <1>6, OnlyRank

\* What a step of the I/O thread that leaves the solver thread alone keeps
LEMMA SolverKept ==
  ASSUME NEW r \in Ranks, RankInv(r), config' = config, solverState(r)' = solverState(r)
  PROVE  /\ InCall(r)' /\ Sent(r)' = Sent(r) /\ Sending(r)' = Sending(r)
         /\ Reached(r)' = Reached(r) /\ Alive(r)' = Alive(r) /\ IORuns(r)' = IORuns(r)
<1>1. /\ pc'[r] = pc[r] /\ phase'[r] = phase[r] /\ posted'[r] = posted[r]
      /\ bufferedRequests'[r] = bufferedRequests[r] /\ mappings' = mappings
  BY DEF solverState, mappings
<1>2. Call(r)' = Call(r) /\ Message(r)' = Message(r) /\ Sent(r)' = Sent(r)
  BY <1>1 DEF Call, Message, Sent
<1>3. Item(r)' = Item(r)
  BY <1>1, <1>2 DEF Item
<1>4. InCall(r)' /\ Sending(r)' = Sending(r)
  <2>1. InCall(r)
    BY DEF RankInv
  <2> QED
    BY <1>1, <1>2, <2>1 DEF InCall, Sending
<1>5. Reached(r)' = Reached(r) /\ Alive(r)' = Alive(r) /\ IORuns(r)' = IORuns(r)
  BY <1>1, <1>2, <1>3 DEF Reached, Alive, IORuns
<1> QED
  BY <1>2, <1>4, <1>5

\* The write is still the one of its item.
LEMMA WritePieceStep ==
  ASSUME IInv, NEW r \in Ranks, NEW w \in writing[r], WritePiece(r, w)
  PROVE  IInv'
<1> USE DEF IInv
<1> DEFINE next == [w EXCEPT !.pieces = @ + 1]
<1>1. /\ IORuns(r) /\ w.pieces < Pieces /\ config' = config
      /\ wire' = [wire EXCEPT ![r][w.to] = Append(@, <<w.message, w.pieces + 1>>)]
      /\ writing' = [writing EXCEPT ![r] = (@ \ {w}) \cup {next}]
      /\ UNCHANGED <<solverVars, completed, itemQueue, ready, handler, inbox>>
  BY DEF WritePiece
<1>2. /\ RankInv(r) /\ w \in Writes /\ w.to \in Ranks /\ w.message \in Nat
      /\ w.pieces \in 0 .. Pieces /\ Pieces \in Nat
  BY WritesOfRank
<1>3. next \in Writes /\ AsItem(next) = AsItem(w) /\ w.pieces + 1 \in 1 .. Pieces
  BY <1>1, <1>2 DEF Writes, AsItem
<1> HIDE DEF next
<1>4. writing[r] = {w} /\ writing'[r] = {next}
  <2>1. writing[r] = {w}
    BY <1>2 DEF RankInv, OneWrite
  <2>2. writing'[r] = (writing[r] \ {w}) \cup {next}
    BY <1>1 DEF TypeOK
  <2> QED
    BY <2>1, <2>2
<1>5. Started(r)' = Started(r)
  BY <1>3, <1>4 DEF Started
<1>6. TypeOK'
  <2>1. writing' \in [Ranks -> SUBSET Writes]
    BY <1>1, <1>3 DEF TypeOK
  <2>2. wire' \in [Ranks -> [Ranks -> Seq(Nat \X (1 .. Pieces))]]
    <3> DEFINE P == Nat \X (1 .. Pieces)
               piece == <<w.message, w.pieces + 1>>
    <3>1. piece \in P
      BY <1>2, <1>3
    <3> HIDE DEF P, piece
    <3>2. wire \in [Ranks -> [Ranks -> Seq(P)]] /\ wire' = [wire EXCEPT ![r][w.to] = Append(@, piece)]
      BY <1>1 DEF TypeOK, P, piece
    <3>3. wire' \in [Ranks -> [Ranks -> Seq(P)]]
      BY <1>2, <3>1, <3>2
    <3> QED
      BY <3>3 DEF P
  <2> QED
    BY <1>1, <2>1, <2>2 DEF TypeOK, Ranks, Items, Writes, Pieces, solverVars
<1>7. /\ itemQueue'[r] = itemQueue[r] /\ completed'[r] = completed[r]
      /\ ready'[r] = ready[r] /\ handler'[r] = handler[r]
      /\ solverState(r)' = solverState(r)
  BY <1>1 DEF solverVars, solverState
<1>8. RankInv(r)'
  <2>1. Dispatched(r)' = Dispatched(r) /\ (ToSet(itemQueue[r]))' = ToSet(itemQueue[r])
    BY <1>5, <1>7 DEF Dispatched, ToSet
  <2>2. Fresh(r)' /\ Once(r)'
    BY <1>1, <1>2, <1>5, <1>7, <2>1, SolverKept DEF RankInv, Fresh, Once
  <2>3. OneWrite(r)'
    BY <1>2, <1>4, <1>7 DEF RankInv, OneWrite
  <2>4. IORuns(r)' /\ pc'[r] # "closed"
    BY <1>1 DEF IORuns, solverVars
  <2> QED
    BY <1>1, <1>2, <1>5, <1>7, <2>1, <2>2, <2>3, <2>4, SolverKept DEF RankInv, Quiet
<1>9. \A s \in Ranks \ {r} : solverState(s)' = solverState(s) /\ ioState(s)' = ioState(s)
  BY <1>1 DEF solverState, ioState, solverVars, TypeOK
<1> QED
  BY <1>1, <1>6, <1>8, <1>9, OnlyRank

\* The item moves from the writes to the complete requests, and the handler runs.
LEMMA CallbackStep ==
  ASSUME IInv, NEW r \in Ranks, NEW w \in writing[r], Callback(r, w)
  PROVE  IInv'
<1> USE DEF IInv
<1>1. /\ IORuns(r) /\ ~handler[r] /\ config' = config
      /\ completed' = [completed EXCEPT ![r] = @ \cup {AsItem(w)}]
      /\ writing' = [writing EXCEPT ![r] = @ \ {w}]
      /\ handler' = [handler EXCEPT ![r] = TRUE]
      /\ UNCHANGED <<solverVars, itemQueue, ready, wire, inbox>>
  BY DEF Callback, AsItem
<1>2. RankInv(r) /\ AsItem(w) \in Items
  <2>1. w.to \in Ranks /\ w.message \in Nat
    BY WritesOfRank
  <2> QED
    BY <2>1 DEF Items, AsItem
<1>3. /\ writing[r] = {w} /\ writing'[r] = {} /\ handler'[r] = TRUE
      /\ completed'[r] = completed[r] \cup {AsItem(w)}
  BY <1>1, <1>2 DEF RankInv, OneWrite, TypeOK
<1>4. Started(r) = {AsItem(w)} /\ Started(r)' = {}
  BY <1>3 DEF Started
<1>5. TypeOK'
  <2>1. completed' \in [Ranks -> SUBSET Items]
    BY <1>1, <1>2 DEF TypeOK
  <2>2. writing' \in [Ranks -> SUBSET Writes] /\ handler' \in [Ranks -> BOOLEAN]
    BY <1>1 DEF TypeOK
  <2> QED
    BY <1>1, <2>1, <2>2 DEF TypeOK, Ranks, Items, Writes, Pieces, solverVars
<1>6. /\ itemQueue'[r] = itemQueue[r] /\ ready'[r] = ready[r]
      /\ solverState(r)' = solverState(r) /\ (ToSet(itemQueue[r]))' = ToSet(itemQueue[r])
  BY <1>1 DEF solverVars, solverState, ToSet
<1>7. RankInv(r)'
  <2>1. Dispatched(r)' = Dispatched(r)
    BY <1>3, <1>4, <1>6 DEF Dispatched
  <2>2. Fresh(r)'
    BY <1>1, <1>2, <1>6, <2>1, SolverKept DEF RankInv, Fresh
  <2>3. Once(r)'
    BY <1>2, <1>3, <1>4, <1>6 DEF RankInv, Once
  <2>4. OneWrite(r)'
    BY <1>2, <1>3, <1>6 DEF RankInv, OneWrite
  <2>5. IORuns(r)' /\ pc'[r] # "closed"
    BY <1>1 DEF IORuns, solverVars
  <2> QED
    BY <1>1, <1>2, <1>4, <1>6, <2>2, <2>3, <2>4, <2>5, SolverKept DEF RankInv, Quiet
<1>8. \A s \in Ranks \ {r} : solverState(s)' = solverState(s) /\ ioState(s)' = ioState(s)
  BY <1>1 DEF solverState, ioState, solverVars, TypeOK
<1> QED
  BY <1>1, <1>5, <1>7, <1>8, OnlyRank

\* The handler ends: the next item is written, if there is one.
LEMMA SendCompletedStep ==
  ASSUME IInv, NEW r \in Ranks, SendCompleted(r)
  PROVE  IInv'
<1> USE DEF IInv
<1>1. /\ handler[r] /\ config' = config
      /\ handler' = [handler EXCEPT ![r] = FALSE]
      /\ Process(r, itemQueue[r], TRUE)
      /\ UNCHANGED <<solverVars, completed, wire, inbox>>
  BY DEF SendCompleted
<1>2. RankInv(r) /\ handler'[r] = FALSE /\ writing[r] = {} /\ itemQueue[r] \in Seq(Items)
  BY <1>1 DEF TypeOK, RankInv, OneWrite
<1>3. CanProcess(r, itemQueue[r], TRUE)
  BY <1>2 DEF CanProcess, RankInv, Once
<1>4. /\ itemQueue' \in [Ranks -> Seq(Items)] /\ ready' \in [Ranks -> BOOLEAN]
      /\ writing' \in [Ranks -> SUBSET Writes]
      /\ ToSet(itemQueue'[r]) \cup Started(r)' = ToSet(itemQueue[r]) \cup Started(r)
      /\ IsInjective(itemQueue'[r]) /\ ToSet(itemQueue'[r]) \cap Started(r)' = {}
      /\ OneWrite(r)'
      /\ itemQueue[r] = <<>> => itemQueue'[r] = <<>> /\ writing'[r] = writing[r]
      /\ \A s \in Ranks \ {r} : /\ itemQueue'[s] = itemQueue[s] /\ ready'[s] = ready[s]
                                /\ writing'[s] = writing[s]
  BY <1>1, <1>2, <1>3, ProcessStep
<1>5. TypeOK'
  <2>1. handler' \in [Ranks -> BOOLEAN]
    BY <1>1 DEF TypeOK
  <2> QED
    BY <1>1, <1>4, <2>1 DEF TypeOK, Ranks, Items, Writes, Pieces, solverVars
<1>6. /\ solverState(r)' = solverState(r) /\ completed'[r] = completed[r]
      /\ (ToSet(itemQueue[r]))' = ToSet(itemQueue'[r])
  BY <1>1 DEF solverVars, solverState, ToSet
<1>7. RankInv(r)'
  <2>1. Dispatched(r)' = Dispatched(r)
    BY <1>4, <1>6 DEF Dispatched
  <2>2. Fresh(r)'
    BY <1>1, <1>2, <1>6, <2>1, SolverKept DEF RankInv, Fresh
  <2>3. Once(r)'
    BY <1>2, <1>4, <1>6 DEF RankInv, Once
  <2>4. Quiet(r)'
    BY <1>1, <1>2, <1>4, <1>6, SolverKept DEF RankInv, Quiet
  <2> QED
    BY <1>1, <1>2, <1>4, <1>6, <2>2, <2>3, <2>4, SolverKept DEF RankInv
<1>8. \A s \in Ranks \ {r} : solverState(s)' = solverState(s) /\ ioState(s)' = ioState(s)
  BY <1>1, <1>4 DEF solverState, ioState, solverVars, TypeOK
<1> QED
  BY <1>1, <1>5, <1>7, <1>8, OnlyRank

\* Reading changes only the wire and the inbox, up to the size of the message.
LEMMA ReadPieceStep ==
  ASSUME IInv, NEW r \in Ranks, NEW q \in Partners(r), ReadPiece(r, q)
  PROVE  IInv'
<1> USE DEF IInv
<1>1. /\ wire[q][r] # <<>> /\ Len(inbox[r][q]) < Pieces /\ config' = config
      /\ inbox' = [inbox EXCEPT ![r][q] = Append(@, Head(wire[q][r]))]
      /\ wire' = [wire EXCEPT ![q][r] = Tail(@)]
      /\ UNCHANGED <<solverVars, completed, queueVars, handler>>
  BY DEF ReadPiece
<1>2. q \in Ranks /\ Pieces \in Nat
  <2>1. mappings[r] \in Seq(Ranks) /\ Pieces \in Nat
    BY AdmissibleConfig DEF TypeOK
  <2> QED
    BY <2>1 DEF Partners, ToSet
<1>3. TypeOK'
  <2> DEFINE P == Nat \X (1 .. Pieces)
  <2>1. wire \in [Ranks -> [Ranks -> Seq(P)]] /\ inbox \in [Ranks -> [Ranks -> Seq(P)]]
    BY DEF TypeOK
  <2> HIDE DEF P
  <2>2. wire[q][r] \in Seq(P) /\ inbox[r][q] \in Seq(P)
    BY <1>2, <2>1
  <2>3. /\ Head(wire[q][r]) \in P /\ Tail(wire[q][r]) \in Seq(P)
        /\ Append(inbox[r][q], Head(wire[q][r])) \in Seq(P)
        /\ Len(Append(inbox[r][q], Head(wire[q][r]))) = Len(inbox[r][q]) + 1
    BY <1>1, <2>2
  <2>4. wire' \in [Ranks -> [Ranks -> Seq(P)]]
    BY <1>1, <1>2, <2>1, <2>3
  <2>5. inbox' \in [Ranks -> [Ranks -> Seq(P)]]
    BY <1>1, <1>2, <2>1, <2>3
  <2>6. Len(inbox'[r][q]) <= Pieces
    <3>1. Len(inbox[r][q]) \in Nat /\ inbox'[r][q] = Append(inbox[r][q], Head(wire[q][r]))
      BY <1>1, <1>2, <2>1, <2>2
    <3> QED
      BY <1>1, <1>2, <2>3, <3>1
  <2>7. \A s, o \in Ranks : Len(inbox'[s][o]) <= Pieces
    <3>1. \A s, o \in Ranks : s # r \/ o # q => inbox'[s][o] = inbox[s][o]
      BY <1>1, <1>2, <2>1
    <3> QED
      BY <2>6, <3>1 DEF TypeOK
  <2> QED
    BY <1>1, <2>4, <2>5, <2>7 DEF P, TypeOK, Ranks, Items, Writes, Pieces, solverVars, queueVars
<1>4. \A s \in Ranks : solverState(s)' = solverState(s) /\ ioState(s)' = ioState(s)
  BY <1>1 DEF solverState, ioState, solverVars, queueVars
<1>5. RankInv(r)'
  BY <1>1, <1>4, FrameStep
<1> QED
  BY <1>1, <1>3, <1>4, <1>5, OnlyRank

--------------------------------------------------------------------------------
(* The theorems *)

\* Every rank begins before its first call with an empty queue.
LEMMA InitInv == Init => IInv
<1> SUFFICES ASSUME Init PROVE IInv
  OBVIOUS
<1> USE DEF Init
<1>1. TypeOK
  <2>1. /\ \A r \in Ranks : Len(config.calls[r]) \in Nat
        /\ Pieces \in Nat
    BY AdmissibleConfig
  <2> DEFINE empty == [r \in Ranks |-> [q \in Ranks |-> <<>>]]
  <2>2. /\ empty \in [Ranks -> [Ranks -> Seq(Nat \X (1 .. Pieces))]]
        /\ \A r, q \in Ranks : Len(empty[r][q]) = 0
    OBVIOUS
  <2>3. phase \in [Ranks -> Nat] /\ \A r \in Ranks : phase[r] <= Len(config.calls[r])
    BY <2>1
  <2>4. itemQueue \in [Ranks -> Seq(Items)]
    OBVIOUS
  <2> HIDE DEF empty
  <2>5. wire = empty /\ inbox = empty
    BY DEF empty
  <2> QED
    BY <2>1, <2>2, <2>3, <2>4, <2>5 DEF TypeOK
<1>2. ASSUME NEW r \in Ranks PROVE RankInv(r)
  <2>1. /\ pc[r] = "solving" /\ posted[r] = 0 /\ itemQueue[r] = <<>> /\ ready[r] = TRUE
        /\ writing[r] = {} /\ completed[r] = {} /\ handler[r] = FALSE
    OBVIOUS
  <2>2. ToSet(itemQueue[r]) = {} /\ IsInjective(itemQueue[r]) /\ Started(r) = {}
    BY <2>1 DEF ToSet, IsInjective, Started
  <2>3. Len(mappings[r]) \in Nat
    BY AdmissibleConfig
  <2> QED
    BY <2>1, <2>2, <2>3
    DEF RankInv, InCall, Fresh, Once, OneWrite, Quiet, Sending, Calls, IORuns, Dispatched
<1> QED
  BY <1>1, <1>2 DEF IInv

\* Steps that change nothing keep the invariant.
LEMMA StutterInv == IInv /\ UNCHANGED vars => IInv'
<1> SUFFICES ASSUME IInv, UNCHANGED vars PROVE IInv'
  OBVIOUS
<1>1. config' = config /\ Ranks' = Ranks
  BY DEF vars, Ranks
<1>2. TypeOK'
  BY <1>1 DEF IInv, TypeOK, vars, solverVars, queueVars, Items, Writes, Pieces
<1>3. \A r \in Ranks : solverState(r)' = solverState(r) /\ ioState(r)' = ioState(r)
  BY DEF vars, solverVars, queueVars, solverState, ioState
<1> QED
  BY <1>1, <1>2, <1>3, FrameStep DEF IInv

\* IInv holds in every reachable state.
THEOREM Invariance == Spec => []IInv
<1>1. IInv /\ [Next]_vars => IInv'
  <2> SUFFICES ASSUME IInv, Next PROVE IInv'
    BY StutterInv
  <2>1. PICK r \in Ranks : SolverThread(r) \/ IOThread(r)
    BY DEF Next
  <2>2. CASE SolverThread(r)
    BY <2>2, BeginStep, DispatchStep, EmplaceStep, CheckBufferedRequestsStep,
       ReceiveReturnsStep, CloseStep, JoinStep DEF SolverThread
  <2>3. CASE IOThread(r)
    BY <2>3, WritePieceStep, CallbackStep, ReadPieceStep, SendCompletedStep DEF IOThread
  <2> QED
    BY <2>1, <2>2, <2>3
<1> QED
  BY InitInv, <1>1, PTL DEF Spec

\* Every variable stays in its type, and receive() never reads past its message.
THEOREM TypeCorrect == Spec => []TypeOK
<1>1. IInv => TypeOK
  BY DEF IInv
<1> QED
  BY Invariance, <1>1, PTL

\* The buffer of a message is alive as long as the message waits or is written,
\* whatever the order in which writes and calls of send() interleave.
THEOREM BuffersStayAlive == Spec => []BuffersAlive
<1>1. IInv => BuffersAlive
  <2> SUFFICES ASSUME IInv, NEW r \in Ranks
               PROVE  /\ ToSet(itemQueue[r]) \subseteq Alive(r)
                      /\ \A w \in writing[r] : AsItem(w) \in Alive(r)
    BY DEF BuffersAlive, Alive, AsItem
  <2> QED
    BY DEF IInv, RankInv, Started
<1> QED
  BY Invariance, <1>1, PTL

\* closeConnection() destroys the queue only when nothing will touch it again.
THEOREM QueueOutlives == Spec => []QueueOutlivesHandlers
<1>1. IInv => QueueOutlivesHandlers
  BY DEF IInv, RankInv, Quiet, IORuns, QueueOutlivesHandlers
<1> QED
  BY Invariance, <1>1, PTL

--------------------------------------------------------------------------------
(* The pieces on their way from a rank to another *)

\* The messages to r among some items
MessagesTo(items, r) == {x.message : x \in {y \in items : y.to = r}}

\* How many messages to r a rank has handed to the queue
Handed(q, r) == IF Sending(q) /\ r \notin Reached(q) THEN Sent(q) - 1 ELSE Sent(q)

\* Those to r wait in the order of their numbers.
Ascending(items, r) ==
  \A i, j \in 1 .. Len(items) :
    i < j /\ items[i].to = r /\ items[j].to = r => items[i].message < items[j].message

\* Messages to r are handed to the queue one by one, wait in their order, and are
\* written one after the other: n is the first that is not complete.
InOrder(q, r, n) ==
  /\ MessagesTo(Dispatched(q), r) = 1 .. Handed(q, r)
  /\ MessagesTo(completed[q], r) = 1 .. (n - 1)
  /\ MessagesTo(Started(q), r) \subseteq {n}
  /\ Ascending(itemQueue[q], r)

\* The piece of a message after so many, or the first of the next message
Piece(message, pieces) ==
  IF pieces < Pieces THEN <<message, pieces + 1>> ELSE <<message + 1, 1>>

After(piece) == Piece(piece[1], piece[2])

\* The piece that q writes next to r
WritesNext(q, r, piece) ==
  \E n \in Nat \ {0} :
    /\ InOrder(q, r, n)
    /\ \A w \in writing[q] : w.to = r => piece = Piece(w.message, w.pieces)
    /\ (\A w \in writing[q] : w.to # r) => piece = <<n, 1>>

\* The messages that r has received from everybody
Received(r) ==
  Cardinality({i \in 1 .. phase[r] : config.calls[r][i] = "receiving"})
    - IF pc[r] = "receiving" THEN 1 ELSE 0

\* The piece that r reads next from q
ToRead(r, q) == Piece(Received(r) + 1, Len(inbox[r][q]))

\* A wire has the pieces from the next to read to the one before the next to write.
Connects(pieces, first, next) ==
  IF pieces = <<>> THEN first = next
  ELSE /\ pieces[1] = first /\ After(pieces[Len(pieces)]) = next
       /\ \A i \in 1 .. (Len(pieces) - 1) : pieces[i + 1] = After(pieces[i])

Flows(q, r) ==
  r \in Partners(q) =>
    \E piece \in Nat \X (1 .. Pieces) :
      WritesNext(q, r, piece) /\ Connects(wire[q][r], ToRead(r, q), piece)

\* What a receive() has read so far is the beginning of its message.
Reads(r) ==
  \A q \in Ranks :
    /\ pc[r] # "receiving" \/ q \notin Partners(r) => inbox[r][q] = <<>>
    /\ \A i \in 1 .. Len(inbox[r][q]) : inbox[r][q][i] = <<Received(r) + 1, i>>

StreamInv == IInv /\ (\A r \in Ranks : Reads(r)) /\ \A q, r \in Ranks : Flows(q, r)

\* The configuration says both ranks that they are mapped to each other.
LEMMA PartnerOf ==
  ASSUME config \in Configurations, NEW r \in Ranks, NEW q \in Partners(r)
  PROVE  q \in Ranks /\ r \in Partners(q)
<1>1. Admissible(config)
  BY SendQueueAssumption
<1>2. q \in Ranks
  <2>1. mappings[r] \in Seq(Ranks)
    BY AdmissibleConfig
  <2> QED
    BY <2>1 DEF Partners, ToSet
<1> QED
  BY <1>1, <1>2 DEF Admissible, Partners, Ranks, mappings

\* What the pieces to write depend on
LEMMA WritesAlike ==
  ASSUME config' = config, NEW q, NEW r, ioState(q)' = ioState(q), Handed(q, r)' = Handed(q, r),
         NEW piece, WritesNext(q, r, piece)
  PROVE  WritesNext(q, r, piece)'
<1>1. /\ completed'[q] = completed[q] /\ itemQueue'[q] = itemQueue[q]
      /\ writing'[q] = writing[q]
  BY DEF ioState
<1>2. Started(q)' = Started(q) /\ Dispatched(q)' = Dispatched(q)
  BY <1>1 DEF Started, Dispatched, ToSet
<1>3. \A m, k : Piece(m, k)' = Piece(m, k)
  BY DEF Piece, Pieces
<1>4. PICK n \in Nat \ {0} :
        /\ InOrder(q, r, n)
        /\ \A w \in writing[q] : w.to = r => piece = Piece(w.message, w.pieces)
        /\ (\A w \in writing[q] : w.to # r) => piece = <<n, 1>>
  BY DEF WritesNext
<1>5. InOrder(q, r, n)'
  BY <1>1, <1>2, <1>4 DEF InOrder, MessagesTo, Ascending
<1> QED
  BY <1>1, <1>3, <1>4, <1>5 DEF WritesNext

LEMMA HandedAlike ==
  ASSUME config' = config, NEW q, NEW r, solverState(q)' = solverState(q)
  PROVE  Handed(q, r)' = Handed(q, r)
BY DEF solverState, Handed, Sending, Reached, Sent, mappings

LEMMA ReceivedAlike ==
  ASSUME config' = config, NEW r, solverState(r)' = solverState(r)
  PROVE  Received(r)' = Received(r)
BY DEF solverState, Received

\* Another call adds to what is received once it is over.
LEMMA ReceivedGrows ==
  ASSUME TypeOK, config' = config, NEW r \in Ranks
  PROVE  /\ Received(r) \in Int
         /\ UNCHANGED phase /\ pc[r] # "receiving" /\ pc'[r] # "receiving" =>
              Received(r)' = Received(r)
         /\ UNCHANGED phase /\ pc[r] = "receiving" /\ pc'[r] # "receiving" =>
              Received(r)' = Received(r) + 1
         /\ phase'[r] = phase[r] + 1 /\ pc[r] # "receiving"
              /\ pc'[r] = config.calls[r][phase[r] + 1] => Received(r)' = Received(r)
<1> DEFINE n == phase[r]
           gets == {i \in 1 .. n : config.calls[r][i] = "receiving"}
           getsNext == {i \in 1 .. (n + 1) : config.calls[r][i] = "receiving"}
<1>1. n \in Nat /\ IsFiniteSet(1 .. n)
  BY FS_Interval DEF TypeOK
<1>2. IsFiniteSet(gets) /\ n + 1 \notin gets /\ Cardinality(gets) \in Nat
  BY <1>1, FS_Subset, FS_CardinalityType
<1>3. getsNext = IF config.calls[r][n + 1] = "receiving" THEN gets \cup {n + 1} ELSE gets
  BY <1>1
<1>4. Cardinality(gets \cup {n + 1}) = Cardinality(gets) + 1
  BY <1>2, FS_AddElement
<1>5. Received(r) = Cardinality(gets) - IF pc[r] = "receiving" THEN 1 ELSE 0
  BY DEF Received
<1>6. UNCHANGED phase =>
        Received(r)' = Cardinality(gets) - IF pc'[r] = "receiving" THEN 1 ELSE 0
  BY DEF Received
<1>7. phase'[r] = phase[r] + 1 =>
        Received(r)' = Cardinality(getsNext) - IF pc'[r] = "receiving" THEN 1 ELSE 0
  BY DEF Received
<1> HIDE DEF gets, getsNext
<1> QED
  BY <1>2, <1>3, <1>4, <1>5, <1>6, <1>7

\* A receive() that runs is of a message after those received.
LEMMA ReceivedIsNumber ==
  ASSUME TypeOK, NEW r \in Ranks, InCall(r)
  PROVE  /\ Received(r) \in Nat
         /\ pc[r] = "receiving" => Message(r) = Received(r) + 1
         /\ Sending(r) => Sent(r) >= 1
<1> DEFINE n == phase[r]
           In(call) == {i \in 1 .. n : config.calls[r][i] = call}
<1>1. n \in Nat /\ IsFiniteSet(1 .. n)
  BY FS_Interval DEF TypeOK
<1>2. \A call : IsFiniteSet(In(call)) /\ Cardinality(In(call)) \in Nat
  BY <1>1, FS_Subset, FS_CardinalityType
<1>3. ASSUME NEW call, call = Call(r), pc[r] \in Calls \cup {"emplacing"}
      PROVE  Cardinality(In(call)) >= 1
  <2>1. n \in In(call)
    BY <1>1, <1>3 DEF InCall, Call
  <2>2. Cardinality(In(call)) # 0
    BY <1>2, <2>1, FS_EmptySet
  <2> HIDE DEF In
  <2> QED
    BY <1>2, <2>2
<1>4. /\ Received(r) = Cardinality(In("receiving")) - IF pc[r] = "receiving" THEN 1 ELSE 0
      /\ Sent(r) = Cardinality(In("sending")) /\ Message(r) = Cardinality(In(Call(r)))
  BY DEF Received, Sent, Message
<1>5. pc[r] = "receiving" => Call(r) = "receiving"
  BY DEF InCall, Calls
<1>6. Sending(r) => Call(r) = "sending" /\ pc[r] \in Calls \cup {"emplacing"}
  BY DEF InCall, Calls, Sending
<1> HIDE DEF In
<1>7. CASE pc[r] = "receiving"
  <2>1. pc[r] \in Calls /\ ~Sending(r)
    BY <1>7 DEF Calls, Sending
  <2> QED
    BY <1>2, <1>3, <1>4, <1>5, <1>7, <2>1
<1>8. CASE pc[r] # "receiving"
  BY <1>2, <1>3, <1>4, <1>6, <1>8
<1> QED
  BY <1>7, <1>8

\* Steps that leave the wires alone: what is to be read and written next stays.
LEMMA WiresKept ==
  ASSUME StreamInv, IInv', config' = config, wire' = wire, \A r \in Ranks : Reads(r)',
         \A q \in Ranks : \A r \in Partners(q) :
           /\ ToRead(r, q)' = ToRead(r, q)
           /\ \A piece : WritesNext(q, r, piece) => WritesNext(q, r, piece)'
  PROVE  StreamInv'
<1>1. Ranks' = Ranks /\ Pieces' = Pieces /\ \A q : Partners(q)' = Partners(q)
  BY DEF Ranks, Pieces, Partners, mappings
<1>2. ASSUME NEW q \in Ranks, NEW r \in Ranks PROVE Flows(q, r)'
  <2> SUFFICES ASSUME r \in Partners(q)
      PROVE \E piece \in Nat \X (1 .. Pieces) :
              WritesNext(q, r, piece)' /\ Connects(wire[q][r], ToRead(r, q), piece)'
    BY <1>1 DEF Flows
  <2>1. PICK piece \in Nat \X (1 .. Pieces) :
          WritesNext(q, r, piece) /\ Connects(wire[q][r], ToRead(r, q), piece)
    BY DEF StreamInv, Flows
  <2>2. ToRead(r, q)' = ToRead(r, q)
    OBVIOUS
  <2>3. Connects(wire[q][r], ToRead(r, q), piece)'
    <3>1. \A x : After(x)' = After(x)
      BY DEF After, Piece, Pieces
    <3> QED
      BY <2>1, <2>2, <3>1 DEF Connects
  <2> QED
    BY <2>1, <2>3
<1> QED
  BY <1>1, <1>2 DEF StreamInv

\* A rank that is not in receive() has read nothing yet of the message to come.
LEMMA NothingRead ==
  ASSUME config \in Configurations, config' = config, NEW r \in Ranks, Reads(r),
         inbox'[r] = inbox[r], Received(r)' = Received(r),
         pc'[r] = pc[r] \/ \A q \in Ranks : inbox[r][q] = <<>>
  PROVE  Reads(r)' /\ \A q : ToRead(r, q)' = ToRead(r, q)
<1>1. Ranks' = Ranks /\ Partners(r)' = Partners(r) /\ \A m, k : Piece(m, k)' = Piece(m, k)
  BY DEF Ranks, Partners, mappings, Piece, Pieces
<1> QED
  BY <1>1 DEF Reads, ToRead

\* A step of the solver thread that neither queues nor reads
LEMMA QuietSolver ==
  ASSUME StreamInv, IInv', config' = config, NEW s \in Ranks, wire' = wire, inbox' = inbox,
         \A t \in Ranks : ioState(t)' = ioState(t),
         \A t \in Ranks \ {s} : solverState(t)' = solverState(t),
         pc[s] # "receiving", Received(s)' = Received(s),
         \A r \in Partners(s) : Handed(s, r)' = Handed(s, r)
  PROVE  StreamInv'
<1>1. ASSUME NEW r \in Ranks PROVE Reads(r)' /\ \A q : ToRead(r, q)' = ToRead(r, q)
  <2>1. /\ config \in Configurations /\ Reads(r)
    BY DEF StreamInv, IInv, TypeOK
  <2>2. CASE r = s
    <3>1. \A q \in Ranks : inbox[r][q] = <<>>
      BY <2>1, <2>2 DEF Reads
    <3> QED
      BY <2>1, <2>2, <3>1, NothingRead
  <2>3. CASE r # s
    <3>1. solverState(r)' = solverState(r)
      BY <2>3
    <3>2. pc'[r] = pc[r] /\ Received(r)' = Received(r)
      BY <3>1, ReceivedAlike DEF solverState
    <3> QED
      BY <2>1, <3>2, NothingRead
  <2> QED
    BY <2>2, <2>3
<1>2. ASSUME NEW q \in Ranks, NEW r \in Partners(q), NEW piece, WritesNext(q, r, piece)
      PROVE  WritesNext(q, r, piece)'
  <2>1. Handed(q, r)' = Handed(q, r)
    BY HandedAlike
  <2> QED
    BY <1>2, <2>1, WritesAlike
<1>3. \A q \in Ranks : \A r \in Partners(q) : r \in Ranks
  BY PartnerOf DEF StreamInv, IInv, TypeOK
<1> QED
  BY <1>1, <1>2, <1>3, WiresKept

\* send() begins with no mapping reached: what was handed stays.
LEMMA BeginStream ==
  ASSUME StreamInv, IInv', NEW s \in Ranks, Begin(s)
  PROVE  StreamInv'
<1> USE DEF StreamInv, IInv
<1>1. /\ pc[s] = "solving" /\ phase[s] < Len(config.calls[s]) /\ config' = config
      /\ phase' = [phase EXCEPT ![s] = @ + 1]
      /\ pc' = [pc EXCEPT ![s] = config.calls[s][phase[s] + 1]]
      /\ UNCHANGED <<posted, bufferedRequests, completed, queueVars, handler, wire, inbox>>
  BY DEF Begin, MayBegin
<1>2. /\ phase[s] \in Nat /\ phase'[s] = phase[s] + 1 /\ posted'[s] = posted[s]
      /\ pc'[s] = config.calls[s][phase[s] + 1] /\ posted[s] = 0 /\ Sent(s) \in Nat
  <2>1. RankInv(s) /\ Sent(s) \in Nat /\ phase[s] \in Nat
    BY SentIsNumber DEF TypeOK
  <2>2. /\ phase'[s] = phase[s] + 1 /\ pc'[s] = config.calls[s][phase[s] + 1]
        /\ posted'[s] = posted[s]
    BY <1>1 DEF TypeOK
  <2>3. posted[s] = 0
    BY <1>1, <2>1 DEF RankInv, InCall, Sending
  <2> QED
    BY <2>1, <2>2, <2>3
<1>3. config.calls[s][phase[s] + 1] \in Calls
  <2>1. config.calls[s] \in Seq(Calls)
    BY AdmissibleConfig DEF TypeOK
  <2> QED
    BY <1>1, <1>2, <2>1
<1>4. Sent(s)' = IF pc'[s] = "sending" THEN Sent(s) + 1 ELSE Sent(s)
  BY <1>1, <1>2, SentGrows
<1>5. \A r : Handed(s, r)' = Handed(s, r)
  <2>1. ~Sending(s) /\ (Sending(s)' <=> pc'[s] = "sending")
    BY <1>1, <1>2, <1>3 DEF Sending, Calls
  <2>2. pc'[s] # "emplacing" /\ Reached(s)' = {}
    BY <1>2, <1>3 DEF Calls, Reached
  <2> QED
    BY <1>2, <1>4, <2>1, <2>2 DEF Handed
<1>6. Received(s)' = Received(s)
  BY <1>1, <1>2, ReceivedGrows
<1>7. \A t \in Ranks : ioState(t)' = ioState(t) /\ (t # s => solverState(t)' = solverState(t))
  BY <1>1 DEF solverState, ioState, queueVars, TypeOK
<1> QED
  BY <1>1, <1>5, <1>6, <1>7, QuietSolver

\* The mapping reached stays the same.
LEMMA EmplaceStream ==
  ASSUME StreamInv, IInv', NEW s \in Ranks, Emplace(s)
  PROVE  StreamInv'
<1> USE DEF StreamInv, IInv
<1>1. /\ pc[s] = "emplacing" /\ config' = config
      /\ posted' = [posted EXCEPT ![s] = @ + 1] /\ pc' = [pc EXCEPT ![s] = "sending"]
      /\ bufferedRequests' = [bufferedRequests EXCEPT ![s] = @ \cup {Item(s)}]
      /\ UNCHANGED <<phase, completed, queueVars, handler, wire, inbox>>
  BY DEF Emplace
<1>2. pc'[s] = "sending" /\ posted'[s] = posted[s] + 1 /\ posted[s] \in Nat
  BY <1>1 DEF TypeOK
<1>3. Sending(s) /\ Sending(s)' /\ Sent(s)' = Sent(s) /\ mappings' = mappings
  BY <1>1, <1>2 DEF Sending, Sent, mappings
<1>4. Reached(s)' = Reached(s)
  BY <1>1, <1>2, <1>3 DEF Reached
<1>5. \A r : Handed(s, r)' = Handed(s, r)
  BY <1>3, <1>4 DEF Handed
<1>6. Received(s)' = Received(s)
  BY <1>1, <1>2, ReceivedGrows
<1>7. \A t \in Ranks : ioState(t)' = ioState(t) /\ (t # s => solverState(t)' = solverState(t))
  BY <1>1 DEF solverState, ioState, queueVars, TypeOK
<1> QED
  BY <1>1, <1>5, <1>6, <1>7, QuietSolver

\* send() ends with every mapping reached.
LEMMA CheckBufferedRequestsStream ==
  ASSUME StreamInv, IInv', NEW s \in Ranks, CheckBufferedRequests(s)
  PROVE  StreamInv'
<1> USE DEF StreamInv, IInv
<1>1. /\ pc[s] = "sending" /\ posted[s] = Len(mappings[s]) /\ config' = config
      /\ posted' = [posted EXCEPT ![s] = 0] /\ pc' = [pc EXCEPT ![s] = "solving"]
      /\ bufferedRequests' = [bufferedRequests EXCEPT ![s] = @ \ Tested(s)]
      /\ UNCHANGED <<phase, completed, queueVars, handler, wire, inbox>>
  BY DEF CheckBufferedRequests
<1>2. pc'[s] = "solving"
  BY <1>1 DEF TypeOK
<1>3. ~Sending(s)' /\ Sent(s)' = Sent(s)
  BY <1>1, <1>2 DEF Sending, Sent
<1>4. Partners(s) \subseteq Reached(s)
  <2>1. mappings[s] \in Seq(Ranks)
    BY AdmissibleConfig DEF TypeOK
  <2> QED
    BY <1>1, <2>1 DEF Partners, Reached, ToSet
<1>5. \A r \in Partners(s) : Handed(s, r)' = Handed(s, r)
  BY <1>3, <1>4 DEF Handed
<1>6. Received(s)' = Received(s)
  BY <1>1, <1>2, ReceivedGrows
<1>7. \A t \in Ranks : ioState(t)' = ioState(t) /\ (t # s => solverState(t)' = solverState(t))
  BY <1>1 DEF solverState, ioState, queueVars, TypeOK
<1> QED
  BY <1>1, <1>5, <1>6, <1>7, QuietSolver

\* Closing changes nothing of what is under way.
LEMMA CloseStream ==
  ASSUME StreamInv, IInv', NEW s \in Ranks, Close(s) \/ Join(s)
  PROVE  StreamInv'
<1> USE DEF StreamInv, IInv
<1>1. /\ pc[s] \in {"solving", "joining"} /\ config' = config
      /\ \E place \in {"joining", "closed"} : pc' = [pc EXCEPT ![s] = place]
      /\ \A t \in Ranks \ {s} : bufferedRequests'[t] = bufferedRequests[t]
      /\ UNCHANGED <<phase, posted, completed, queueVars, handler, wire, inbox>>
  BY DEF Close, Join, TypeOK
<1>2. pc'[s] \in {"joining", "closed"}
  BY <1>1 DEF TypeOK
<1>3. \A r : Handed(s, r)' = Handed(s, r)
  BY <1>1, <1>2 DEF Handed, Sending, Sent
<1>4. Received(s)' = Received(s)
  BY <1>1, <1>2, ReceivedGrows
<1>5. \A t \in Ranks : ioState(t)' = ioState(t) /\ (t # s => solverState(t)' = solverState(t))
  BY <1>1 DEF solverState, ioState, queueVars, TypeOK
<1> QED
  BY <1>1, <1>3, <1>4, <1>5, QuietSolver

\* receive() returns with the last piece of each message read: the next is the
\* first of the next.
LEMMA ReceiveReturnsStream ==
  ASSUME StreamInv, IInv', NEW s \in Ranks, ReceiveReturns(s)
  PROVE  StreamInv'
<1> USE DEF StreamInv, IInv
<1>1. /\ pc[s] = "receiving" /\ \A q \in Partners(s) : Len(inbox[s][q]) = Pieces
      /\ inbox' = [inbox EXCEPT ![s] = [q \in Ranks |-> <<>>]]
      /\ pc' = [pc EXCEPT ![s] = "solving"] /\ config' = config
      /\ UNCHANGED <<phase, posted, bufferedRequests, completed, queueVars, handler, wire>>
  BY DEF ReceiveReturns
<1>2. /\ pc'[s] = "solving" /\ inbox'[s] = [q \in Ranks |-> <<>>] /\ Pieces \in Nat \ {0}
      /\ config \in Configurations
  BY <1>1, AdmissibleConfig DEF TypeOK
<1>3. Received(s)' = Received(s) + 1 /\ Received(s) \in Int
  BY <1>1, <1>2, ReceivedGrows
<1>4. /\ \A t \in Ranks : ioState(t)' = ioState(t) /\ (t # s => solverState(t)' = solverState(t))
      /\ \A t \in Ranks \ {s} : inbox'[t] = inbox[t]
  BY <1>1 DEF solverState, ioState, queueVars, TypeOK
<1>5. Ranks' = Ranks /\ \A m, k : Piece(m, k)' = Piece(m, k)
  BY <1>1 DEF Ranks, Piece, Pieces
<1>6. ASSUME NEW r \in Ranks
      PROVE  Reads(r)' /\ \A q \in Partners(r) : ToRead(r, q)' = ToRead(r, q)
  <2>1. CASE r = s
    <3>1. \A q \in Ranks : inbox'[r][q] = <<>> /\ Len(inbox'[r][q]) = 0
      BY <1>2, <2>1
    <3>2. Reads(r)'
      BY <1>5, <3>1 DEF Reads
    <3>3. ASSUME NEW q \in Partners(r) PROVE ToRead(r, q)' = ToRead(r, q)
      <4>1. q \in Ranks
        BY <1>2, PartnerOf
      <4>2. ToRead(r, q)' = Piece(Received(s) + 1 + 1, 0)
        BY <1>3, <1>5, <2>1, <3>1, <4>1 DEF ToRead
      <4>3. ToRead(r, q) = Piece(Received(s) + 1, Pieces)
        BY <1>1, <2>1 DEF ToRead
      <4> QED
        BY <1>2, <1>3, <4>2, <4>3 DEF Piece
    <3> QED
      BY <3>2, <3>3
  <2>2. CASE r # s
    <3>1. solverState(r)' = solverState(r) /\ inbox'[r] = inbox[r] /\ Reads(r)
      BY <1>4, <2>2
    <3>2. pc'[r] = pc[r] /\ Received(r)' = Received(r)
      BY <1>1, <3>1, ReceivedAlike DEF solverState
    <3> QED
      BY <1>1, <1>2, <3>1, <3>2, NothingRead
  <2> QED
    BY <2>1, <2>2
<1>7. ASSUME NEW q \in Ranks, NEW r \in Partners(q), NEW piece, WritesNext(q, r, piece)
      PROVE  WritesNext(q, r, piece)'
  <2>1. CASE q = s
    <3>1. Handed(q, r)' = Handed(q, r)
      BY <1>1, <1>2, <2>1 DEF Handed, Sending, Sent
    <3> QED
      BY <1>1, <1>4, <1>7, <3>1, WritesAlike
  <2>2. CASE q # s
    BY <1>1, <1>4, <1>7, <2>2, HandedAlike, WritesAlike
  <2> QED
    BY <2>1, <2>2
<1>8. \A q \in Ranks : \A r \in Partners(q) : r \in Ranks /\ q \in Partners(r)
  BY <1>2, PartnerOf
<1> QED
  BY <1>1, <1>6, <1>7, <1>8, WiresKept

\* What process() leaves of the queue is in its order, and the write that it
\* begins is of the first message that is not complete.
LEMMA ProcessOrder ==
  ASSUME TypeOK, config' = config, NEW s \in Ranks, NEW r, NEW items \in Seq(Items),
         NEW done \in BOOLEAN, CanProcess(s, items, done), Process(s, items, done),
         completed' = completed, NEW handed \in Nat, Handed(s, r)' = handed,
         MessagesTo(ToSet(items) \cup Started(s) \cup completed[s], r) = 1 .. handed,
         ToSet(items) \cap completed[s] = {}, Ascending(items, r),
         NEW n \in Nat \ {0}, MessagesTo(completed[s], r) = 1 .. (n - 1),
         MessagesTo(Started(s), r) \subseteq {n},
         NEW piece,
         \A w \in writing[s] : w.to = r => piece = Piece(w.message, w.pieces),
         (\A w \in writing[s] : w.to # r) => piece = <<n, 1>>
  PROVE  WritesNext(s, r, piece)'
<1>1. ToSet(itemQueue'[s]) \cup Started(s)' = ToSet(items) \cup Started(s)
  BY ProcessStep
<1>2. Pieces \in Nat \ {0} /\ \A m, k : Piece(m, k)' = Piece(m, k)
  BY AdmissibleConfig DEF TypeOK, Piece, Pieces
<1>3. MessagesTo(Dispatched(s), r)' = 1 .. handed
  BY <1>1 DEF Dispatched, MessagesTo, ToSet
<1>4. MessagesTo(completed[s], r)' = 1 .. (n - 1)
  BY DEF MessagesTo
<1>5. CASE ~done \/ items = <<>>
  <2>1. itemQueue'[s] = items /\ writing' = writing
    BY <1>5 DEF Process, TypeOK
  <2>2. MessagesTo(Started(s), r)' \subseteq {n} /\ Ascending(itemQueue[s], r)'
    BY <2>1 DEF Started, MessagesTo, Ascending
  <2>3. InOrder(s, r, n)'
    BY <1>3, <1>4, <2>2 DEF InOrder
  <2> QED
    BY <1>2, <2>1, <2>3 DEF WritesNext
<1>6. CASE done /\ items # <<>>
  <2> DEFINE x == Head(items)
             new == [to |-> x.to, message |-> x.message, pieces |-> 0]
  <2>1. itemQueue'[s] = Tail(items) /\ writing[s] = {} /\ writing'[s] = {new}
    BY <1>6 DEF Process, CanProcess, TypeOK
  <2>2. x \in Items /\ Len(items) \in Nat \ {0} /\ x = items[1]
    BY <1>6
  <2>3. AsItem(new) = x
    BY <2>2 DEF AsItem, Items
  <2>4. Started(s) = {} /\ Started(s)' = {x}
    BY <2>1, <2>3 DEF Started
  <2>5. Ascending(itemQueue[s], r)'
    <3>1. /\ Len(Tail(items)) = Len(items) - 1
          /\ \A i \in 1 .. Len(Tail(items)) :
               Tail(items)[i] = items[i + 1] /\ i + 1 \in 1 .. Len(items)
      BY <2>2
    <3> QED
      BY <2>1, <2>2, <3>1 DEF Ascending
  <2>6. x.to = r => x.message = n
    <3> SUFFICES ASSUME x.to = r PROVE x.message = n
      OBVIOUS
    <3>1. x \in ToSet(items) /\ x \notin completed[s]
      BY <2>2 DEF ToSet
    <3>2. x.message \in 1 .. handed
      BY <3>1 DEF MessagesTo
    <3>3. x.message \notin 1 .. (n - 1)
      <4> SUFFICES ASSUME x.message \in 1 .. (n - 1) PROVE FALSE
        OBVIOUS
      <4>1. PICK y \in completed[s] : y.to = r /\ y.message = x.message
        BY DEF MessagesTo
      <4>2. y \in Items
        BY DEF TypeOK
      <4>3. /\ y = [to |-> y.to, message |-> y.message]
            /\ x = [to |-> x.to, message |-> x.message]
        BY <2>2, <4>2 DEF Items
      <4> HIDE DEF x
      <4>4. y = x
        BY <3>1, <4>1, <4>3
      <4> QED
        BY <3>1, <4>1, <4>4
    <3>4. n \in 1 .. handed
      BY <3>2, <3>3
    <3>5. PICK y \in ToSet(items) \cup completed[s] : y.to = r /\ y.message = n
      BY <2>4, <3>4 DEF MessagesTo
    <3>6. y \in ToSet(items)
      <4> SUFFICES ASSUME y \in completed[s] PROVE FALSE
        BY <3>5
      <4>1. n \in 1 .. (n - 1)
        BY <3>5 DEF MessagesTo
      <4> QED
        BY <4>1
    <3>7. PICK j \in 1 .. Len(items) : items[j] = y
      BY <2>2, <3>6 DEF ToSet
    <3>8. CASE j = 1
      BY <2>2, <3>5, <3>7, <3>8
    <3>9. CASE j > 1
      <4>1. x.message < n
        BY <2>2, <3>5, <3>7, <3>9 DEF Ascending
      <4> QED
        BY <3>2, <3>3, <4>1
    <3> QED
      BY <3>7, <3>8, <3>9
  <2> HIDE DEF x
  <2>7. MessagesTo(Started(s), r)' \subseteq {n}
    BY <2>4, <2>6 DEF MessagesTo
  <2>8. InOrder(s, r, n)'
    BY <1>3, <1>4, <2>5, <2>7 DEF InOrder
  <2>9. piece = <<n, 1>> /\ (x.to = r => piece = Piece(x.message, 0))
    BY <1>2, <2>1, <2>6 DEF Piece
  <2>10. new.to = x.to /\ new.message = x.message /\ new.pieces = 0
    OBVIOUS
  <2> HIDE DEF new
  <2>11. /\ \A w \in writing'[s] : w.to = r => piece = Piece(w.message, w.pieces)
         /\ (\A w \in writing'[s] : w.to # r) => piece = <<n, 1>>
    BY <2>1, <2>9, <2>10
  <2> QED
    BY <1>2, <2>8, <2>11 DEF WritesNext
<1> QED
  BY <1>5, <1>6

\* A step that only changes what rank s has to write
LEMMA OnlyWrites ==
  ASSUME StreamInv, IInv', config' = config, NEW s \in Ranks, wire' = wire, inbox' = inbox,
         phase' = phase, pc'[s] = pc[s] \/ "receiving" \notin {pc[s], pc'[s]},
         \A t \in Ranks \ {s} : solverState(t)' = solverState(t) /\ ioState(t)' = ioState(t),
         \A r \in Partners(s) : \A piece : WritesNext(s, r, piece) => WritesNext(s, r, piece)'
  PROVE  StreamInv'
<1>1. config \in Configurations /\ TypeOK
  BY DEF StreamInv, IInv, TypeOK
<1>2. ASSUME NEW r \in Ranks PROVE Reads(r)' /\ \A q : ToRead(r, q)' = ToRead(r, q)
  <2>1. Received(r)' = Received(r)
    BY <1>1, ReceivedGrows, ReceivedAlike DEF Received
  <2>2. pc'[r] = pc[r] \/ \A q \in Ranks : inbox[r][q] = <<>>
    BY DEF StreamInv, Reads, solverState
  <2> QED
    BY <1>1, <2>1, <2>2, NothingRead DEF StreamInv
<1>3. ASSUME NEW q \in Ranks, NEW r \in Partners(q), NEW piece, WritesNext(q, r, piece)
      PROVE  WritesNext(q, r, piece)'
  <2>1. CASE q = s
    BY <1>3, <2>1
  <2>2. CASE q # s
    <3>1. ioState(q)' = ioState(q) /\ Handed(q, r)' = Handed(q, r)
      BY <2>2, HandedAlike
    <3> QED
      BY <1>3, <3>1, WritesAlike
  <2> QED
    BY <2>1, <2>2
<1>4. \A q \in Ranks : \A r \in Partners(q) : r \in Ranks
  BY <1>1, PartnerOf
<1> QED
  BY <1>2, <1>3, <1>4, WiresKept

\* The message that is handed over is the one after those handed over before.
LEMMA DispatchStream ==
  ASSUME StreamInv, IInv', NEW s \in Ranks, Dispatch(s)
  PROVE  StreamInv'
<1> USE DEF StreamInv, IInv
<1> DEFINE x == Item(s)
           items == Append(itemQueue[s], x)
<1>1. /\ pc[s] = "sending" /\ posted[s] < Len(mappings[s]) /\ config' = config
      /\ Process(s, items, ready[s]) /\ pc' = [pc EXCEPT ![s] = "emplacing"]
      /\ UNCHANGED <<phase, posted, bufferedRequests, completed, handler, wire, inbox>>
  BY DEF Dispatch, Appended
<1>2. /\ pc'[s] = "emplacing" /\ posted'[s] = posted[s] /\ posted[s] \in Nat
      /\ itemQueue[s] \in Seq(Items) /\ ready[s] \in BOOLEAN /\ handler'[s] = handler[s]
  BY <1>1 DEF TypeOK
<1>3. /\ x \in Items /\ x \notin Dispatched(s) /\ x.message = Sent(s)
      /\ x.to = mappings[s][posted[s] + 1]
  BY <1>1, NextItemIsNew
<1> HIDE DEF x
<1>4. /\ items \in Seq(Items) /\ Len(items) = Len(itemQueue[s]) + 1 /\ items[Len(items)] = x
      /\ Len(itemQueue[s]) \in Nat /\ \A i \in 1 .. Len(itemQueue[s]) : items[i] = itemQueue[s][i]
  BY <1>2, <1>3
<1> HIDE DEF items
<1>5. ToSet(items) = ToSet(itemQueue[s]) \cup {x} /\ IsInjective(items)
  <2>1. IsInjective(itemQueue[s]) /\ x \notin ToSet(itemQueue[s])
    BY <1>3 DEF RankInv, Once, Dispatched
  <2> QED
    BY <1>2, <1>3, <2>1, AppendNew DEF items
<1>6. CanProcess(s, items, ready[s])
  <2>1. IsInjective(items)
    BY <1>5
  <2>2. ToSet(items) \cap Started(s) = {}
    BY <1>3, <1>5 DEF RankInv, Once, Dispatched
  <2> QED
    BY <1>2, <2>1, <2>2 DEF CanProcess, RankInv, OneWrite
<1>7. Sending(s) /\ Sending(s)' /\ Sent(s)' = Sent(s) /\ Sent(s) \in Nat /\ Sent(s) >= 1
  BY <1>1, <1>2, SentIsNumber, ReceivedIsNumber DEF Sending, Sent, RankInv
<1>8. x.to \notin Reached(s) /\ Reached(s)' = Reached(s) \cup {x.to}
  <2>1. mappings[s] \in Seq(Ranks) /\ IsInjective(mappings[s]) /\ mappings' = mappings
    BY <1>1, AdmissibleConfig DEF TypeOK, mappings
  <2>2. /\ Reached(s) = {mappings[s][i] : i \in 1 .. posted[s]}
        /\ Reached(s)' = {mappings[s][i] : i \in 1 .. (posted[s] + 1)}
    BY <1>1, <1>2, <2>1 DEF Reached
  <2>3. \A i \in 1 .. posted[s] : mappings[s][i] # mappings[s][posted[s] + 1]
    BY <1>1, <1>2, <2>1 DEF IsInjective
  <2>4. \A i \in 1 .. (posted[s] + 1) : i = posted[s] + 1 \/ i \in 1 .. posted[s]
    BY <1>2
  <2>5. posted[s] + 1 \in 1 .. (posted[s] + 1) /\ 1 .. posted[s] \subseteq 1 .. (posted[s] + 1)
    BY <1>2
  <2> QED
    BY <1>3, <2>2, <2>3, <2>4, <2>5
<1>9. ASSUME NEW r \in Partners(s), NEW piece, WritesNext(s, r, piece)
      PROVE  WritesNext(s, r, piece)'
  <2>1. PICK n \in Nat \ {0} :
          /\ InOrder(s, r, n)
          /\ \A w \in writing[s] : w.to = r => piece = Piece(w.message, w.pieces)
          /\ (\A w \in writing[s] : w.to # r) => piece = <<n, 1>>
    BY <1>9 DEF WritesNext
  <2>2. /\ Handed(s, r)' \in Nat
        /\ Handed(s, r)' = IF r = x.to THEN Handed(s, r) + 1 ELSE Handed(s, r)
        /\ r = x.to => x.message = Handed(s, r) + 1
    BY <1>3, <1>7, <1>8 DEF Handed
  <2>3. MessagesTo(ToSet(items) \cup Started(s) \cup completed[s], r) = 1 .. Handed(s, r)'
    <3>1. ToSet(items) \cup Started(s) \cup completed[s] = Dispatched(s) \cup {x}
      BY <1>5 DEF Dispatched
    <3>2. MessagesTo(Dispatched(s) \cup {x}, r) =
            MessagesTo(Dispatched(s), r) \cup IF r = x.to THEN {x.message} ELSE {}
      BY DEF MessagesTo
    <3>3. MessagesTo(Dispatched(s), r) = 1 .. Handed(s, r)
      BY <2>1 DEF InOrder
    <3>4. Handed(s, r) \in Int /\ (r = x.to => Handed(s, r) \in Nat)
      BY <1>7 DEF Handed
    <3>5. CASE r = x.to
      <4>1. \A h \in Nat : (1 .. h) \cup {h + 1} = 1 .. (h + 1)
        OBVIOUS
      <4> QED
        BY <2>2, <3>1, <3>2, <3>3, <3>4, <3>5, <4>1
    <3>6. CASE r # x.to
      BY <2>2, <3>1, <3>2, <3>3, <3>6
    <3> QED
      BY <3>5, <3>6
  <2>4. ToSet(items) \cap completed[s] = {}
    BY <1>3, <1>5 DEF RankInv, Once, Dispatched
  <2>5. Ascending(items, r)
    <3> SUFFICES ASSUME NEW i \in 1 .. Len(items), NEW j \in 1 .. Len(items), i < j,
                        items[i].to = r, items[j].to = r
                 PROVE  items[i].message < items[j].message
      BY DEF Ascending
    <3>1. i \in 1 .. Len(itemQueue[s]) /\ items[i] = itemQueue[s][i]
      BY <1>4
    <3>2. CASE j \in 1 .. Len(itemQueue[s])
      BY <1>4, <2>1, <3>1, <3>2 DEF InOrder, Ascending
    <3>3. CASE j = Len(items)
      <4>1. items[j] = x /\ x.to = r
        BY <1>4, <3>3
      <4>2. items[i] \in Dispatched(s)
        BY <1>2, <3>1 DEF Dispatched, ToSet
      <4>3. items[i].message \in 1 .. Handed(s, r)
        BY <2>1, <4>2 DEF InOrder, MessagesTo
      <4>4. Handed(s, r) \in Int
        BY <1>7 DEF Handed
      <4> QED
        BY <2>2, <4>1, <4>3, <4>4
    <3> QED
      BY <1>4, <3>2, <3>3
  <2>6. completed' = completed
    BY <1>1
  <2> QED
    BY <1>1, <1>2, <1>4, <1>6, <2>1, <2>2, <2>3, <2>4, <2>5, <2>6, ProcessOrder DEF InOrder
<1>10. \A t \in Ranks \ {s} : solverState(t)' = solverState(t) /\ ioState(t)' = ioState(t)
  <2>1. \A t \in Ranks \ {s} : /\ itemQueue'[t] = itemQueue[t] /\ ready'[t] = ready[t]
                               /\ writing'[t] = writing[t]
    BY <1>1, <1>2, <1>4, <1>6, ProcessStep
  <2> QED
    BY <1>1, <2>1 DEF solverState, ioState, TypeOK
<1> QED
  BY <1>1, <1>2, <1>9, <1>10, OnlyWrites

\* The handler starts the next write with the order kept.
LEMMA SendCompletedStream ==
  ASSUME StreamInv, IInv', NEW s \in Ranks, SendCompleted(s)
  PROVE  StreamInv'
<1> USE DEF StreamInv, IInv
<1>1. /\ handler[s] /\ config' = config /\ handler' = [handler EXCEPT ![s] = FALSE]
      /\ Process(s, itemQueue[s], TRUE) /\ UNCHANGED <<solverVars, completed, wire, inbox>>
  BY DEF SendCompleted
<1>2. handler'[s] = FALSE /\ writing[s] = {} /\ itemQueue[s] \in Seq(Items)
  BY <1>1 DEF TypeOK, RankInv, OneWrite
<1>3. CanProcess(s, itemQueue[s], TRUE)
  BY <1>2 DEF CanProcess, RankInv, Once
<1>4. solverState(s)' = solverState(s) /\ phase' = phase /\ pc' = pc
  BY <1>1 DEF solverVars, solverState
<1>5. ASSUME NEW r \in Partners(s), NEW piece, WritesNext(s, r, piece)
      PROVE  WritesNext(s, r, piece)'
  <2>1. PICK n \in Nat \ {0} :
          /\ InOrder(s, r, n)
          /\ \A w \in writing[s] : w.to = r => piece = Piece(w.message, w.pieces)
          /\ (\A w \in writing[s] : w.to # r) => piece = <<n, 1>>
    BY <1>5 DEF WritesNext
  <2>2. Handed(s, r)' = Handed(s, r) /\ Handed(s, r) \in Nat
    <3>1. Handed(s, r)' = Handed(s, r)
      BY <1>1, <1>4, HandedAlike
    <3>2. Sent(s) \in Nat /\ (Sending(s) => Sent(s) >= 1)
      BY SentIsNumber, ReceivedIsNumber DEF RankInv
    <3> QED
      BY <3>1, <3>2 DEF Handed
  <2>3. completed' = completed /\ ToSet(itemQueue[s]) \cap completed[s] = {}
    BY <1>1 DEF RankInv, Once
  <2>4. ToSet(itemQueue[s]) \cup Started(s) \cup completed[s] = Dispatched(s)
    BY DEF Dispatched
  <2> QED
    BY <1>1, <1>2, <1>3, <2>1, <2>2, <2>3, <2>4, ProcessOrder DEF InOrder
<1>6. \A t \in Ranks \ {s} : solverState(t)' = solverState(t) /\ ioState(t)' = ioState(t)
  <2>1. \A t \in Ranks \ {s} : /\ itemQueue'[t] = itemQueue[t] /\ ready'[t] = ready[t]
                               /\ writing'[t] = writing[t]
    BY <1>1, <1>2, <1>3, ProcessStep
  <2> QED
    BY <1>1, <2>1 DEF solverState, ioState, solverVars, TypeOK
<1> QED
  BY <1>1, <1>4, <1>5, <1>6, OnlyWrites

\* The write that is complete was of message n: now it is the next.
LEMMA CallbackStream ==
  ASSUME StreamInv, IInv', NEW s \in Ranks, NEW w \in writing[s], Callback(s, w)
  PROVE  StreamInv'
<1> USE DEF StreamInv, IInv
<1>1. /\ w.pieces = Pieces /\ config' = config
      /\ completed' = [completed EXCEPT ![s] = @ \cup {AsItem(w)}]
      /\ writing' = [writing EXCEPT ![s] = @ \ {w}]
      /\ handler' = [handler EXCEPT ![s] = TRUE]
      /\ UNCHANGED <<solverVars, itemQueue, ready, wire, inbox>>
  BY DEF Callback, AsItem
<1>2. /\ writing[s] = {w} /\ writing'[s] = {} /\ w \in Writes
      /\ completed'[s] = completed[s] \cup {AsItem(w)} /\ itemQueue'[s] = itemQueue[s]
  BY <1>1 DEF RankInv, OneWrite, TypeOK
<1>3. Started(s) = {AsItem(w)} /\ Started(s)' = {}
  BY <1>2 DEF Started
<1>4. AsItem(w).to = w.to /\ AsItem(w).message = w.message /\ w.message \in Nat
  BY <1>2 DEF AsItem, Writes
<1>5. /\ solverState(s)' = solverState(s) /\ phase' = phase /\ pc' = pc
      /\ Dispatched(s)' = Dispatched(s)
  BY <1>1, <1>2, <1>3 DEF solverVars, solverState, Dispatched
<1>6. \A t \in Ranks \ {s} : solverState(t)' = solverState(t) /\ ioState(t)' = ioState(t)
  BY <1>1 DEF solverState, ioState, solverVars, TypeOK
<1>7. ASSUME NEW r \in Partners(s), NEW piece, WritesNext(s, r, piece)
      PROVE  WritesNext(s, r, piece)'
  <2>1. PICK n \in Nat \ {0} :
          /\ InOrder(s, r, n)
          /\ \A v \in writing[s] : v.to = r => piece = Piece(v.message, v.pieces)
          /\ (\A v \in writing[s] : v.to # r) => piece = <<n, 1>>
    BY <1>7 DEF WritesNext
  <2>2. Handed(s, r)' = Handed(s, r)
    BY <1>1, <1>5, HandedAlike
  <2>3. /\ MessagesTo(Dispatched(s), r)' = 1 .. Handed(s, r)' /\ Ascending(itemQueue[s], r)'
        /\ MessagesTo(Started(s), r)' = {}
    BY <1>2, <1>3, <1>5, <2>1, <2>2 DEF InOrder, MessagesTo, Ascending
  <2>4. MessagesTo(completed[s], r)' =
          MessagesTo(completed[s], r) \cup IF w.to = r THEN {w.message} ELSE {}
    BY <1>2, <1>4 DEF MessagesTo
  <2>5. CASE w.to = r
    <3>1. w.message = n
      BY <1>3, <1>4, <2>1, <2>5 DEF InOrder, MessagesTo
    <3>2. MessagesTo(completed[s], r)' = 1 .. ((n + 1) - 1)
      BY <2>1, <2>4, <2>5, <3>1 DEF InOrder
    <3>3. piece = <<n + 1, 1>>
      <4>1. Pieces \in Nat
        BY AdmissibleConfig DEF TypeOK
      <4> QED
        BY <1>1, <2>1, <2>5, <3>1, <4>1 DEF Piece
    <3>4. InOrder(s, r, n + 1)' /\ n + 1 \in Nat \ {0}
      BY <2>3, <3>2 DEF InOrder
    <3> QED
      BY <1>2, <3>3, <3>4 DEF WritesNext
  <2>6. CASE w.to # r
    <3>1. InOrder(s, r, n)'
      BY <2>1, <2>3, <2>4, <2>6 DEF InOrder
    <3> QED
      BY <1>2, <2>1, <2>6, <3>1 DEF WritesNext
  <2> QED
    BY <2>5, <2>6
<1> QED
  BY <1>1, <1>5, <1>6, <1>7, OnlyWrites

\* A wire after a piece was written to it
LEMMA WireLonger ==
  ASSUME NEW S, NEW pieces \in Seq(S), NEW p \in S, NEW first, Connects(pieces, first, p)
  PROVE  Connects(Append(pieces, p), first, After(p))
<1> DEFINE longer == Append(pieces, p)
           n == Len(pieces)
<1>1. /\ n \in Nat /\ Len(longer) = n + 1 /\ longer[n + 1] = p /\ longer # <<>>
      /\ \A i \in 1 .. n : longer[i] = pieces[i]
  OBVIOUS
<1>2. longer[1] = first
  BY <1>1 DEF Connects
<1>3. ASSUME NEW i \in 1 .. n PROVE longer[i + 1] = After(longer[i])
  <2>1. pieces # <<>>
    BY <1>3
  <2>2. CASE i = n
    <3>1. longer[i] = pieces[n] /\ longer[i + 1] = p
      BY <1>1, <2>2
    <3> QED
      BY <2>1, <3>1 DEF Connects
  <2>3. CASE i \in 1 .. (n - 1)
    <3>1. longer[i] = pieces[i] /\ longer[i + 1] = pieces[i + 1]
      BY <1>1, <2>3
    <3> QED
      BY <2>1, <2>3, <3>1 DEF Connects
  <2> QED
    BY <1>1, <2>2, <2>3
<1> HIDE DEF longer, n
<1> QED
  BY <1>1, <1>2, <1>3 DEF Connects, longer

\* A wire after its first piece was read
LEMMA WireShorter ==
  ASSUME NEW S, NEW pieces \in Seq(S), pieces # <<>>, NEW first, NEW next,
         Connects(pieces, first, next)
  PROVE  Head(pieces) = first /\ Connects(Tail(pieces), After(first), next)
<1> DEFINE rest == Tail(pieces)
           n == Len(pieces)
<1>1. /\ n \in Nat \ {0} /\ Len(rest) = n - 1 /\ Head(pieces) = pieces[1]
      /\ rest \in Seq(S) /\ \A i \in 1 .. (n - 1) : rest[i] = pieces[i + 1]
  OBVIOUS
<1>2. /\ pieces[1] = first /\ After(pieces[n]) = next
      /\ \A i \in 1 .. (n - 1) : pieces[i + 1] = After(pieces[i])
  BY DEF Connects
<1> HIDE DEF rest, n
<1>3. CASE n = 1
  <2>1. rest = <<>>
    BY <1>1, <1>3
  <2> QED
    BY <1>1, <1>2, <1>3, <2>1 DEF Connects, rest
<1>4. CASE n > 1
  <2>1. rest # <<>> /\ rest[1] = After(first) /\ After(rest[Len(rest)]) = next
    BY <1>1, <1>2, <1>4
  <2>2. \A i \in 1 .. (Len(rest) - 1) : rest[i + 1] = After(rest[i])
    BY <1>1, <1>2
  <2> QED
    BY <1>1, <1>2, <2>1, <2>2 DEF Connects, rest
<1> QED
  BY <1>1, <1>3, <1>4

\* The wire gets the piece that was next.
LEMMA WritePieceStream ==
  ASSUME StreamInv, IInv', NEW s \in Ranks, NEW w \in writing[s], WritePiece(s, w)
  PROVE  StreamInv'
<1> USE DEF StreamInv, IInv
<1> DEFINE more == [w EXCEPT !.pieces = @ + 1]
           p == <<w.message, w.pieces + 1>>
<1>1. /\ w.pieces < Pieces /\ config' = config
      /\ wire' = [wire EXCEPT ![s][w.to] = Append(@, p)]
      /\ writing' = [writing EXCEPT ![s] = (@ \ {w}) \cup {more}]
      /\ UNCHANGED <<solverVars, completed, itemQueue, ready, handler, inbox>>
  BY DEF WritePiece
<1>2. /\ w \in Writes /\ w.to \in Ranks /\ w.message \in Nat /\ w.pieces \in 0 .. Pieces
      /\ Pieces \in Nat \ {0} /\ config \in Configurations
  BY WritesOfRank
<1>3. /\ more.to = w.to /\ more.message = w.message /\ more.pieces = w.pieces + 1
      /\ AsItem(more) = AsItem(w)
  BY <1>2 DEF Writes, AsItem
<1>4. p \in Nat \X (1 .. Pieces) /\ p = Piece(w.message, w.pieces)
      /\ After(p) = Piece(w.message, w.pieces + 1) /\ After(p) \in Nat \X (1 .. Pieces)
  <2>1. w.pieces + 1 \in 1 .. Pieces /\ w.message + 1 \in Nat /\ 1 \in 1 .. Pieces
    BY <1>1, <1>2
  <2>2. p = Piece(w.message, w.pieces) /\ After(p) = Piece(w.message, w.pieces + 1)
    BY <1>1, <1>2, <2>1 DEF Piece, After
  <2> QED
    BY <1>1, <1>2, <2>1, <2>2 DEF Piece
<1> HIDE DEF more, p
<1>5. writing[s] = {w} /\ writing'[s] = {more}
  <2>1. writing[s] = {w}
    BY DEF RankInv, OneWrite
  <2>2. writing'[s] = (writing[s] \ {w}) \cup {more}
    BY <1>1 DEF TypeOK
  <2> QED
    BY <2>1, <2>2
<1>6. Started(s)' = Started(s)
  BY <1>3, <1>5 DEF Started
<1>7. /\ \A t \in Ranks : solverState(t)' = solverState(t) /\ inbox'[t] = inbox[t]
      /\ \A t \in Ranks \ {s} : ioState(t)' = ioState(t)
      /\ completed'[s] = completed[s] /\ itemQueue'[s] = itemQueue[s]
  BY <1>1 DEF solverState, ioState, solverVars, TypeOK
<1>8. /\ Ranks' = Ranks /\ Pieces' = Pieces /\ \A q : Partners(q)' = Partners(q)
      /\ \A m, k : Piece(m, k)' = Piece(m, k)
  BY <1>1 DEF Ranks, Pieces, Partners, mappings, Piece
<1>9. ASSUME NEW r \in Ranks PROVE Reads(r)' /\ \A q : ToRead(r, q)' = ToRead(r, q)
  BY <1>1, <1>2, <1>7, ReceivedAlike, NothingRead DEF solverState
<1>10. ASSUME NEW r, NEW piece, WritesNext(s, r, piece)
       PROVE  /\ WritesNext(s, r, IF w.to = r THEN After(p) ELSE piece)'
              /\ w.to = r => piece = p
  <2>1. PICK n \in Nat \ {0} :
          /\ InOrder(s, r, n)
          /\ \A v \in writing[s] : v.to = r => piece = Piece(v.message, v.pieces)
          /\ (\A v \in writing[s] : v.to # r) => piece = <<n, 1>>
    BY <1>10 DEF WritesNext
  <2>2. Handed(s, r)' = Handed(s, r) /\ Dispatched(s)' = Dispatched(s)
    BY <1>1, <1>6, <1>7, HandedAlike DEF Dispatched
  <2>3. InOrder(s, r, n)'
    BY <1>6, <1>7, <2>1, <2>2 DEF InOrder, MessagesTo, Ascending
  <2>4. w.to = r => piece = p
    BY <1>4, <1>5, <2>1
  <2>5. CASE w.to = r
    <3>1. After(p)' = After(p) /\ After(p) = Piece(more.message, more.pieces)
      BY <1>1, <1>3, <1>4, <1>8 DEF After, p
    <3> QED
      BY <1>3, <1>4, <1>5, <1>8, <2>3, <2>4, <2>5, <3>1 DEF WritesNext
  <2>6. CASE w.to # r
    BY <1>3, <1>5, <2>1, <2>3, <2>4, <2>6 DEF WritesNext
  <2> QED
    BY <2>4, <2>5, <2>6
<1>11. ASSUME NEW q \in Ranks, NEW r \in Ranks PROVE Flows(q, r)'
  <2> SUFFICES ASSUME r \in Partners(q)
      PROVE \E piece \in Nat \X (1 .. Pieces) :
              WritesNext(q, r, piece)' /\ Connects(wire[q][r], ToRead(r, q), piece)'
    BY <1>8 DEF Flows
  <2>1. PICK piece \in Nat \X (1 .. Pieces) :
          WritesNext(q, r, piece) /\ Connects(wire[q][r], ToRead(r, q), piece)
    BY DEF Flows
  <2>2. ToRead(r, q)' = ToRead(r, q) /\ \A x : After(x)' = After(x)
    BY <1>8, <1>9 DEF After
  <2>3. CASE q = s /\ r = w.to
    <3>1. WritesNext(q, r, After(p))' /\ piece = p
      BY <1>10, <2>1, <2>3
    <3>2. wire'[q][r] = Append(wire[q][r], p) /\ wire[q][r] \in Seq(Nat \X (1 .. Pieces))
      <4> DEFINE P == Nat \X (1 .. Pieces)
      <4>1. wire \in [Ranks -> [Ranks -> Seq(P)]]
        BY DEF TypeOK
      <4> HIDE DEF P
      <4>2. wire'[q][r] = Append(wire[q][r], p) /\ wire[q][r] \in Seq(P)
        BY <1>1, <2>3, <4>1
      <4> QED
        BY <4>2 DEF P
    <3>3. Connects(Append(wire[q][r], p), ToRead(r, q), After(p))
      BY <1>4, <2>1, <3>1, <3>2, WireLonger
    <3>4. Connects(wire[q][r], ToRead(r, q), After(p))'
      BY <1>1, <2>2, <3>2, <3>3, <1>8 DEF Connects, p
    <3>5. WritesNext(q, r, After(p))'
      BY <3>1
    <3> DEFINE next == After(p)
    <3>6. (next)' = next
      BY <1>1, <1>8 DEF After, p
    <3> QED
      BY <1>4, <3>4, <3>5, <3>6
  <2>4. CASE ~(q = s /\ r = w.to)
    <3>1. wire'[q][r] = wire[q][r]
      BY <1>1, <2>4 DEF TypeOK
    <3>2. Connects(wire[q][r], ToRead(r, q), piece)'
      BY <2>1, <2>2, <3>1 DEF Connects
    <3>3. WritesNext(q, r, piece)'
      <4>1. CASE q = s
        BY <1>10, <2>1, <2>4, <4>1
      <4>2. CASE q # s
        BY <1>1, <1>7, <2>1, <4>2, HandedAlike, WritesAlike
      <4> QED
        BY <4>1, <4>2
    <3> QED
      BY <3>2, <3>3
  <2> QED
    BY <2>3, <2>4
<1> QED
  BY <1>8, <1>9, <1>11

\* The piece that is read is the next of the message.
LEMMA ReadPieceStream ==
  ASSUME StreamInv, IInv', NEW s \in Ranks, NEW o \in Partners(s), ReadPiece(s, o)
  PROVE  StreamInv'
<1> USE DEF StreamInv, IInv
<1> DEFINE P == Nat \X (1 .. Pieces)
           n == Len(inbox[s][o])
           p == <<Received(s) + 1, n + 1>>
<1>1. /\ pc[s] = "receiving" /\ wire[o][s] # <<>> /\ n < Pieces /\ config' = config
      /\ inbox' = [inbox EXCEPT ![s][o] = Append(@, Head(wire[o][s]))]
      /\ wire' = [wire EXCEPT ![o][s] = Tail(@)]
      /\ UNCHANGED <<solverVars, completed, queueVars, handler>>
  BY DEF ReadPiece
<1>2. /\ config \in Configurations /\ o \in Ranks /\ s \in Partners(o)
      /\ Pieces \in Nat \ {0} /\ Received(s) \in Nat
  BY AdmissibleConfig, PartnerOf, ReceivedIsNumber DEF TypeOK, RankInv
<1>3. wire \in [Ranks -> [Ranks -> Seq(P)]] /\ inbox \in [Ranks -> [Ranks -> Seq(P)]]
  BY DEF TypeOK
<1> HIDE DEF P
<1>4. /\ wire[o][s] \in Seq(P) /\ inbox[s][o] \in Seq(P) /\ n \in Nat
      /\ wire'[o][s] = Tail(wire[o][s])
      /\ inbox'[s][o] = Append(inbox[s][o], Head(wire[o][s]))
      /\ \A q, r \in Ranks : q # o \/ r # s => wire'[q][r] = wire[q][r]
      /\ \A q, r \in Ranks : q # o \/ r # s => inbox'[r][q] = inbox[r][q]
  BY <1>1, <1>2, <1>3
<1> HIDE DEF n
<1>5. /\ Ranks' = Ranks /\ Pieces' = Pieces /\ \A q : Partners(q)' = Partners(q)
      /\ \A m, k : Piece(m, k)' = Piece(m, k)
      /\ \A t \in Ranks : solverState(t)' = solverState(t) /\ ioState(t)' = ioState(t)
      /\ pc' = pc
  BY <1>1 DEF Ranks, Pieces, Partners, mappings, Piece, solverState, ioState, solverVars, queueVars
<1>6. \A r \in Ranks : Received(r)' = Received(r)
  BY <1>1, <1>5, ReceivedAlike
<1>7. \A q, r, piece : q \in Ranks => (WritesNext(q, r, piece) => WritesNext(q, r, piece)')
  BY <1>1, <1>5, HandedAlike, WritesAlike
<1>8. ToRead(s, o) = p /\ After(p) = Piece(Received(s) + 1, n + 1)
  BY <1>1, <1>2, <1>4 DEF ToRead, Piece, After, n
<1> HIDE DEF p
<1>9. PICK piece \in Nat \X (1 .. Pieces) :
        WritesNext(o, s, piece) /\ Connects(wire[o][s], p, piece)
  BY <1>2, <1>8 DEF Flows
<1>10. Head(wire[o][s]) = p /\ Connects(Tail(wire[o][s]), After(p), piece)
  BY <1>1, <1>4, <1>9, WireShorter
<1>11. /\ Len(inbox'[s][o]) = n + 1 /\ inbox'[s][o][n + 1] = p
       /\ \A i \in 1 .. n : inbox'[s][o][i] = inbox[s][o][i]
  <2>1. p \in P
    BY <1>1, <1>4, <1>10
  <2> QED
    BY <1>4, <1>10, <2>1 DEF n
<1>12. ASSUME NEW r \in Ranks PROVE Reads(r)'
  <2> SUFFICES ASSUME NEW q \in Ranks
      PROVE  /\ pc[r] # "receiving" \/ q \notin Partners(r) => inbox'[r][q] = <<>>
             /\ \A i \in 1 .. Len(inbox'[r][q]) : inbox'[r][q][i] = <<Received(r) + 1, i>>
    BY <1>5, <1>6 DEF Reads
  <2>1. /\ pc[r] # "receiving" \/ q \notin Partners(r) => inbox[r][q] = <<>>
        /\ \A i \in 1 .. Len(inbox[r][q]) : inbox[r][q][i] = <<Received(r) + 1, i>>
    BY DEF Reads
  <2>2. CASE q = o /\ r = s
    <3> SUFFICES ASSUME NEW i \in 1 .. (n + 1)
                 PROVE  inbox'[r][q][i] = <<Received(r) + 1, i>>
      BY <1>1, <1>11, <2>2
    <3>1. CASE i = n + 1
      BY <1>11, <2>2, <3>1 DEF p
    <3>2. CASE i \in 1 .. n
      BY <1>11, <2>1, <2>2, <3>2 DEF n
    <3> QED
      BY <1>4, <3>1, <3>2
  <2>3. CASE ~(q = o /\ r = s)
    BY <1>4, <2>1, <2>3
  <2> QED
    BY <2>2, <2>3
<1>13. ASSUME NEW q \in Ranks, NEW r \in Ranks PROVE Flows(q, r)'
  <2> SUFFICES ASSUME r \in Partners(q)
      PROVE \E x \in Nat \X (1 .. Pieces) :
              WritesNext(q, r, x)' /\ Connects(wire[q][r], ToRead(r, q), x)'
    BY <1>5 DEF Flows
  <2>1. \A x : After(x)' = After(x)
    BY <1>5 DEF After
  <2>2. CASE q = o /\ r = s
    <3>1. ToRead(r, q)' = After(p)
      BY <1>5, <1>6, <1>8, <1>11, <2>2 DEF ToRead
    <3>2. Connects(wire[q][r], ToRead(r, q), piece)'
      BY <1>4, <1>10, <2>1, <2>2, <3>1 DEF Connects
    <3> QED
      BY <1>7, <1>9, <2>2, <3>2
  <2>3. CASE ~(q = o /\ r = s)
    <3>1. PICK x \in Nat \X (1 .. Pieces) :
            WritesNext(q, r, x) /\ Connects(wire[q][r], ToRead(r, q), x)
      BY DEF Flows
    <3>2. wire'[q][r] = wire[q][r] /\ ToRead(r, q)' = ToRead(r, q)
      BY <1>4, <1>5, <1>6, <2>3 DEF ToRead
    <3>3. Connects(wire[q][r], ToRead(r, q), x)'
      BY <2>1, <3>1, <3>2 DEF Connects
    <3> QED
      BY <1>7, <3>1, <3>3
  <2> QED
    BY <2>2, <2>3
<1> QED
  BY <1>5, <1>12, <1>13

\* Nothing has been sent or read yet.
LEMMA InitStream == Init => StreamInv
<1> SUFFICES ASSUME Init PROVE StreamInv
  OBVIOUS
<1>1. IInv /\ config \in Configurations /\ Pieces \in Nat \ {0}
  BY InitInv, AdmissibleConfig DEF Init
<1>2. ASSUME NEW r \in Ranks
      PROVE  /\ pc[r] = "solving" /\ phase[r] = 0 /\ posted[r] = 0 /\ completed[r] = {}
             /\ itemQueue[r] = <<>> /\ writing[r] = {}
             /\ \A q \in Ranks : inbox[r][q] = <<>> /\ wire[r][q] = <<>>
             /\ Received(r) = 0 /\ Sent(r) = 0
  <2>1. /\ pc[r] = "solving" /\ phase[r] = 0 /\ posted[r] = 0 /\ completed[r] = {}
        /\ itemQueue[r] = <<>> /\ writing[r] = {}
        /\ \A q \in Ranks : inbox[r][q] = <<>> /\ wire[r][q] = <<>>
    BY DEF Init
  <2>2. \A call : {i \in 1 .. phase[r] : config.calls[r][i] = call} = {}
    BY <2>1
  <2> QED
    BY <2>1, <2>2, FS_EmptySet DEF Received, Sent
<1>3. \A r \in Ranks : Reads(r)
  BY <1>2 DEF Reads
<1>4. ASSUME NEW q \in Ranks, NEW r \in Partners(q), r \in Ranks PROVE Flows(q, r)
  <2>1. Started(q) = {} /\ Dispatched(q) = {} /\ Handed(q, r) = 0
    BY <1>2 DEF Started, Dispatched, Handed, Sending, ToSet
  <2>2. InOrder(q, r, 1)
    BY <1>2, <2>1 DEF InOrder, MessagesTo, Ascending
  <2>3. WritesNext(q, r, <<1, 1>>)
    BY <1>2, <2>2 DEF WritesNext
  <2>4. ToRead(r, q) = <<1, 1>>
    <3>1. Received(r) = 0 /\ inbox[r][q] = <<>>
      BY <1>2, <1>4
    <3>2. Len(inbox[r][q]) = 0
      BY <3>1
    <3> QED
      BY <1>1, <3>1, <3>2 DEF ToRead, Piece
  <2> QED
    BY <1>1, <1>2, <1>4, <2>3, <2>4 DEF Flows, Connects
<1> QED
  BY <1>1, <1>3, <1>4 DEF StreamInv, Flows

LEMMA StutterStream ==
  ASSUME StreamInv, IInv', UNCHANGED vars
  PROVE  StreamInv'
<1>1. /\ config' = config /\ wire' = wire /\ inbox' = inbox /\ phase' = phase /\ pc' = pc
      /\ \A t : solverState(t)' = solverState(t) /\ ioState(t)' = ioState(t)
  BY DEF vars, solverVars, queueVars, solverState, ioState
<1>2. config \in Configurations
  BY DEF StreamInv, IInv, TypeOK
<1>3. \A r \in Ranks : Reads(r)' /\ \A q : ToRead(r, q)' = ToRead(r, q)
  BY <1>1, <1>2, ReceivedAlike, NothingRead DEF StreamInv
<1>4. \A q \in Ranks : \A r \in Partners(q) :
        r \in Ranks /\ \A piece : WritesNext(q, r, piece) => WritesNext(q, r, piece)'
  BY <1>1, <1>2, PartnerOf, HandedAlike, WritesAlike
<1> QED
  BY <1>1, <1>3, <1>4, WiresKept

\* In every reachable state what is on a wire are the pieces from the next to be
\* read to the last written, in their order.
LEMMA Streams == Spec => []StreamInv
<1>1. StreamInv /\ IInv' /\ [Next]_vars => StreamInv'
  <2> SUFFICES ASSUME StreamInv, IInv', Next PROVE StreamInv'
    BY StutterStream
  <2>1. PICK r \in Ranks : SolverThread(r) \/ IOThread(r)
    BY DEF Next
  <2>2. CASE SolverThread(r)
    BY <2>2, BeginStream, DispatchStream, EmplaceStream, CheckBufferedRequestsStream,
       ReceiveReturnsStream, CloseStream DEF SolverThread
  <2>3. CASE IOThread(r)
    BY <2>3, WritePieceStream, CallbackStream, ReadPieceStream, SendCompletedStream DEF IOThread
  <2> QED
    BY <2>1, <2>2, <2>3
<1> QED
  BY InitStream, Invariance, <1>1, PTL DEF Spec

\* What receive() has read of a rank is the beginning of the message that it
\* waits for, whatever the order in which the threads of all ranks interleave.
THEOREM MessagesStayWhole == Spec => []MessagesWhole
<1>1. StreamInv => MessagesWhole
  <2> SUFFICES ASSUME StreamInv, NEW r \in Ranks, NEW q \in Ranks, NEW i \in 1 .. Len(inbox[r][q])
               PROVE  inbox[r][q][i] = <<Message(r), i>>
    BY DEF MessagesWhole
  <2>1. pc[r] = "receiving"
    BY DEF StreamInv, Reads
  <2>2. Message(r) = Received(r) + 1
    BY <2>1, ReceivedIsNumber DEF StreamInv, IInv, RankInv
  <2> QED
    BY <2>2 DEF StreamInv, Reads
<1> QED
  BY Streams, <1>1, PTL
================================================================================
