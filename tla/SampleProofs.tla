------------------------------ MODULE SampleProofs ------------------------------
(***************************************************************************)
(* Which samples the two participants of a coupling have and send, for the *)
(* proofs of SerialCouplingProofs and ParallelCouplingProofs.  The data    *)
(* that has its place in the stream of messages for a round of the ledger  *)
(* ends with the sample that was computed for the end of that round.       *)
(***************************************************************************)
EXTENDS AgreementProofs, DataFlow

\* The time of the last sample that is written in a round; initial data is
\* written in a round 0.
Stamp(L, k) == IF k = 0 THEN 0 ELSE L[k].end

\* The samples end with one that was written in a round and is stored at a time.
EndsIn(store, round, t) ==
  /\ \E s \in store : s.t = t
  /\ \A s \in store : s.t <= t /\ (s.t = t => s.round = round)

\* All samples are stored at the time they were computed for.
Stamped(store) == \A s \in store : s.t = s.at

\* ... and none of them for a time to come
Timely(store, now) == Stamped(store) /\ \A s \in store : s.t <= now

\* A time window starts from one sample, which was computed for its start in the
\* last iteration of the window before: whatever is repeated is trimmed to it.
RootOf(start, round) == [t |-> start, at |-> start, round |-> round]

Root(L, k) == IF k = 0 THEN RootOf(0, 0) ELSE RootOf(L[k].start, k - L[k].iteration)

\* ... as a participant at a place knows it from its scheme c
OwnRoot(place, c) == RootOf(c.time.start, RoundAt(place, c) - c.iterations)

Rooted(store, root) == TrimAfter(store, root.t) = {root}

\* The samples that are sent to q in round k
Parcel(L, q, k, samples) ==
  /\ Stamped(samples) /\ EndsIn(samples, k, Stamp(L, k))
  /\ Other(q) \in Substeps => Rooted(samples, Root(L, k))
  /\ Other(q) \notin Substeps => \A s \in samples : s.t = Stamp(L, k)

\* The messages of data on their way to q, of which the first is at position n
Parcels(L, q, messages, n) ==
  HasData(q) => \A i \in 1 .. Len(messages) : \A k \in Nat :
    messages[i].kind = "data" /\ n + i - 1 = Data(q, k) => Parcel(L, q, k, messages[i].samples)

\* What q has when it has received the data of round k
Got(L, q, k, store) ==
  IF HasData(q) THEN Stamped(store) /\ EndsIn(store, k, Stamp(L, k)) ELSE store = {}

--------------------------------------------------------------------------------
(* Storages *)

\* The latest sample stays the latest when the storage is moved or trimmed.
LEMMA LastSample ==
  ASSUME NEW store, NEW k, NEW t, EndsIn(store, k, t)
  PROVE  /\ EndsIn(Last(store), k, t) /\ \A s \in Last(store) : s.t <= t
         /\ \A s \in store : s.t <= t
         /\ \E s \in Last(store) : s.t = t /\ s.round = k
BY DEF EndsIn, Last

\* Trimming before a time that is not past the last sample keeps the last sample.
LEMMA TrimmedSample ==
  ASSUME NEW store, NEW k, NEW t, EndsIn(store, k, t), NEW now, t >= now
  PROVE  EndsIn(TrimBefore(store, now), k, t)
BY DEF EndsIn, Last, TrimBefore

\* A sample that is stored last is the latest.
LEMMA StoredSample ==
  ASSUME NEW store, NEW t \in Int, \A s \in store : s.t <= t,
         NEW values \in SUBSET Samples, values # {}, NEW k, \A v \in values : v.round = k
  PROVE  EndsIn(SetSampleAtTime(store, t, values), k, t)
<1> DEFINE new == SetSampleAtTime(store, t, values)
<1>1. PICK v \in values : TRUE
  OBVIOUS
<1> DEFINE s == [v EXCEPT !.t = t]
<1>2. s \in new /\ s.t = t
  BY <1>1 DEF SetSampleAtTime, Samples
<1>3. \A r \in new : r.t <= t /\ (r.t = t => r.round = k)
  <2> SUFFICES ASSUME NEW r \in new PROVE r.t <= t /\ (r.t = t => r.round = k)
    OBVIOUS
  <2>1. CASE r \in store /\ r.t # t
    BY <2>1
  <2>2. CASE ~(r \in store /\ r.t # t)
    <3>1. PICK w \in values : r = [w EXCEPT !.t = t]
      BY <2>2 DEF SetSampleAtTime
    <3> QED
      BY <3>1 DEF Samples
  <2> QED
    BY <2>1, <2>2
<1> HIDE DEF s, new
<1> QED
  BY <1>2, <1>3 DEF EndsIn, new

\* What is stored at the time that it was computed for keeps the stamps true.
LEMMA StampedStored ==
  ASSUME NEW store, Stamped(store), NEW t, NEW values \in SUBSET Samples,
         \A v \in values : v.at = t
  PROVE  Stamped(SetSampleAtTime(store, t, values))
<1> SUFFICES ASSUME NEW r \in SetSampleAtTime(store, t, values) PROVE r.t = r.at
  BY DEF Stamped
<1>1. CASE r \in store
  BY <1>1 DEF Stamped
<1>2. CASE r \notin store
  <2>1. PICK w \in values : r = [w EXCEPT !.t = t]
    BY <1>2 DEF SetSampleAtTime
  <2> QED
    BY <2>1 DEF Samples
<1> QED
  BY <1>1, <1>2

\* What is left of a storage is as true and as timely as the whole.
LEMMA StampedParts ==
  ASSUME NEW store, Stamped(store), NEW now
  PROVE  /\ Stamped(Last(store)) /\ Stamped(TrimBefore(store, now))
         /\ Stamped(TrimAfter(store, now)) /\ Timely(TrimAfter(store, now), now)
BY DEF Stamped, Timely, Last, TrimBefore, TrimAfter

\* Trimming stores nothing later than before.
LEMMA TimelyParts ==
  ASSUME NEW store, NEW now, Timely(store, now), NEW t
  PROVE  Timely(Last(store), now) /\ Timely(TrimBefore(store, t), now)
BY DEF Stamped, Timely, Last, TrimBefore

\* Nothing is stored in an empty storage, at a right time or a wrong one.
LEMMA EmptyParts ==
  ASSUME NEW t
  PROVE  Last({}) = {} /\ TrimBefore({}, t) = {} /\ Stamped({}) /\ Timely({}, t)
BY DEF Stamped, Timely, Last, TrimBefore

\* A storage keeps its root when it is trimmed to the window ...
LEMMA RootTrimmed ==
  ASSUME NEW store, NEW root \in Samples, Rooted(store, root)
  PROVE  /\ root \in store
         /\ Rooted(TrimAfter(store, root.t), root) /\ Rooted(TrimBefore(store, root.t), root)
<1>1. /\ root \in store /\ root.t \in Nat
      /\ \A s \in store : s.t <= root.t => s = root
  BY DEF Rooted, TrimAfter, Samples
<1> QED
  BY <1>1 DEF Rooted, TrimAfter, TrimBefore

\* ... and when a sample is stored later.
LEMMA RootStored ==
  ASSUME NEW store, NEW root \in Samples, Rooted(store, root),
         NEW t \in Nat, root.t < t, NEW values \in SUBSET Samples
  PROVE  Rooted(SetSampleAtTime(store, t, values), root)
<1> DEFINE new == SetSampleAtTime(store, t, values)
<1>1. /\ root \in store /\ root.t \in Nat
      /\ \A s \in store : s.t <= root.t => s = root
  BY DEF Rooted, TrimAfter, Samples
<1>2. root \in new /\ root.t <= root.t
  BY <1>1 DEF SetSampleAtTime
<1>3. ASSUME NEW s \in new, s.t <= root.t PROVE s = root
  <2>1. CASE s \in store
    BY <1>1, <1>3, <2>1
  <2>2. CASE s \notin store
    <3>1. PICK v \in values : s = [v EXCEPT !.t = t]
      BY <2>2 DEF SetSampleAtTime
    <3> QED
      BY <1>1, <1>3, <3>1 DEF Samples
  <2> QED
    BY <2>1, <2>2
<1> QED
  BY <1>2, <1>3 DEF Rooted, TrimAfter

\* The last sample of a complete window is the root of the next one.
LEMMA RootMoved ==
  ASSUME NEW c, NEW store \in SUBSET Samples, Stamped(store),
         NEW k, NEW t \in Nat, EndsIn(store, k, t)
  PROVE  /\ Complete(c) => Rooted(Moved(c, store), RootOf(t, k))
         /\ ~Complete(c) => Moved(c, store) = store
<1> DEFINE root == RootOf(t, k)
<1>1. \A s \in store : /\ s = [t |-> s.t, at |-> s.at, round |-> s.round]
                       /\ s.t = s.at /\ s.t \in Nat /\ s.t <= t /\ (s.t = t => s.round = k)
  BY DEF Samples, Stamped, EndsIn
<1>2. root \in store /\ root.t = t
  BY <1>1 DEF EndsIn, RootOf
<1>3. \A s \in Last(store) : s = root
  <2> SUFFICES ASSUME NEW s \in Last(store) PROVE s = root
    OBVIOUS
  <2>1. s \in store /\ s.t = t
    BY <1>1, <1>2 DEF Last
  <2> QED
    BY <1>1, <2>1 DEF RootOf
<1>4. root \in Last(store)
  BY <1>1, <1>2 DEF Last
<1> HIDE DEF root
<1>5. Last(store) = {root}
  BY <1>3, <1>4
<1>6. Rooted({root}, root)
  BY <1>2 DEF Rooted, TrimAfter
<1> QED
  BY <1>5, <1>6 DEF root, Moved, MoveToNextWindow, Complete

--------------------------------------------------------------------------------
(* Messages of data *)

\* The first message read, the rest has the samples that it should have.
LEMMA NextParcels ==
  ASSUME NEW L, NEW q, NEW s \in Seq(Messages), NEW n \in Int, Parcels(L, q, s, n), s # <<>>
  PROVE  /\ Parcels(L, q, Tail(s), n + 1)
         /\ HasData(q) => \A k \in Nat :
              Head(s).kind = "data" /\ n = Data(q, k) => Parcel(L, q, k, Head(s).samples)
<1>1. Len(s) \in Nat \ {0} /\ Head(s) = s[1]
      /\ Len(Tail(s)) = Len(s) - 1 /\ \A i \in 1 .. Len(Tail(s)) : Tail(s)[i] = s[i + 1]
  OBVIOUS
<1>2. ASSUME HasData(q), NEW i \in 1 .. Len(Tail(s)), NEW k \in Nat,
             Tail(s)[i].kind = "data", n + 1 + i - 1 = Data(q, k)
      PROVE  Parcel(L, q, k, Tail(s)[i].samples)
  <2>1. i + 1 \in 1 .. Len(s) /\ n + (i + 1) - 1 = n + 1 + i - 1 /\ Tail(s)[i] = s[i + 1]
    BY <1>1
  <2> QED
    BY <1>2, <2>1 DEF Parcels
<1>3. ASSUME HasData(q), NEW k \in Nat, Head(s).kind = "data", n = Data(q, k)
      PROVE  Parcel(L, q, k, Head(s).samples)
  <2>1. 1 \in 1 .. Len(s) /\ n + 1 - 1 = n
    BY <1>1
  <2> QED
    BY <1>1, <1>3, <2>1 DEF Parcels
<1> QED
  BY <1>2, <1>3 DEF Parcels

\* Another message: either it is no data, or it has its place in the stream.
LEMMA MoreParcels ==
  ASSUME NEW L, NEW q, NEW s \in Seq(Messages), NEW n \in Nat, Parcels(L, q, s, n),
         NEW m \in Messages,
         m.kind = "data" =>
           \E k \in Nat : n + Len(s) = Data(q, k) /\ Parcel(L, q, k, m.samples)
  PROVE  Parcels(L, q, Append(s, m), n)
<1> DEFINE t == Append(s, m)
<1>1. /\ Len(s) \in Nat /\ Len(t) = Len(s) + 1 /\ t[Len(s) + 1] = m
      /\ \A i \in 1 .. Len(s) : t[i] = s[i]
  OBVIOUS
<1> HIDE DEF t
<1> SUFFICES ASSUME HasData(q), NEW i \in 1 .. Len(t), NEW k \in Nat,
                    t[i].kind = "data", n + i - 1 = Data(q, k)
             PROVE  Parcel(L, q, k, t[i].samples)
  BY DEF Parcels, t
<1>2. CASE i = Len(s) + 1
  <2>1. PICK j \in Nat : n + Len(s) = Data(q, j) /\ Parcel(L, q, j, m.samples)
    BY <1>1, <1>2
  <2>2. n + i - 1 = n + Len(s)
    BY <1>1, <1>2
  <2>3. Data(q, j) = Data(q, k)
    BY <2>1, <2>2
  <2>4. j = k
    <3>1. j < k => Data(q, j) < Data(q, k)
      BY PositionsInOrder
    <3>2. k < j => Data(q, k) < Data(q, j)
      BY PositionsInOrder
    <3>3. Data(q, j) \in Nat /\ Data(q, k) \in Nat
      BY Positions
    <3> QED
      BY <2>3, <3>1, <3>2, <3>3
  <2> QED
    BY <1>1, <1>2, <2>1, <2>4
<1>3. CASE i # Len(s) + 1
  <2>1. i \in 1 .. Len(s) /\ t[i] = s[i]
    BY <1>1, <1>3
  <2> QED
    BY <2>1 DEF Parcels
<1> QED
  BY <1>2, <1>3

\* Rounds of the ledger whose data is not on its way may be rewritten.
LEMMA ParcelsAlike ==
  ASSUME NEW L, NEW K, NEW q, NEW s \in Seq(Messages), NEW n, NEW m, NEW bye,
         Carries(L, q, s, n, m, bye), Parcels(L, q, s, n),
         \A k \in Nat : HasData(q) /\ Data(q, k) < m =>
           Stamp(K, k) = Stamp(L, k) /\ Root(K, k) = Root(L, k)
  PROVE  Parcels(K, q, s, n)
<1> SUFFICES ASSUME HasData(q), NEW i \in 1 .. Len(s), NEW k \in Nat,
                    s[i].kind = "data", n + i - 1 = Data(q, k)
             PROVE  Parcel(K, q, k, s[i].samples)
  BY DEF Parcels
<1>1. /\ n \in Nat /\ m \in Nat /\ bye \in {"nothing", "ping", "pong"}
      /\ Len(s) = m - n + (IF bye = "nothing" THEN 0 ELSE 1)
      /\ IF n + i - 1 = m THEN s[i].kind = bye ELSE Fits(L, q, n + i - 1, s[i])
  BY DEF Carries
<1>2. i \in Int /\ i >= 1 /\ i <= Len(s)
  OBVIOUS
<1>3. n + i - 1 < m
  BY <1>1, <1>2
<1>4. Parcel(L, q, k, s[i].samples)
  BY DEF Parcels
<1>5. Stamp(K, k) = Stamp(L, k) /\ Root(K, k) = Root(L, k)
  BY <1>3
<1> QED
  BY <1>4, <1>5 DEF Parcel

\* sendData() sends what ends with the sample of the round.
LEMMA SendsParcel ==
  ASSUME TypeOK, NEW L, NEW p \in Participants, SendStored(p, written[p]), NEW q, q = Other(p),
         NEW k \in Nat, NEW n \in Nat, Parcels(L, q, channel[q], n),
         HasData(q) => n + Len(channel[q]) = Data(q, k),
         p \in Sends => /\ Stamped(written[p]) /\ EndsIn(written[p], k, Stamp(L, k))
                        /\ Rooted(written[p], Root(L, k))
  PROVE  Parcels(L, q, channel'[q], n)
<1>1. /\ q \in Participants /\ Other(q) = p /\ channel[q] \in Seq(Messages)
      /\ written[p] \in SUBSET Samples /\ Last(written[p]) \in SUBSET Samples
      /\ channel \in [Participants -> Seq(Messages)]
  BY Others DEF TypeOK, Last
<1>2. CASE p \in Sends
  <2> DEFINE samples == IF p \in Substeps THEN written[p] ELSE Last(written[p])
             m == [kind |-> "data", samples |-> samples]
  <2>1. samples \in SUBSET Samples /\ HasData(q)
    BY <1>1, <1>2 DEF HasData
  <2>2. channel' = [channel EXCEPT ![q] = Append(@, m)]
    BY <1>2 DEF SendStored, Send
  <2>3. /\ Stamped(samples) /\ EndsIn(samples, k, Stamp(L, k))
        /\ p \notin Substeps => \A s \in samples : s.t = Stamp(L, k)
        /\ p \in Substeps => Rooted(samples, Root(L, k))
    <3>1. /\ Stamped(written[p]) /\ EndsIn(written[p], k, Stamp(L, k))
          /\ Rooted(written[p], Root(L, k))
      BY <1>2
    <3>2. /\ Stamped(Last(written[p])) /\ EndsIn(Last(written[p]), k, Stamp(L, k))
      BY <3>1, StampedParts, LastSample
    <3>3. \A s \in Last(written[p]) : s.t = Stamp(L, k)
      <4>1. PICK u \in Last(written[p]) : u.t = Stamp(L, k)
        BY <3>1 DEF EndsIn, Last
      <4> QED
        BY <1>1, <4>1 DEF Last, Samples
    <3> QED
      BY <3>1, <3>2, <3>3
  <2> HIDE DEF samples
  <2>4. Parcel(L, q, k, samples)
    BY <1>1, <2>3 DEF Parcel
  <2>5. m \in Messages /\ m.kind = "data" /\ m.samples = samples
    BY <2>1 DEF Messages
  <2> HIDE DEF m
  <2>6. channel'[q] = Append(channel[q], m)
    BY <1>1, <2>2
  <2>7. n + Len(channel[q]) = Data(q, k)
    BY <2>1
  <2> QED
    BY <1>1, <2>4, <2>5, <2>6, <2>7, MoreParcels
<1>3. CASE p \notin Sends
  BY <1>1, <1>3 DEF SendStored
<1> QED
  BY <1>2, <1>3

\* receiveData() gets what ends with the sample of the round, and stores it last.
LEMMA ReceivesParcel ==
  ASSUME TypeOK, NEW L, NEW p \in Participants, CanReceiveData(p), ReceiveDataMessage(p),
         NEW k \in Nat, Parcels(L, p, channel[p], Data(p, k)),
         NEW j, Got(L, p, j, received[p]), NEW time \in Nat,
         HasData(p) /\ Other(p) \notin Substeps => time = Stamp(L, k) /\ Stamp(L, j) <= time
  PROVE  /\ Got(L, p, k, ReceivedAt(p, time))
         /\ Parcels(L, p, channel'[p], Header(p, k + 1))
<1>1. /\ channel[p] \in Seq(Messages) /\ channel \in [Participants -> Seq(Messages)]
      /\ received[p] \in SUBSET Samples
  BY DEF TypeOK
<1>0. Data(p, k) \in Int /\ (HasData(p) => Header(p, k + 1) = Data(p, k) + 1)
  BY Positions
<1>2. CASE HasData(p)
  <2> DEFINE samples == Head(channel[p]).samples
  <2>1. channel[p] # <<>> /\ Head(channel[p]).kind = "data" /\ channel'[p] = Tail(channel[p])
    BY <1>2, ReadsData
  <2>2. /\ Parcels(L, p, channel'[p], Header(p, k + 1))
        /\ Parcel(L, p, k, samples)
    BY <1>0, <1>1, <1>2, <2>1, NextParcels
  <2>3. samples \in SUBSET Samples
    BY <1>1, <1>2, <2>1, HeadType DEF CanReceiveData, HasData
  <2>4. ReceivedAt(p, time) = IF Other(p) \in Substeps THEN samples
                              ELSE SetSampleAtTime(received[p], time, samples)
    BY <1>2 DEF ReceivedAt, HasData
  <2> HIDE DEF samples
  <2>5. CASE Other(p) \in Substeps
    BY <1>2, <2>2, <2>4, <2>5 DEF Got, Parcel
  <2>6. CASE Other(p) \notin Substeps
    <3>1. Stamped(received[p]) /\ EndsIn(received[p], j, Stamp(L, j))
      BY <1>2 DEF Got
    <3>2. \A s \in received[p] : s.t <= time
      <4>1. PICK u \in Last(received[p]) : u.t = Stamp(L, j)
        BY <3>1 DEF EndsIn, Last
      <4>2. \A s \in received[p] : s.t <= u.t /\ s.t \in Nat
        BY <1>1, <4>1 DEF Last, Samples
      <4>3. u.t \in Nat /\ u.t <= time
        BY <1>1, <1>2, <2>6, <4>1 DEF Last, Samples
      <4> QED
        BY <4>2, <4>3
    <3>3. EndsIn(SetSampleAtTime(received[p], time, samples), k, time)
      <4>1. samples # {} /\ \A v \in samples : v.round = k
        BY <1>2, <2>2, <2>6 DEF Parcel, EndsIn
      <4>2. time \in Int
        OBVIOUS
      <4> QED
        BY <2>3, <3>2, <4>1, <4>2, StoredSample
    <3>4. \A v \in samples : v.at = time
      BY <1>2, <2>2, <2>6 DEF Parcel, Stamped
    <3>5. Stamped(SetSampleAtTime(received[p], time, samples))
      BY <2>3, <3>1, <3>4, StampedStored
    <3> QED
      BY <1>2, <2>2, <2>4, <2>6, <3>3, <3>5 DEF Got
  <2> QED
    BY <2>2, <2>5, <2>6
<1>3. CASE ~HasData(p)
  <2>1. ReceivedAt(p, time) = received[p]
    BY <1>3 DEF ReceivedAt, HasData
  <2>2. Got(L, p, k, received[p])
    BY <1>3 DEF Got
  <2> QED
    BY <1>3, <2>1, <2>2 DEF Parcels
<1> QED
  BY <1>2, <1>3

\* What is received starts from the root of its round, too: with substeps it brings
\* the sample of the root, without them the storage has it.
LEMMA ReceivesRoot ==
  ASSUME TypeOK, NEW L, NEW p \in Participants, CanReceiveData(p), HasData(p),
         NEW k \in Nat, Parcels(L, p, channel[p], Data(p, k)),
         Root(L, k) \in Samples, Rooted(received[p], Root(L, k)), NEW time \in Nat,
         Other(p) \notin Substeps =>
           time = Stamp(L, k) /\ IF k = 0 THEN time = 0 ELSE Root(L, k).t < time
  PROVE  Rooted(ReceivedAt(p, time), Root(L, k))
<1> DEFINE samples == Head(channel[p]).samples
           root == Root(L, k)
<1>1. /\ channel[p] \in Seq(Messages) /\ received[p] \in SUBSET Samples
      /\ HasMessage(p, "data") /\ channel[p] # <<>> /\ Head(channel[p]).kind = "data"
  BY DEF TypeOK, CanReceiveData, HasMessage, HasData
<1>2. samples \in SUBSET Samples
  BY <1>1, HeadType
<1>3. Parcel(L, p, k, samples)
  <2>1. Data(p, k) \in Int
    BY Positions
  <2> QED
    BY <1>1, <2>1, NextParcels
<1>4. ReceivedAt(p, time) = IF Other(p) \in Substeps THEN samples
                            ELSE SetSampleAtTime(received[p], time, samples)
  BY DEF ReceivedAt, HasData
<1> HIDE DEF samples, root
<1>5. CASE Other(p) \in Substeps
  BY <1>3, <1>4, <1>5 DEF Parcel
<1>6. CASE Other(p) \notin Substeps /\ k # 0
  <2>1. root.t < time
    BY <1>6 DEF root
  <2> QED
    BY <1>2, <1>4, <1>6, <2>1, RootStored DEF root
<1>7. CASE Other(p) \notin Substeps /\ k = 0
  <2> DEFINE new == SetSampleAtTime(received[p], 0, samples)
  <2>1. root = [t |-> 0, at |-> 0, round |-> 0] /\ root.t = 0 /\ time = 0 /\ Stamp(L, k) = 0
    BY <1>7 DEF root, Root, RootOf
  <2>2. samples # {} /\ \A v \in samples : v = root
    <3>1. /\ samples # {}
          /\ \A v \in samples : v.t = 0 /\ v.at = 0 /\ v.round = 0
      BY <1>3, <1>7, <2>1 DEF Parcel, EndsIn, Stamped
    <3>2. \A v \in samples : v = [t |-> v.t, at |-> v.at, round |-> v.round]
      BY <1>2 DEF Samples
    <3> QED
      BY <2>1, <3>1, <3>2
  <2>3. root \in new /\ root.t <= root.t
    <3>1. [root EXCEPT !.t = 0] = root
      BY <2>1
    <3> QED
      BY <2>1, <2>2, <3>1 DEF SetSampleAtTime
  <2>4. ASSUME NEW s \in new, s.t <= root.t PROVE s = root
    <3>1. CASE s \in received[p] /\ s.t # 0
      BY <1>1, <2>1, <2>4, <3>1 DEF Samples
    <3>2. CASE ~(s \in received[p] /\ s.t # 0)
      <4>1. PICK v \in samples : s = [v EXCEPT !.t = 0]
        BY <3>2 DEF SetSampleAtTime
      <4> QED
        BY <2>1, <2>2, <4>1
    <3> QED
      BY <3>1, <3>2
  <2>5. Rooted(new, root)
    BY <2>3, <2>4 DEF Rooted, TrimAfter
  <2> QED
    BY <1>4, <1>7, <2>1, <2>5 DEF root
<1> QED
  BY <1>5, <1>6, <1>7

--------------------------------------------------------------------------------
(* Storages in a time window and at its end *)

\* moveToNextWindow() keeps the latest sample.
LEMMA MovedSamples ==
  ASSUME NEW c, NEW store, NEW L, NEW p, NEW k, NEW now
  PROVE  /\ Timely(store, now) => Timely(Moved(c, store), now)
         /\ Got(L, p, k, store) => Got(L, p, k, Moved(c, store))
<1>1. Moved(c, store) \in {store, Last(store)}
  BY DEF Moved, MoveToNextWindow
<1>2. Timely(store, now) => Timely(Last(store), now)
  BY TimelyParts
<1>3. Got(L, p, k, store) => Got(L, p, k, Last(store))
  <2>1. Stamped(store) => Stamped(Last(store))
    BY StampedParts
  <2>2. EndsIn(store, k, Stamp(L, k)) => EndsIn(Last(store), k, Stamp(L, k))
    BY LastSample
  <2> QED
    BY <2>1, <2>2, EmptyParts DEF Got
<1> QED
  BY <1>1, <1>2, <1>3

\* secondExchange() leaves what was written until now, and the latest sample of
\* what was received.
LEMMA FinishSamples ==
  ASSUME TypeOK, NEW p \in Participants, NEW c \in Schemes, NEW w, NEW r,
         FinishAdvance(p, c, w, r), Timely(w, Time!TimeOf(c.time)),
         NEW L, NEW k, Got(L, p, k, r), HasData(p) => Stamp(L, k) >= Time!TimeOf(c.time)
  PROVE  /\ Timely(written'[p], Time!TimeOf(scheme'[p].time))
         /\ Got(L, p, k, received'[p])
<1> DEFINE d == SecondExchange(c)
           now == Time!TimeOf(d.time)
<1>1. /\ scheme'[p] = d
      /\ written'[p] = IF d.isTimeWindowComplete THEN TrimBefore(w, now) ELSE TrimAfter(w, now)
      /\ received'[p] = IF d.isTimeWindowComplete THEN TrimBefore(r, now) ELSE r
  BY DEF FinishAdvance, TypeOK
<1>2. d.isTimeWindowComplete <=> Complete(c)
  BY SecondExchangeMembers
<1>3. Complete(c) => now = Time!TimeOf(c.time)
  <2>1. /\ d.time.progress = 0
        /\ d.time.start = IF Complete(c) THEN Time!TimeOf(c.time) ELSE c.time.start
    BY SecondExchangeMembers
  <2>2. Time!TimeOf(c.time) \in Nat
    BY TimeOfType DEF Schemes
  <2> HIDE DEF d
  <2> QED
    BY <2>1, <2>2 DEF Time!TimeOf
<1> HIDE DEF d
<1>4. CASE Complete(c)
  <2>1. Timely(TrimBefore(w, now), now)
    BY <1>3, <1>4, TimelyParts
  <2>2. HasData(p) => Stamped(TrimBefore(r, now)) /\ EndsIn(TrimBefore(r, now), k, Stamp(L, k))
    <3>1. HasData(p) => Stamped(r) /\ EndsIn(r, k, Stamp(L, k)) /\ Stamp(L, k) >= now
      BY <1>3, <1>4 DEF Got
    <3> HIDE DEF now
    <3> QED
      BY <3>1, StampedParts, TrimmedSample
  <2>3. ~HasData(p) => TrimBefore(r, now) = {}
    BY EmptyParts DEF Got
  <2> QED
    BY <1>1, <1>2, <1>4, <2>1, <2>2, <2>3 DEF Got
<1>5. CASE ~Complete(c)
  <2>1. Timely(TrimAfter(w, now), now)
    BY StampedParts DEF Timely
  <2> QED
    BY <1>1, <1>2, <1>5, <2>1
<1> QED
  BY <1>4, <1>5

\* A complete window leaves the root of the next one, another iteration its own.
LEMMA FinishRoots ==
  ASSUME TypeOK, NEW p \in Participants, NEW c \in Schemes, NEW w, NEW r,
         FinishAdvance(p, c, w, r), NEW root \in Samples, root.t = SecondExchange(c).time.start
  PROVE  /\ Rooted(w, root) => Rooted(written'[p], root)
         /\ Rooted(r, root) => Rooted(received'[p], root)
<1> DEFINE d == SecondExchange(c)
           now == Time!TimeOf(d.time)
<1>1. /\ written'[p] = IF d.isTimeWindowComplete THEN TrimBefore(w, now) ELSE TrimAfter(w, now)
      /\ received'[p] = IF d.isTimeWindowComplete THEN TrimBefore(r, now) ELSE r
  BY DEF FinishAdvance, TypeOK
<1>2. now = root.t
  <2>1. d.time.progress = 0
    BY SecondExchangeMembers
  <2> HIDE DEF d
  <2> QED
    BY <2>1 DEF Time!TimeOf, d, Samples
<1> HIDE DEF d, now
<1> QED
  BY <1>1, <1>2, RootTrimmed

\* A step of the solver writes what it has computed for the time it gets to.
LEMMA AdvanceSamples ==
  ASSUME IInv, NEW p \in Participants, NEW place, Advance(p, place),
         Timely(written[p], Time!TimeOf(scheme[p].time))
  PROVE  /\ Timely(written'[p], Time!TimeOf(scheme'[p].time))
         /\ pc'[p] # "solving" =>
              EndsIn(written'[p], Round(scheme[p]), Time!TimeOf(scheme'[p].time))
         /\ \A root \in Samples :
              root.t <= Time!TimeOf(scheme[p].time) /\ Rooted(written[p], root) =>
                Rooted(written'[p], root)
<1>1. /\ TypeOK /\ scheme[p] \in Schemes /\ written[p] \in SUBSET Samples
      /\ pc[p] = "solving" /\ MissingActions(scheme[p]) = {} /\ StepBound \in Nat
      /\ solver[p].time \in Nat
  BY Types, ConfigAssumption DEF IInv, Advance, At, TypeOK
<1>2. PICK dt \in 1 .. StepBound :
        LET c == AddComputedTime(scheme[p], dt)
            windowEnd == ReachedEndOfTimeWindow(c)
        IN  /\ scheme' = [scheme EXCEPT ![p] = FirstExchange(c)]
            /\ written' = [written EXCEPT ![p] = IF windowEnd \/ p \in Substeps
                                                  THEN SamplizeWriteData(p, c, dt) ELSE @]
            /\ Goto(p, IF windowEnd THEN place ELSE "solving")
  BY DEF Advance
<1> DEFINE c == AddComputedTime(scheme[p], dt)
           d == FirstExchange(c)
           now == Time!TimeOf(scheme[p].time)
           later == Time!TimeOf(c.time)
           values == {[t |-> 0, at |-> solver[p].time + dt, round |-> Round(c)]}
           new == SetSampleAtTime(written[p], later, values)
<1>3. /\ scheme'[p] = d
      /\ written'[p] = IF ReachedEndOfTimeWindow(c) \/ p \in Substeps THEN new ELSE written[p]
      /\ pc'[p] = IF ReachedEndOfTimeWindow(c) THEN place ELSE "solving"
  BY <1>1, <1>2 DEF SamplizeWriteData, Goto, TypeOK
<1>4. dt \in Nat \ {0} /\ now \in Nat
  BY <1>1, TimeOfType DEF Schemes
<1>5. /\ c \in Schemes /\ c.time = Time!ProgressBy(scheme[p].time, dt) /\ d.time = c.time
      /\ Round(c) = Round(scheme[p]) /\ Round(c) \in Nat
  <2>1. /\ c \in Schemes /\ c.time = Time!ProgressBy(scheme[p].time, dt)
        /\ c.timeWindows = scheme[p].timeWindows
        /\ c.totalIterations = scheme[p].totalIterations
    BY <1>1, <1>4, AddComputedTimeMembers DEF AddComputedTime, Schemes
  <2>2. d.time = c.time
    BY <2>1, FirstExchangeMembers
  <2> HIDE DEF c, d
  <2> QED
    BY <2>1, <2>2 DEF Round, Schemes
<1>6. later = now + dt
  BY <1>1, <1>4, <1>5, ProgressByMovesTime DEF Schemes
<1>7. solver[p].time = now
  <2>1. SolverFollowsScheme
    BY ConsistentFollows
  <2> QED
    BY <1>1, <2>1 DEF SolverFollowsScheme
<1> HIDE DEF c, d, now, later
<1>8. Stamped(written[p]) /\ \A s \in written[p] : s.t <= later
  BY <1>1, <1>4, <1>6 DEF Timely, Samples, now
<1>9. Timely(new, later) /\ EndsIn(new, Round(scheme[p]), later)
  <2>1. values \in SUBSET Samples /\ \A v \in values : v.at = later
    BY <1>1, <1>4, <1>5, <1>6, <1>7 DEF Samples
  <2>2. values # {} /\ \A v \in values : v.round = Round(scheme[p])
    BY <1>5
  <2>3. later \in Int
    BY <1>4, <1>6
  <2> HIDE DEF values
  <2>4. Stamped(new)
    BY <1>8, <2>1, StampedStored
  <2>5. EndsIn(new, Round(scheme[p]), later)
    BY <1>8, <2>1, <2>2, <2>3, StoredSample
  <2> HIDE DEF new
  <2> QED
    BY <2>4, <2>5, LastSample DEF Timely
<1>10. Timely(written[p], later)
  BY <1>8 DEF Timely
<1>11. ASSUME NEW root \in Samples, root.t <= now, Rooted(written[p], root)
       PROVE  Rooted(new, root)
  <2>1. values \in SUBSET Samples
    BY <1>1, <1>4, <1>5, <1>6, <1>7 DEF Samples
  <2>2. later \in Nat /\ root.t < later
    BY <1>4, <1>6, <1>11 DEF Samples
  <2> HIDE DEF values
  <2> QED
    BY <1>11, <2>1, <2>2, RootStored
<1> HIDE DEF new
<1> QED
  BY <1>3, <1>5, <1>9, <1>10, <1>11 DEF later, now

\* initialize() starts with what the solver wrote before, on both sides.
LEMMA InitialSamples ==
  ASSUME TypeOK, NEW p \in Participants, NEW place, Initialize(p, place), NEW L, NEW now \in Nat
  PROVE  /\ Timely(written'[p], now) /\ (p \in Sends => EndsIn(written'[p], 0, 0))
         /\ Got(L, p, 0, received'[p])
         /\ p \in Sends => Rooted(written'[p], RootOf(0, 0))
         /\ HasData(p) => Rooted(received'[p], RootOf(0, 0))
<1>1. written'[p] = InitialData(p) /\ received'[p] = InitialData(Other(p))
  BY DEF Initialize, TypeOK
<1> DEFINE first == [t |-> 0, at |-> 0, round |-> 0]
<1>2. \A q : /\ Timely(InitialData(q), now)
             /\ q \in Sends => /\ EndsIn(InitialData(q), 0, 0)
                              /\ Rooted(InitialData(q), RootOf(0, 0))
             /\ q \notin Sends => InitialData(q) = {}
  <2> TAKE q
  <2>1. CASE q \in Sends
    <3>1. InitialData(q) = {first}
      BY <2>1 DEF InitialData
    <3>3. EndsIn({first}, 0, 0)
      BY DEF EndsIn
    <3>4. Timely({first}, now)
      BY DEF Timely, Stamped
    <3>5. Rooted({first}, RootOf(0, 0))
      BY DEF Rooted, RootOf, TrimAfter
    <3> QED
      BY <2>1, <3>1, <3>3, <3>4, <3>5
  <2>2. CASE q \notin Sends
    BY <2>2, EmptyParts DEF InitialData
  <2> QED
    BY <2>1, <2>2
<1>3. Stamp(L, 0) = 0
  BY DEF Stamp
<1> QED
  BY <1>1, <1>2, <1>3 DEF Got, HasData, Timely

\* The stamps are in the order of the rounds, if repeating a window does not
\* change its end.
LEMMA StampsGrow ==
  ASSUME NEW L \in Ledgers, NEW r \in Nat \ {0}, Kept(L, r), L[r].start <= L[r].end,
         r > 1 /\ L[r].iteration > 1 => L[r].end = L[r - 1].end
  PROVE  Stamp(L, r - 1) \in Nat /\ Stamp(L, r) \in Nat /\ Stamp(L, r - 1) <= Stamp(L, r)
<1>1. L[r] \in Entries /\ Stamp(L, r) = L[r].end
  BY DEF Ledgers, Stamp
<1>2. CASE r = 1
  BY <1>1, <1>2 DEF Stamp, Entries
<1>3. CASE r > 1
  <2>1. r - 1 \in Nat \ {0} /\ (r - 1) + 1 = r /\ r - 1 \in 1 .. r - 1 /\ r - 1 \in 1 .. r
    BY <1>3
  <2>2. L[r - 1] \in Entries /\ Stamp(L, r - 1) = L[r - 1].end
    BY <2>1 DEF Ledgers, Stamp
  <2>3. Follows(L[r - 1], L[r]) /\ Proper(L[r - 1])
    BY <2>1 DEF Kept
  <2>4. L[r].iteration > 1 \/ L[r].start = L[r - 1].end
    BY <1>1, <2>2, <2>3 DEF Follows, Entries, Proper
  <2> QED
    BY <1>1, <1>3, <2>2, <2>4 DEF Entries
<1> QED
  BY <1>2, <1>3

\* Windows of a configured size keep their end.
LEMMA SteadyWindows ==
  ASSUME TimeWindowSize # Undefined, NEW L \in Ledgers, NEW r \in Nat \ {0}, Kept(L, r),
         r > 1, L[r].iteration > 1
  PROVE  L[r].end = L[r - 1].end
<1>1. r - 1 \in Nat \ {0} /\ (r - 1) + 1 = r /\ r - 1 \in 1 .. r - 1 /\ r - 1 \in 1 .. r
      /\ r \in 1 .. r
  OBVIOUS
<1>2. Follows(L[r - 1], L[r]) /\ Proper(L[r - 1]) /\ Proper(L[r])
  BY <1>1 DEF Kept
<1>3. L[r].start = L[r - 1].start
  BY <1>2 DEF Follows
<1> QED
  BY <1>2, <1>3 DEF Proper

\* What has been received admits what comes later.
LEMMA StoresLater ==
  ASSUME NEW L, NEW p, NEW k, NEW store \in SUBSET Samples, Got(L, p, k, store),
         NEW time \in Nat, HasData(p) => Stamp(L, k) \in Nat /\ Stamp(L, k) <= time
  PROVE  CanSetSampleAtTime(store, time)
<1>1. CASE HasData(p)
  <2>1. PICK u \in Last(store) : u.t = Stamp(L, k)
    BY <1>1 DEF Got, EndsIn, Last
  <2>2. u \in store /\ \A s \in store : s.t <= u.t /\ s.t \in Nat
    BY <2>1 DEF Last, Samples
  <2>3. CASE Stamp(L, k) = time
    BY <2>1, <2>2, <2>3, Zenon DEF CanSetSampleAtTime
  <2>4. CASE Stamp(L, k) < time
    <3>1. \A s \in store : s.t < time
      BY <1>1, <2>1, <2>2, <2>4
    <3> QED
      BY <3>1 DEF CanSetSampleAtTime
  <2> QED
    BY <1>1, <2>3, <2>4
<1>2. CASE ~HasData(p)
  BY <1>2 DEF Got, CanSetSampleAtTime
<1> QED
  BY <1>1, <1>2
--------------------------------------------------------------------------------
(* The storages of the mappings *)

Mappings ==
  /\ DOMAIN provided = Participants
  /\ DOMAIN mappedWrite = Participants /\ DOMAIN mappedRead = Participants

\* A participant at a place with its scheme c has written w.  It has the same on its own
\* side of the mapping; of that it has sent mapped when it goes to send, and what is left
\* of it in a time window is up to its start.
MapsWrites(c, place, w, own, sent) ==
  /\ \A s \in w : s.t <= Time!TimeOf(c.time)
  /\ place = "constructed" => sent = {}
  /\ place \in InitializeSteps => own = w /\ sent = w /\ \A s \in w : s.t <= c.time.start
  /\ place \in ExchangeSteps => own = w /\ sent = w
  /\ place = "solving" => own = w /\ sent = TrimAfter(w, c.time.start)

\* Going on inside initialize() or an exchange, or leaving, maps nothing that is written.
LEMMA MapsMeanwhile ==
  ASSUME NEW place, NEW c, NEW w, NEW own, NEW sent, MapsWrites(c, place, w, own, sent),
         NEW there, NEW d, d.time = c.time, there # "constructed",
         there \in InitializeSteps => place \in InitializeSteps,
         there \in ExchangeSteps => place \in ExchangeSteps,
         there = "solving" => place \in InitializeSteps \cup {"solving"}
  PROVE  MapsWrites(d, there, w, own, sent)
<1>1. (\A s \in w : s.t <= c.time.start) => TrimAfter(w, c.time.start) = w
  BY DEF TrimAfter
<1> QED
  BY <1>1 DEF MapsWrites

\* initialize() maps the initial data.
LEMMA MapsInitial ==
  ASSUME TypeOK, Mappings, NEW p \in Participants, NEW place, Initialize(p, place),
         place \in InitializeSteps \cup {"solving"}, MapInitialWrittenData(p),
         mappedWrite[p] = {}
  PROVE  MapsWrites(scheme'[p], pc'[p], written'[p], provided'[p], mappedWrite'[p])
<1> DEFINE w == InitialData(p)
           d == scheme'[p]
<1>1. /\ written'[p] = w /\ pc'[p] = place /\ scheme[p] \in Schemes
      /\ provided'[p] = w /\ mappedWrite'[p] = MapData({}, w, Always)
  BY DEF Initialize, Goto, MapInitialWrittenData, Mappings, TypeOK
<1>2. d.time = scheme[p].time
  BY <1>1 DEF Initialize, TypeOK, Schemes
<1>3. d.time.start \in Nat /\ d.time.progress \in Nat
  BY <1>1, <1>2 DEF Schemes, Time!TimeHandlers
<1>4. \A s \in w : s.t = 0
  BY DEF InitialData
<1> HIDE DEF d, w
<1>5. mappedWrite'[p] = w
  BY <1>1, <1>4 DEF MapData, Always
<1>6. (\A s \in w : s.t <= d.time.start /\ s.t <= Time!TimeOf(d.time))
      /\ TrimAfter(w, d.time.start) = w
  BY <1>3, <1>4 DEF Time!TimeOf, TrimAfter
<1> QED
  BY <1>1, <1>5, <1>6 DEF MapsWrites, d, InitializeSteps, ExchangeSteps

\* What is left of a window and what is new in it are the whole.
LEMMA MapsRest ==
  ASSUME NEW store \in SUBSET Samples, NEW start \in Nat, NEW later \in Nat, start < later,
         NEW values \in SUBSET Samples
  PROVE  LET new == SetSampleAtTime(store, later, values)
         IN  /\ TrimAfter(new, start) = TrimAfter(store, start)
             /\ MapData(TrimAfter(store, start), new, start) = new
<1> DEFINE new == SetSampleAtTime(store, later, values)
           rest == TrimAfter(store, start)
<1>1. \A s \in new : s \in store \/ s.t = later
  BY DEF SetSampleAtTime, Samples
<1>2. \A s \in store : s.t \in Nat /\ (s.t # later => s \in new)
  BY DEF SetSampleAtTime, Samples
<1>3. \A s \in new : s.t \in Nat
  BY <1>1, <1>2
<1> HIDE DEF new
<1>4. TrimAfter(new, start) = rest
  BY <1>1, <1>2, <1>3 DEF TrimAfter
<1>5. rest \subseteq new /\ \A s \in rest : s.t <= start /\ s.t \in Nat
  BY <1>2 DEF TrimAfter
<1>6. \A s \in new : s.t <= start => s \in rest
  BY <1>4 DEF TrimAfter
<1> HIDE DEF rest
<1>7. MapData(rest, new, start) = new
  <2>1. MapData(rest, new, start) \subseteq new
    BY <1>5 DEF MapData
  <2>2. ASSUME NEW s \in new PROVE s \in MapData(rest, new, start)
    <3>1. CASE s.t <= start
      BY <1>6, <3>1 DEF MapData
    <3>2. CASE ~(s.t <= start)
      <4>1. s.t > start /\ \A r \in rest : r.t # s.t
        BY <1>3, <1>5, <3>2
      <4> QED
        BY <4>1 DEF MapData
    <3> QED
      BY <3>1, <3>2
  <2> QED
    BY <2>1, <2>2
<1> QED
  BY <1>4, <1>7 DEF new, rest

\* A step of the solver stores one sample on both sides, and maps it at the window's end.
LEMMA MapsStep ==
  ASSUME IInv, Mappings, NEW p \in Participants, NEW place \in ExchangeSteps, Advance(p, place),
         HandleDataBeforeAdvance(p),
         MapsWrites(scheme[p], "solving", written[p], provided[p], mappedWrite[p])
  PROVE  MapsWrites(scheme'[p], pc'[p], written'[p], provided'[p], mappedWrite'[p])
<1>1. /\ TypeOK /\ scheme[p] \in Schemes /\ written[p] \in SUBSET Samples
      /\ StepBound \in Nat /\ solver[p].time \in Nat
      /\ scheme[p].time.start \in Nat /\ scheme[p].time.progress \in Nat
  BY Types, ConfigAssumption DEF IInv, TypeOK, Schemes, Time!TimeHandlers
<1>2. PICK dt \in 1 .. StepBound :
        LET c == AddComputedTime(scheme[p], dt)
            windowEnd == ReachedEndOfTimeWindow(c)
        IN  /\ scheme' = [scheme EXCEPT ![p] = FirstExchange(c)]
            /\ written' = [written EXCEPT ![p] = IF windowEnd \/ p \in Substeps
                                                  THEN SamplizeWriteData(p, c, dt) ELSE @]
            /\ solver' = [solver EXCEPT ![p].time = @ + dt]
            /\ Goto(p, IF windowEnd THEN place ELSE "solving")
  BY DEF Advance
<1> DEFINE c == AddComputedTime(scheme[p], dt)
           d == FirstExchange(c)
           start == scheme[p].time.start
           later == Time!TimeOf(c.time)
           values == {[t |-> 0, at |-> solver[p].time + dt, round |-> Round(c)]}
           buffer == {[t |-> later, at |-> solver[p].time + dt, round |-> Round(c)]}
           new == SetSampleAtTime(written[p], later, values)
           stores == ReachedEndOfTimeWindow(c) \/ p \in Substeps
<1>3. /\ scheme'[p] = d /\ written'[p] = IF stores THEN new ELSE written[p]
      /\ pc'[p] = IF ReachedEndOfTimeWindow(c) THEN place ELSE "solving"
      /\ solver'[p].time = solver[p].time + dt
  BY <1>1, <1>2 DEF SamplizeWriteData, Goto, TypeOK
<1>4. place # "solving" /\ place \notin InitializeSteps /\ place # "constructed"
      /\ "solving" \notin InitializeSteps \cup ExchangeSteps
  BY DEF ExchangeSteps, InitializeSteps
<1>5. /\ c.time = Time!ProgressBy(scheme[p].time, dt) /\ d.time = c.time
      /\ Round(c) = Round(scheme[p]) /\ Round(c) \in Nat
  <2>1. /\ c \in Schemes /\ c.time = Time!ProgressBy(scheme[p].time, dt)
        /\ c.timeWindows = scheme[p].timeWindows
        /\ c.totalIterations = scheme[p].totalIterations
    BY <1>1, AddComputedTimeMembers DEF AddComputedTime, Schemes
  <2>2. d.time = c.time
    BY <2>1, FirstExchangeMembers
  <2> HIDE DEF c, d
  <2> QED
    BY <2>1, <2>2 DEF Round, Schemes
<1>6. /\ dt \in Nat \ {0} /\ d.time.start = start /\ later \in Nat /\ start < later
      /\ later = Time!TimeOf(scheme[p].time) + dt /\ Time!TimeOf(scheme[p].time) \in Nat
      /\ Time!TimeOf(d.time) = later
  <2>1. c.time = [scheme[p].time EXCEPT !.progress = @ + dt]
    BY <1>5 DEF Time!ProgressBy
  <2>2. c.time.start = start /\ c.time.progress = scheme[p].time.progress + dt
    BY <1>1, <2>1 DEF Schemes, Time!TimeHandlers
  <2> HIDE DEF c, d
  <2> QED
    BY <1>1, <1>5, <2>2 DEF Time!TimeOf
<1>7. SetSampleAtTime(written[p], later, buffer) = new
  <2>1. {[v EXCEPT !.t = later] : v \in buffer} = {[v EXCEPT !.t = later] : v \in values}
    OBVIOUS
  <2> QED
    BY <2>1 DEF SetSampleAtTime
<1>8. values \in SUBSET Samples
  BY <1>1, <1>5, <1>6 DEF Samples
<1>9. /\ provided[p] = written[p] /\ mappedWrite[p] = TrimAfter(written[p], start)
      /\ \A s \in written[p] : s.t <= Time!TimeOf(scheme[p].time)
  BY DEF MapsWrites
<1>10. /\ provided'[p] = IF stores THEN new ELSE written[p]
       /\ mappedWrite'[p] = IF pc'[p] # "solving" THEN MapData(mappedWrite[p], new, start)
                            ELSE mappedWrite[p]
  <2>1. pc'[p] # "solving" <=> ReachedEndOfTimeWindow(c)
    BY <1>3, <1>4
  <2>2. {[t |-> Time!TimeOf(scheme'[p].time), at |-> solver'[p].time,
          round |-> Round(scheme[p])]} = buffer
    <3> HIDE DEF c, d, later
    <3> QED
      BY <1>3, <1>5, <1>6
  <2>3. Time!TimeOf(scheme'[p].time) = later
    BY <1>3, <1>6
  <2> HIDE DEF c, d, buffer, new, later
  <2> QED
    BY <1>7, <1>9, <2>1, <2>2, <2>3 DEF HandleDataBeforeAdvance, Mappings
<1> HIDE DEF c, d, later, values, buffer
<1>11. /\ TrimAfter(new, start) = TrimAfter(written[p], start)
       /\ MapData(TrimAfter(written[p], start), new, start) = new
  BY <1>1, <1>6, <1>8, MapsRest
<1>12. \A s \in new : s.t <= later
  <2> SUFFICES ASSUME NEW s \in new PROVE s.t <= later
    OBVIOUS
  <2>1. CASE s \in written[p]
    BY <1>1, <1>6, <1>9, <2>1 DEF Samples
  <2>2. CASE s \notin written[p]
    <3>1. PICK v \in values : s = [v EXCEPT !.t = later]
      BY <2>2 DEF SetSampleAtTime
    <3> QED
      BY <1>6, <1>8, <3>1 DEF Samples
  <2> QED
    BY <2>1, <2>2
<1>13. \A s \in written[p] : s.t <= later
  BY <1>1, <1>6, <1>9 DEF Samples
<1> HIDE DEF new, start
<1>14. CASE ReachedEndOfTimeWindow(c)
  <2>1. /\ written'[p] = new /\ provided'[p] = new /\ mappedWrite'[p] = new
        /\ pc'[p] = place
    BY <1>3, <1>4, <1>9, <1>10, <1>11, <1>14
  <2> QED
    BY <1>3, <1>4, <1>6, <1>12, <2>1 DEF MapsWrites
<1>15. CASE ~ReachedEndOfTimeWindow(c)
  <2>1. /\ pc'[p] = "solving" /\ written'[p] = provided'[p]
        /\ mappedWrite'[p] = TrimAfter(written'[p], start)
        /\ \A s \in written'[p] : s.t <= later
    BY <1>3, <1>9, <1>10, <1>11, <1>12, <1>13, <1>15
  <2> QED
    BY <1>3, <1>4, <1>6, <2>1 DEF MapsWrites
<1> QED
  BY <1>14, <1>15

\* The end of advance() leaves the same on both sides of the mapping, whether the window
\* is complete or repeated.
LEMMA MapsFinish ==
  ASSUME TypeOK, Mappings, NEW p \in Participants, NEW c \in Schemes, NEW w \in SUBSET Samples,
         NEW r, NEW toKeep, FinishAdvance(p, c, Moved(c, w), r), HandleDataAfterAdvance(p, toKeep),
         provided[p] = w, mappedWrite[p] = w, \A s \in w : s.t <= Time!TimeOf(c.time)
  PROVE  MapsWrites(scheme'[p], pc'[p], written'[p], provided'[p], mappedWrite'[p])
<1> DEFINE d == SecondExchange(c)
           now == Time!TimeOf(d.time)
<1>1. /\ scheme'[p] = d /\ pc'[p] = "solving"
      /\ written'[p] = IF d.isTimeWindowComplete THEN TrimBefore(Moved(c, w), now)
                       ELSE TrimAfter(Moved(c, w), now)
  BY DEF FinishAdvance, Goto, TypeOK
<1>2. /\ provided'[p] = IF d.isTimeWindowComplete THEN TrimBefore(w, d.time.start)
                        ELSE TrimAfter(w, now)
      /\ mappedWrite'[p] = IF d.isTimeWindowComplete THEN TrimBefore(Last(w), d.time.start)
                           ELSE TrimAfter(w, now)
  BY <1>1 DEF HandleDataAfterAdvance, Mappings, TrimSendDataAfter, MoveToNextWindow
<1>3. /\ d.isTimeWindowComplete <=> Complete(c)
      /\ d.time.progress = 0 /\ d.time.start \in Nat
      /\ d.time.start = IF Complete(c) THEN Time!TimeOf(c.time) ELSE c.time.start
  <2>1. Time!TimeOf(c.time) \in Nat /\ c.time.start \in Nat
    BY TimeOfType DEF Schemes, Time!TimeHandlers
  <2>2. /\ d.isTimeWindowComplete <=> Complete(c)
        /\ d.time.progress = 0
        /\ d.time.start = IF Complete(c) THEN Time!TimeOf(c.time) ELSE c.time.start
    BY SecondExchangeMembers
  <2> HIDE DEF d
  <2> QED
    BY <2>1, <2>2
<1>4. now = d.time.start
  <2> HIDE DEF d
  <2> QED
    BY <1>3 DEF Time!TimeOf
<1>5. \A s \in w : s.t \in Nat
  BY DEF Samples
<1>6. Moved(c, w) = IF Complete(c) THEN Last(w) ELSE w
  BY DEF Moved, MoveToNextWindow, Complete
<1>7. "solving" \notin InitializeSteps \cup ExchangeSteps
  BY DEF InitializeSteps, ExchangeSteps
<1> HIDE DEF d, now
<1>8. CASE Complete(c)
  <2>1. \A s \in w : s.t <= now
    BY <1>3, <1>4, <1>8
  <2>2. TrimBefore(w, now) = TrimBefore(Last(w), now)
    BY <1>3, <1>4, <1>5, <2>1 DEF TrimBefore, Last
  <2>3. /\ \A s \in TrimBefore(w, now) : s.t <= now
        /\ TrimAfter(TrimBefore(w, now), now) = TrimBefore(w, now)
    BY <2>1 DEF TrimBefore, TrimAfter
  <2> QED
    BY <1>1, <1>2, <1>3, <1>4, <1>6, <1>7, <1>8, <2>2, <2>3 DEF MapsWrites, now
<1>9. CASE ~Complete(c)
  <2>1. /\ \A s \in TrimAfter(w, now) : s.t <= now
        /\ TrimAfter(TrimAfter(w, now), now) = TrimAfter(w, now)
    BY DEF TrimAfter
  <2> QED
    BY <1>1, <1>2, <1>3, <1>4, <1>6, <1>7, <1>9, <2>1 DEF MapsWrites, now
<1> QED
  BY <1>8, <1>9

\* What p has of the data it reads on its own side of the mapping (mapped) when it is at
\* a place with its scheme c and has received r: all of it while its solver computes, and
\* until more is received what it had then.  Who is a window ahead (toKeep) has the
\* end of the window, who is not has in explicit coupling its start.
MapsReads(toKeep, place, c, r, mapped) ==
  /\ place \in Early => mapped = {}
  /\ place = "solving" => mapped = r
  /\ place \in ExchangeSteps =>
       /\ mapped \in SUBSET Samples /\ Rooted(mapped, OwnRoot(place, c))
       /\ toKeep => Stamped(mapped) /\ EndsIn(mapped, RoundAt(place, c), Time!TimeOf(c.time))
       /\ ~toKeep /\ ~Implicit => \A s \in mapped : s.t <= c.time.start

\* A step of p leaves the mappings of the other participant alone.
LEMMA MappingsOfOne ==
  ASSUME Mappings, NEW p \in Participants,
         \/ MapInitialWrittenData(p) \/ DuringInitialize(p) \/ HandleDataBeforeAdvance(p)
         \/ \E toKeep \in BOOLEAN : DuringAdvance(p, toKeep)
         \/ UNCHANGED flow
  PROVE  /\ Mappings'
         /\ \A q \in Participants \ {p} :
              /\ provided'[q] = provided[q] /\ mappedWrite'[q] = mappedWrite[q]
              /\ mappedRead'[q] = mappedRead[q]
<1>0. MapInitialReadData(p) =>
        /\ DOMAIN mappedRead' = Participants
        /\ \A q \in Participants \ {p} : mappedRead'[q] = mappedRead[q]
  BY DEF MapInitialReadData, Mappings
<1>1. CASE MapInitialWrittenData(p)
  BY <1>0, <1>1 DEF MapInitialWrittenData, Mappings, Participants
<1>2. CASE DuringInitialize(p)
  BY <1>0, <1>2 DEF DuringInitialize, Mappings, Participants
<1>3. CASE HandleDataBeforeAdvance(p)
  BY <1>3 DEF HandleDataBeforeAdvance, Mappings, Participants
<1>4. ASSUME NEW toKeep \in BOOLEAN, HandleDataAfterAdvance(p, toKeep)
      PROVE  /\ Mappings'
             /\ \A q \in Participants \ {p} :
                  /\ provided'[q] = provided[q] /\ mappedWrite'[q] = mappedWrite[q]
                  /\ mappedRead'[q] = mappedRead[q]
  BY <1>4 DEF HandleDataAfterAdvance, Mappings, Participants
<1>5. CASE UNCHANGED flow
  BY <1>5 DEF flow, Mappings, Participants
<1> QED
  BY <1>1, <1>2, <1>3, <1>4, <1>5 DEF DuringAdvance

\* Going on inside initialize() or an exchange, or leaving, maps nothing that is read.
LEMMA ReadsMeanwhile ==
  ASSUME NEW toKeep, NEW place, NEW c, NEW r, NEW mapped, MapsReads(toKeep, place, c, r, mapped),
         NEW there, NEW d, NEW s, d.time = c.time, d.iterations = c.iterations,
         d.timeWindows = c.timeWindows, d.totalIterations = c.totalIterations,
         there \in Early => place \in Early, there = "solving" => place = "solving" /\ s = r,
         there \in ExchangeSteps => place \in ExchangeSteps
  PROVE  MapsReads(toKeep, there, d, s, mapped)
<1>1. there \in ExchangeSteps => RoundAt(there, d) = RoundAt(place, c)
  BY DEF RoundAt, WindowAt
<1> QED
  BY <1>1 DEF MapsReads, OwnRoot

\* The last step of initialize() maps all that has been received.
LEMMA ReadsInitial ==
  ASSUME Mappings, NEW p \in Participants, mappedRead[p] = {}, MapInitialReadData(p),
         pc'[p] \in InitializeSteps \cup {"solving"}, received'[p] \in SUBSET Samples,
         NEW toKeep, NEW c
  PROVE  MapsReads(toKeep, pc'[p], c, received'[p], mappedRead'[p])
<1>1. pc'[p] # "solving" => mappedRead'[p] = {}
  BY DEF MapInitialReadData, Mappings
<1>2. \A s \in received'[p] : s.t > -1
  BY DEF Samples
<1>3. pc'[p] = "solving" => mappedRead'[p] = received'[p]
  BY <1>2 DEF MapInitialReadData, Mappings, MapData, Always
<1>4. pc'[p] \notin ExchangeSteps /\ "solving" \notin Early
  BY DEF InitializeSteps, ExchangeSteps, Early
<1> QED
  BY <1>1, <1>3, <1>4 DEF MapsReads

\* secondExchange() ends one round.
LEMMA FinishCounts ==
  ASSUME NEW c \in Schemes, NEW place \in ExchangeSteps
  PROVE  RoundAt("solving", SecondExchange(c)) = RoundAt(place, c) + 1
<1> DEFINE d == SecondExchange(c)
<1>1. /\ d.timeWindows = IF Complete(c) THEN c.timeWindows ELSE c.timeWindows - 1
      /\ d.totalIterations = IF Implicit THEN c.totalIterations + 1 ELSE c.totalIterations
  BY SecondExchangeMembers
<1>2. "solving" \notin ExchangeSteps
  BY DEF ExchangeSteps
<1> HIDE DEF d
<1>3. RoundAt("solving", d) = RoundAt(place, c) + 1
  BY <1>1, <1>2 DEF RoundAt, WindowAt, Complete, Schemes
<1> QED
  BY <1>3 DEF d

\* What has been received is mapped anew if nothing but its root is left of what was.
LEMMA ReadsAfresh ==
  ASSUME NEW left, NEW r \in SUBSET Samples, NEW root, Rooted(r, root), left \subseteq {root}
  PROVE  MapData(left, r, Always) = r
<1>1. root \in r /\ \A s \in r : s.t <= root.t => s = root
  BY DEF Rooted, TrimAfter
<1>2. \A s \in r : s.t > -1 /\ s.t \in Nat
  BY DEF Samples
<1>3. \A s \in r : s = root \/ s.t # root.t
  BY <1>1, <1>2
<1> QED
  BY <1>1, <1>2, <1>3 DEF MapData, Always

\* The end of advance() leaves no sample of the iteration before but the root.
LEMMA ReadsFinish ==
  ASSUME TypeOK, Mappings, NEW p \in Participants, NEW c \in Schemes, NEW w, NEW r,
         FinishAdvance(p, c, w, r), NEW toKeep \in BOOLEAN, HandleDataAfterAdvance(p, toKeep),
         NEW place \in ExchangeSteps, c.time.progress > 0,
         MapsReads(toKeep, place, c, received[p], mappedRead[p]),
         NEW k \in Nat, k = RoundAt(place, c), received'[p] \in SUBSET Samples,
         Rooted(received'[p], OwnRoot("solving", SecondExchange(c)))
  PROVE  MapsReads(toKeep, "solving", SecondExchange(c), received'[p], mappedRead'[p])
<1> DEFINE d == SecondExchange(c)
           now == Time!TimeOf(d.time)
           end == Time!TimeOf(c.time)
           start == c.time.start
           root == OwnRoot("solving", d)
           kept == mappedRead[p]
           read == IF d.isTimeWindowComplete THEN TrimBefore(kept, d.time.start) ELSE kept
           left == TrimReadMappedData(read, d.isTimeWindowComplete, toKeep, now)
<1>1. scheme'[p] = d
  BY DEF FinishAdvance, TypeOK
<1>2. mappedRead'[p] = MapData(left, received'[p], Always)
  BY <1>1 DEF HandleDataAfterAdvance, Mappings
<1>3. /\ d.isTimeWindowComplete <=> Complete(c)
      /\ d.time.progress = 0 /\ d.time.start = IF Complete(c) THEN end ELSE start
      /\ d.iterations = IF Complete(c) THEN 1 ELSE c.iterations + 1
  BY SecondExchangeMembers
<1>4. start \in Nat /\ end \in Nat /\ start < end /\ c.iterations \in Nat
  BY DEF Schemes, Time!TimeHandlers, Time!TimeOf
<1>5. /\ kept \in SUBSET Samples /\ Rooted(kept, OwnRoot(place, c))
      /\ toKeep => Stamped(kept) /\ EndsIn(kept, k, end)
      /\ ~toKeep /\ ~Implicit => \A s \in kept : s.t <= start
  BY DEF MapsReads
<1>6. root = IF Complete(c) THEN RootOf(end, k) ELSE OwnRoot(place, c)
  <2>1. /\ (k + 1) - 1 = k /\ (k + 1) - (c.iterations + 1) = k - c.iterations
        /\ RoundAt("solving", d) = k + 1
    BY <1>4, FinishCounts
  <2> HIDE DEF d, end
  <2> QED
    BY <1>3, <2>1 DEF OwnRoot
<1>7. now = d.time.start
  <2> HIDE DEF d
  <2> QED
    BY <1>3, <1>4 DEF Time!TimeOf
<1> HIDE DEF d, now, end, root, kept, start
<1>8. Complete(c) /\ toKeep => TrimBefore(kept, end) \subseteq {root}
  <2> SUFFICES ASSUME Complete(c), toKeep, NEW s \in TrimBefore(kept, end) PROVE s = root
    OBVIOUS
  <2>1. s \in kept /\ s.t >= end /\ s.t <= end /\ s.t = s.at /\ (s.t = end => s.round = k)
    BY <1>5 DEF TrimBefore, EndsIn, Stamped
  <2>2. s = [t |-> s.t, at |-> s.at, round |-> s.round] /\ s.t \in Nat
    BY <1>5, <2>1 DEF Samples
  <2>3. s.t = end
    BY <1>4, <2>1, <2>2
  <2> QED
    BY <1>6, <2>1, <2>2, <2>3 DEF RootOf
<1>9. ~toKeep /\ ~Implicit => TrimBefore(kept, end) = {}
  <2> SUFFICES ASSUME ~toKeep, ~Implicit, NEW s \in TrimBefore(kept, end) PROVE FALSE
    OBVIOUS
  <2>1. s \in kept /\ s.t >= end /\ s.t <= start
    BY <1>5 DEF TrimBefore
  <2> QED
    BY <1>4, <1>5, <2>1 DEF Samples
<1>10. left \subseteq {root}
  <2>1. CASE ~Complete(c)
    <3>1. Implicit /\ ~d.isTimeWindowComplete /\ now = start
      BY <1>3, <1>7, <2>1 DEF Complete
    <3>2. left = TrimAfter(kept, start)
      BY <3>1 DEF TrimReadMappedData
    <3>3. OwnRoot(place, c).t = start
      BY DEF OwnRoot, RootOf, start
    <3> HIDE DEF left
    <3> QED
      BY <1>5, <1>6, <2>1, <3>2, <3>3 DEF Rooted
  <2>2. CASE Complete(c)
    <3>1. d.isTimeWindowComplete /\ d.time.start = end
      BY <1>3, <2>2
    <3>2. read = TrimBefore(kept, end)
      BY <3>1
    <3>3. left \in IF ~Implicit THEN {read} ELSE IF toKeep THEN {Last(read)} ELSE {{}}
      BY <3>1 DEF TrimReadMappedData, ClearExceptLast, Clear
    <3>4. Last(read) \subseteq read
      BY DEF Last
    <3> HIDE DEF left, read
    <3> QED
      BY <1>8, <1>9, <2>2, <3>2, <3>3, <3>4
  <2> QED
    BY <2>1, <2>2
<1> HIDE DEF left
<1>11. mappedRead'[p] = received'[p]
  BY <1>2, <1>10, ReadsAfresh DEF root, d
<1>12. "solving" \notin Early \cup ExchangeSteps
  BY DEF Early, InitializeSteps, ExchangeSteps
<1> QED
  BY <1>11, <1>12 DEF MapsReads

\* The configuration is all that the maps read of the state.
LEMMA MapsNext ==
  ASSUME config' = config, NEW toKeep, NEW place, NEW c, NEW x, NEW y, NEW z
  PROVE  /\ MapsWrites(c, place, x, y, z)' <=> MapsWrites(c, place, x, y, z)
         /\ MapsReads(toKeep, place, c, x, y)' <=> MapsReads(toKeep, place, c, x, y)
<1>1. UNCHANGED Implicit /\ RoundAt(place, c)' = RoundAt(place, c)
      /\ OwnRoot(place, c)' = OwnRoot(place, c)
  BY DEF Implicit, RoundAt, OwnRoot
<1>2. MapsWrites(c, place, x, y, z)' <=> MapsWrites(c, place, x, y, z)
  BY DEF MapsWrites, Time!TimeOf
<1>3. MapsReads(toKeep, place, c, x, y)' <=> MapsReads(toKeep, place, c, x, y)
  BY <1>1 DEF MapsReads, Time!TimeOf
<1> QED
  BY <1>2, <1>3

\* A call other than initialize() and advance() exchanges nothing.
LEMMA ApiCallMembers ==
  ASSUME TypeOK, NEW p \in Participants, ApiCall(p)
  PROVE  /\ UNCHANGED <<written, received>> /\ scheme'[p].time = scheme[p].time
         /\ scheme'[p].iterations = scheme[p].iterations
         /\ scheme'[p].timeWindows = scheme[p].timeWindows
         /\ scheme'[p].totalIterations = scheme[p].totalIterations
         /\ \/ pc'[p] = "solving" /\ pc[p] = "solving"
            \/ pc'[p] \in {"receivePing", "receivePong"} \cup Ends
<1>1. scheme[p] \in Schemes
  BY DEF TypeOK
<1>2. CASE RequiresWritingCheckpoint(p) \/ RequiresReadingCheckpoint(p)
  <2>1. /\ UNCHANGED <<pc, written, received>> /\ pc[p] = "solving"
        /\ \E x : scheme'[p] = [scheme[p] EXCEPT !.fulfilledActions = x]
    BY <1>2 DEF RequiresWritingCheckpoint, RequiresReadingCheckpoint, TypeOK
  <2> QED
    BY <1>1, <2>1 DEF Schemes
<1>3. CASE Finalize(p)
  <2>1. /\ UNCHANGED <<written, received>> /\ scheme'[p] = ClearActions(scheme[p])
        /\ pc'[p] \in {"receivePong", "receivePing", "finalized"}
    BY <1>3 DEF Finalize, CloseCommunicationChannels, Goto, TypeOK
  <2> QED
    BY <1>1, <2>1, AlikeMembers DEF Alike, Ends
<1>4. CASE ReceivePing(p) \/ ReceivePong(p) \/ LosePartner(p)
  BY <1>4 DEF ReceivePing, ReceivePong, LosePartner, Goto, TypeOK, Ends
<1> QED
  BY <1>2, <1>3, <1>4 DEF ApiCall

\* A step of p moves nothing of the other participant but its messages.
Alone(p) ==
  \A q \in Participants \ {p} :
    /\ pc'[q] = pc[q] /\ scheme'[q] = scheme[q]
    /\ written'[q] = written[q] /\ received'[q] = received[q]

\* ... of each action that both schemes share.
LEMMA CommonStepsAlone ==
  ASSUME TypeOK, NEW p \in Participants, NEW place, NEW c, NEW w, NEW r,
         \/ Initialize(p, place) \/ InitSendData(p, place) \/ InitReceiveData(p, c, place)
         \/ Advance(p, place) \/ FinishAdvance(p, c, w, r)
         \/ FirstSendsData(p) \/ ReceiveConvergence(p) \/ SendConvergence(p) \/ ApiCall(p)
  PROVE  Alone(p)
<1>1. CASE Initialize(p, place)
  BY <1>1 DEF Initialize, Goto, TypeOK, Alone
<1>2. CASE InitSendData(p, place)
  BY <1>2 DEF InitSendData, Goto, TypeOK, Alone
<1>3. CASE InitReceiveData(p, c, place)
  BY <1>3 DEF InitReceiveData, Goto, TypeOK, Alone
<1>4. CASE Advance(p, place)
  BY <1>4 DEF Advance, Goto, TypeOK, Alone
<1>5. CASE FinishAdvance(p, c, w, r)
  BY <1>5 DEF FinishAdvance, Goto, TypeOK, Alone
<1>6. CASE FirstSendsData(p)
  BY <1>6 DEF FirstSendsData, Goto, TypeOK, Alone
<1>7. CASE ReceiveConvergence(p)
  BY <1>7 DEF ReceiveConvergence, Goto, TypeOK, Alone
<1>8. CASE SendConvergence(p)
  BY <1>8 DEF SendConvergence, Goto, TypeOK, Alone
<1>9. CASE RequiresWritingCheckpoint(p) \/ RequiresReadingCheckpoint(p)
  BY <1>9 DEF RequiresWritingCheckpoint, RequiresReadingCheckpoint, TypeOK, Alone
<1>10. CASE Finalize(p)
  BY <1>10 DEF Finalize, CloseCommunicationChannels, Goto, TypeOK, Alone
<1>11. CASE ReceivePing(p) \/ ReceivePong(p) \/ LosePartner(p)
  BY <1>11 DEF ReceivePing, ReceivePong, LosePartner, Goto, TypeOK, Alone
<1> QED
  BY <1>1, <1>2, <1>3, <1>4, <1>5, <1>6, <1>7, <1>8, <1>9, <1>10, <1>11 DEF ApiCall
================================================================================
