------------------------- MODULE MessageQueue_proof -------------------------
(* Proofs about the ring of MessageQueue, for every size, number of          *)
(* connections and clock bound.                                              *)
EXTENDS MessageQueue, SequenceTheorems, TLAPS

(* The inductive invariant: the types and the shape of the ring need each    *)
(* other, a sweep stays inside the ring only because the ring is well formed.*)
IInv == TypeOK /\ RingOK

USE QueueAssumption DEF Index, NotUsed, Waiting, Sent, NoSlot

-----------------------------------------------------------------------------
(* Ring arithmetic. *)

LEMMA UpType ==
  ASSUME NEW i \in Index, NEW d \in 0..Size
  PROVE  Up(i, d) \in Index
BY DEF Up

LEMMA OffsetType ==
  ASSUME firstMsgIndex \in Index, NEW i \in Index
  PROVE  Offset(i) \in Index /\ Up(firstMsgIndex, Offset(i)) = i
BY DEF Offset, Up

LEMMA OffsetTypePrime ==
  ASSUME firstMsgIndex' \in Index, NEW i \in Index
  PROVE  Offset(i)' \in Index
<1>1. PICK f \in Index : f = firstMsgIndex'
      OBVIOUS
<1>2. Offset(i)' = IF i >= f THEN i - f ELSE i - f + Size
      BY <1>1 DEF Offset
<1> QED BY <1>2

LEMMA OffsetUp ==
  ASSUME firstMsgIndex \in Index, NEW d \in Index
  PROVE  Up(firstMsgIndex, d) \in Index /\ Offset(Up(firstMsgIndex, d)) = d
BY DEF Offset, Up

LEMMA OffsetInjective ==
  ASSUME firstMsgIndex \in Index, NEW i \in Index, NEW j \in Index,
         Offset(i) = Offset(j)
  PROVE  i = j
BY DEF Offset

LEMMA OffsetDown ==
  ASSUME firstMsgIndex \in Index, NEW i \in Index, NEW d \in 0..Offset(i)
  PROVE  /\ Down(i, d) \in Index
         /\ Offset(Down(i, d)) = Offset(i) - d
         /\ (Down(i, d) = firstMsgIndex <=> d = Offset(i))
BY DEF Offset, Down

(* The slots swept from i back to the oldest entry are those not after i. *)
LEMMA SweptSlots ==
  ASSUME firstMsgIndex \in Index, NEW i \in Index
  PROVE  \A s \in Index : s \in {Down(i, e) : e \in 0..Offset(i)} <=> Offset(s) <= Offset(i)
<1> SUFFICES ASSUME NEW s \in Index
             PROVE  s \in {Down(i, e) : e \in 0..Offset(i)} <=> Offset(s) <= Offset(i)
    OBVIOUS
<1>0. Offset(i) \in Index /\ Offset(s) \in Index
      BY OffsetType
<1>1. ASSUME NEW e \in 0..Offset(i), s = Down(i, e)
      PROVE  Offset(s) <= Offset(i)
      BY <1>0, <1>1, OffsetDown
<1>2. ASSUME Offset(s) <= Offset(i)
      PROVE  \E e \in 0..Offset(i) : s = Down(i, e)
  <2>1. Offset(i) - Offset(s) \in 0..Offset(i)
        BY <1>0, <1>2
  <2>2. s = Down(i, Offset(i) - Offset(s))
        BY <1>0, <2>1, <1>2 DEF Offset, Down
  <2> QED BY <2>1, <2>2
<1> QED BY <1>1, <1>2

(* In a well-formed ring the backward sweep ends at the oldest entry. *)
LEMMA SweepReachesFirst ==
  ASSUME IInv, NEW i \in Index, entryCounter > 0, StateAt(i) = Sent
  PROVE  /\ firstMsgIndex \in Index
         /\ Offset(i) \in Index /\ Offset(i) < entryCounter
         /\ SweepLength(i) = Offset(i)
         /\ Down(i, Offset(i)) = firstMsgIndex
<1> DEFINE o == Offset(i)
<1>0. firstMsgIndex \in Index /\ entryCounter \in 1..Size
      BY DEF IInv, TypeOK, RingOK, Contiguous
<1>1. o \in Index /\ o < entryCounter
      BY <1>0, OffsetType DEF IInv, RingOK, Contiguous
<1>2. Down(i, o) = firstMsgIndex
      BY <1>0, <1>1, OffsetDown
<1>3. SweepStops(i, o)
      BY <1>2 DEF SweepStops
<1>4. ASSUME NEW e \in 0..(o - 1)
      PROVE  ~SweepStops(i, e)
  <2>1. Down(i, e + 1) \in Index /\ Offset(Down(i, e + 1)) = o - (e + 1)
        BY <1>0, <1>1, OffsetDown
  <2>2. StateAt(Down(i, e + 1)) = Sent
        BY <1>0, <1>1, <2>1 DEF IInv, RingOK, SentPrefix
  <2>3. Down(i, e) # firstMsgIndex
        BY <1>0, <1>1, OffsetDown
  <2> QED BY <1>0, <1>1, <2>2, <2>3 DEF SweepStops
<1>5. ASSUME NEW d \in Index, SweepStops(i, d), \A e \in 0..(d - 1) : ~SweepStops(i, e)
      PROVE  d = o
      BY <1>1, <1>3, <1>4, <1>5
<1>6. SweepLength(i) = o
      BY <1>1, <1>3, <1>4, <1>5 DEF SweepLength
<1> QED BY <1>0, <1>1, <1>2, <1>6

(* What the forward scan returns: the oldest waiting entry. *)
LEMMA NextWaitingIsOldest ==
  ASSUME IInv, NextWaiting # NoSlot
  PROVE  /\ entryCounter > 0
         /\ NextWaiting \in Index
         /\ StateAt(NextWaiting) = Waiting
         /\ \A j \in Index : Offset(j) < Offset(NextWaiting) => StateAt(j) = Sent
<1>0. entryCounter > 0 /\ firstMsgIndex \in Index
      BY DEF NextWaiting, IInv, TypeOK, RingOK, Contiguous
<1>1. PICK d \in ScanStop : StateAt(Up(firstMsgIndex, d)) = Waiting
      BY DEF NextWaiting
<1>2. \A e \in ScanStop : e = d
      BY <1>1 DEF ScanStop
<1>3. NextWaiting = Up(firstMsgIndex, d)
      BY <1>0, <1>1, <1>2 DEF NextWaiting
<1>4. d \in Index /\ Offset(NextWaiting) = d /\ NextWaiting \in Index
      BY <1>0, <1>3, OffsetUp DEF ScanStop
<1>5. ASSUME NEW j \in Index, Offset(j) < d
      PROVE  StateAt(j) = Sent
  <2>1. Offset(j) \in 0..(d - 1) /\ Up(firstMsgIndex, Offset(j)) = j
        BY <1>0, <1>4, <1>5, OffsetType
  <2> QED BY <1>1, <2>1 DEF ScanStop
<1> QED BY <1>0, <1>1, <1>3, <1>4, <1>5

-----------------------------------------------------------------------------
LEMMA InitIInv == Init => IInv
<1> SUFFICES ASSUME Init PROVE IInv
    OBVIOUS
<1>1. asdus \in [Index -> Slot] /\ \A i \in Index : StateAt(i) = NotUsed
      BY DEF Init, Slot, StateAt
<1>2. sentASDUs \in [Conns -> Seq(Handle)]
      BY DEF Init
<1>3. TypeOK
  <2>1. entryCounter = 0 /\ firstMsgIndex = 0 /\ lastMsgIndex = 0 /\ released = FALSE
        /\ now = 0 /\ enqueued = 0 /\ confirmed = {} /\ repeated = FALSE
        BY DEF Init
  <2>2. /\ entryCounter \in 0..Size /\ now \in 0..MaxTime /\ enqueued \in 0..MaxAsdu
        /\ firstMsgIndex \in -1..(Size - 1) /\ lastMsgIndex \in -1..(Size - 1)
        BY <2>1
  <2> QED BY <1>1, <1>2, <2>1, <2>2 DEF TypeOK
<1>4. RingOK
      BY <1>1 DEF Init, RingOK, Contiguous, EmptyIsClean, SentPrefix, ReleasedIsEmpty
<1> QED BY <1>3, <1>4 DEF IInv

(* An event is added: behind the newest entry, over the oldest when full.     *)
(* Every other slot keeps its distance, or comes one nearer when the oldest   *)
(* entry goes.                                                                *)
EnqueuesAt(n, t) ==
  /\ asdus' = [asdus EXCEPT ![n] =
                 [entryTimestamp |-> t, asdu |-> enqueued + 1, state |-> Waiting]]
  /\ entryCounter' = IF entryCounter = Size THEN Size ELSE entryCounter + 1
  /\ entryCounter' \in 1..Size /\ firstMsgIndex' \in Index /\ lastMsgIndex' = n
  /\ lastMsgIndex' = Up(firstMsgIndex', entryCounter' - 1)
  /\ \A i \in Index : Offset(i)' = entryCounter' - 1 <=> i = n
  /\ entryCounter > 0 =>
       \A i \in Index \ {n} :
         Offset(i)' = IF entryCounter = Size THEN Offset(i) - 1 ELSE Offset(i)

LEMMA EnqueueSlot ==
  ASSUME IInv, NEW t \in 1..MaxTime, EnqueueASDU(t)
  PROVE  \E n \in Index : EnqueuesAt(n, t)
<1> DEFINE full == entryCounter = Size
<1>0. /\ entryCounter \in 0..Size
      /\ entryCounter > 0 => /\ firstMsgIndex \in Index
                            /\ lastMsgIndex = Up(firstMsgIndex, entryCounter - 1)
      BY DEF IInv, TypeOK, RingOK, Contiguous
<1>1. PICK n \in Index : n = IF entryCounter = 0 THEN 0 ELSE Up(lastMsgIndex, 1)
      BY <1>0 DEF Up
<1>2. /\ lastMsgIndex' = n
      /\ entryCounter' = IF full THEN entryCounter ELSE entryCounter + 1
      /\ firstMsgIndex' = IF full THEN Up(n, 1)
                          ELSE IF entryCounter = 0 THEN 0 ELSE firstMsgIndex
      /\ asdus' = [asdus EXCEPT ![n] =
                     [entryTimestamp |-> t, asdu |-> enqueued + 1, state |-> Waiting]]
      BY <1>1 DEF EnqueueASDU
<1>3. entryCounter' \in 1..Size /\ firstMsgIndex' \in Index
  <2>1. entryCounter' \in 1..Size
        BY <1>0, <1>2
  <2>2. firstMsgIndex' \in Index
        BY <1>0, <1>1, <1>2 DEF Up
  <2> QED BY <2>1, <2>2
<1>4. lastMsgIndex' = Up(firstMsgIndex', entryCounter' - 1)
      BY <1>0, <1>1, <1>2, <1>3 DEF Up
<1>5. \A i \in Index : Offset(i)' = entryCounter' - 1 <=> i = n
  <2> SUFFICES ASSUME NEW i \in Index
               PROVE  Offset(i)' = entryCounter' - 1 <=> i = n
      OBVIOUS
  <2>1. CASE full
    <3>1. firstMsgIndex' = Up(n, 1) /\ entryCounter' = Size
          BY <1>2, <2>1
    <3> QED BY <3>1 DEF Up, Offset
  <2>2. CASE entryCounter = 0
    <3>1. firstMsgIndex' = 0 /\ entryCounter' = 1 /\ n = 0
          BY <1>1, <1>2, <2>2
    <3> QED BY <3>1 DEF Offset
  <2>3. CASE ~full /\ entryCounter # 0
    <3>1. /\ firstMsgIndex' = firstMsgIndex /\ firstMsgIndex \in Index
          /\ entryCounter' = entryCounter + 1 /\ entryCounter \in 1..(Size - 1)
          /\ n = Up(Up(firstMsgIndex, entryCounter - 1), 1)
          BY <1>0, <1>1, <1>2, <2>3
    <3> QED BY <3>1 DEF Up, Offset
  <2> QED BY <2>1, <2>2, <2>3
<1>6. ASSUME NEW i \in Index, i # n, entryCounter > 0
      PROVE  Offset(i)' = IF full THEN Offset(i) - 1 ELSE Offset(i)
      BY <1>0, <1>1, <1>2, <1>6 DEF Up, Offset
<1>7. entryCounter > 0 =>
        \A i \in Index \ {n} :
          Offset(i)' = IF entryCounter = Size THEN Offset(i) - 1 ELSE Offset(i)
      BY <1>6
<1>8. entryCounter' = IF entryCounter = Size THEN Size ELSE entryCounter + 1
      BY <1>2
<1> QED BY <1>2, <1>3, <1>4, <1>5, <1>7, <1>8 DEF EnqueuesAt

LEMMA EnqueueStep ==
  ASSUME IInv, NEW t \in 1..MaxTime, EnqueueASDU(t)
  PROVE  IInv'
<1> DEFINE full == entryCounter = Size
<1>0. /\ entryCounter \in 0..Size
      /\ entryCounter > 0 => firstMsgIndex \in Index
      /\ ~released /\ released' = released
      BY DEF IInv, TypeOK, RingOK, Contiguous, EnqueueASDU
<1>1. PICK n \in Index : EnqueuesAt(n, t)
      BY EnqueueSlot
<1>2. entryCounter' = IF full THEN entryCounter ELSE entryCounter + 1
      BY <1>1 DEF EnqueuesAt
<1>3. entryCounter' \in 1..Size /\ firstMsgIndex' \in Index /\ lastMsgIndex' \in Index
      BY <1>1 DEF EnqueuesAt
<1>4. asdus' \in [Index -> Slot]
      BY <1>1 DEF IInv, TypeOK, Slot, EnqueueASDU, EnqueuesAt
<1>5. TypeOK'
      BY <1>3, <1>4 DEF IInv, TypeOK, EnqueueASDU
<1>6. \A i \in Index : StateAt(i)' = IF i = n THEN Waiting ELSE StateAt(i)
      BY <1>1 DEF IInv, TypeOK, StateAt, EnqueuesAt
<1>7. \A i \in Index : Offset(i)' = entryCounter' - 1 <=> i = n
      BY <1>1 DEF EnqueuesAt
<1>8. ASSUME NEW i \in Index, i # n, entryCounter > 0
      PROVE  Offset(i)' = IF full THEN Offset(i) - 1 ELSE Offset(i)
      BY <1>1, <1>8 DEF EnqueuesAt
<1>9. ASSUME NEW i \in Index, i # n
      PROVE  StateAt(i)' # NotUsed <=> Offset(i)' < entryCounter'
  <2>1. CASE entryCounter = 0
    <3>1. ~(Offset(i)' < entryCounter')
      <4>1. entryCounter' = 1 /\ Offset(i)' # 0
            BY <1>2, <1>7, <1>9, <2>1
      <4>2. Offset(i)' \in Index
            BY <1>3, <1>9, OffsetTypePrime
      <4> QED BY <4>1, <4>2
    <3>2. StateAt(i)' = NotUsed
          BY <1>0, <1>6, <1>9, <2>1 DEF IInv, RingOK, EmptyIsClean
    <3> QED BY <3>1, <3>2
  <2>2. CASE entryCounter > 0
    <3>1. StateAt(i)' # NotUsed <=> Offset(i) < entryCounter
          BY <1>6, <1>9, <2>2 DEF IInv, RingOK, Contiguous
    <3>2. Offset(i)' # entryCounter' - 1
          BY <1>7, <1>9
    <3>3. Offset(i) \in Index
          BY <1>0, <2>2, OffsetType
    <3> QED BY <1>0, <1>2, <1>8, <1>9, <2>2, <3>1, <3>2, <3>3
  <2> QED BY <1>0, <2>1, <2>2
<1>10. Contiguous'
  <2>1. \A i \in Index : StateAt(i)' # NotUsed <=> Offset(i)' < entryCounter'
    <3> SUFFICES ASSUME NEW i \in Index
                 PROVE  StateAt(i)' # NotUsed <=> Offset(i)' < entryCounter'
        OBVIOUS
    <3>1. CASE i = n
          BY <1>3, <1>6, <1>7, <3>1
    <3>2. CASE i # n
          BY <1>9, <3>2
    <3> QED BY <3>1, <3>2
  <2>2. lastMsgIndex' = Up(firstMsgIndex, entryCounter - 1)'
        BY <1>1 DEF EnqueuesAt, Up
  <2> QED BY <1>3, <2>1, <2>2 DEF Contiguous
<1>11. SentPrefix'
  <2> SUFFICES ASSUME NEW i \in Index, NEW j \in Index,
                      Offset(i)' < Offset(j)', StateAt(j)' = Sent
               PROVE  StateAt(i)' = Sent
      BY DEF SentPrefix
  <2>1. j # n /\ StateAt(j) = Sent
        BY <1>6
  <2>2. Offset(j)' < entryCounter'
        BY <1>6, <1>9, <2>1
  <2>3. i # n
    <3>1. Offset(i)' \in Int /\ Offset(j)' \in Int
          BY <1>3 DEF Offset
    <3> QED BY <1>3, <1>7, <2>2, <3>1
  <2>4. entryCounter > 0
        BY <1>0, <2>1 DEF IInv, TypeOK, RingOK, EmptyIsClean
  <2>5. Offset(i) < Offset(j)
        BY <1>8, <2>1, <2>3, <2>4, OffsetType DEF IInv, RingOK, Contiguous
  <2>6. StateAt(i) = Sent
        BY <2>1, <2>4, <2>5 DEF IInv, RingOK, SentPrefix
  <2> QED BY <1>6, <2>3, <2>6
<1> QED BY <1>0, <1>3, <1>5, <1>10, <1>11 DEF IInv, RingOK, EmptyIsClean, ReleasedIsEmpty

(* The oldest waiting entry is handed to a connection. *)
LEMMA SendStep ==
  ASSUME IInv, NEW c \in Conns, SendNext(c)
  PROVE  IInv'
<1> DEFINE n == NextWaiting
<1>1. /\ entryCounter > 0 /\ n \in Index /\ StateAt(n) = Waiting
      /\ \A j \in Index : Offset(j) < Offset(n) => StateAt(j) = Sent
      BY NextWaitingIsOldest DEF SendNext
<1>2. /\ asdus' = [asdus EXCEPT ![n].state = Sent]
      /\ UNCHANGED <<entryCounter, firstMsgIndex, lastMsgIndex, released, now,
                     enqueued, confirmed, repeated>>
      BY DEF SendNext
<1>3. asdus' \in [Index -> Slot]
      BY <1>1, <1>2 DEF IInv, TypeOK, Slot
<1>4. \A i \in Index : StateAt(i)' = IF i = n THEN Sent ELSE StateAt(i)
      BY <1>1, <1>2 DEF IInv, TypeOK, StateAt
<1>5. \A i \in Index : Offset(i)' = Offset(i)
      BY <1>2 DEF Offset
<1>6. Contiguous'
      BY <1>1, <1>2, <1>4, <1>5 DEF IInv, RingOK, Contiguous, Up
<1>7. SentPrefix'
  <2> SUFFICES ASSUME NEW i \in Index, NEW j \in Index,
                      Offset(i) < Offset(j), StateAt(j)' = Sent
               PROVE  StateAt(i)' = Sent
      BY <1>5 DEF SentPrefix
  <2>1. CASE j = n
        BY <1>1, <1>4, <2>1
  <2>2. CASE j # n
        BY <1>1, <1>4, <2>2 DEF IInv, RingOK, SentPrefix
  <2> QED BY <2>1, <2>2
<1>8. sentASDUs' \in [Conns -> Seq(Handle)]
  <2> DEFINE h == [queueIndex |-> n, entryTime |-> asdus[n].entryTimestamp,
                   asdu |-> asdus[n].asdu]
  <2>1. h \in Handle
    <3>1. asdus[n] \in Slot
          BY <1>1 DEF IInv, TypeOK
    <3> QED BY <1>1, <3>1 DEF Slot, Handle
  <2>2. sentASDUs \in [Conns -> Seq(Handle)]
        BY DEF IInv, TypeOK
  <2>3. Append(sentASDUs[c], h) \in Seq(Handle)
        BY <2>1, <2>2, AppendProperties
  <2>4. sentASDUs' = [sentASDUs EXCEPT ![c] = Append(sentASDUs[c], h)]
        BY DEF SendNext
  <2> QED BY <2>2, <2>3, <2>4
<1> QED BY <1>1, <1>2, <1>3, <1>6, <1>7, <1>8
        DEF IInv, TypeOK, RingOK, EmptyIsClean, ReleasedIsEmpty

(* A matching handle takes the oldest entries out of the ring, those up to    *)
(* its slot i; left is what remains, o the distance of i.                     *)
Sweeps(i, o, left) ==
  /\ StateAt(i) = Sent /\ o = Offset(i)
  /\ o < entryCounter /\ left = entryCounter - (o + 1) /\ entryCounter' = left
  /\ asdus' = [s \in Index |->
                 IF Offset(s) <= o
                 THEN [entryTimestamp |-> 0, asdu |-> asdus[s].asdu, state |-> NotUsed]
                 ELSE asdus[s]]
  /\ left = 0 => firstMsgIndex' = -1 /\ lastMsgIndex' = -1
  /\ left # 0 => firstMsgIndex' = Up(i, 1) /\ lastMsgIndex' = Up(firstMsgIndex', left - 1)
  /\ left # 0 =>
       \A s \in Index : Offset(s)' = IF Offset(s) <= o THEN Offset(s) - (o + 1) + Size
                                     ELSE Offset(s) - (o + 1)

LEMMA SweepSlots ==
  ASSUME IInv, NEW h \in Handle, HandleMatches(h), MarkAsduAsConfirmed(h)
  PROVE  \E i \in Index, o \in Index, left \in 0..(Size - 1) :
           i = h.queueIndex /\ Sweeps(i, o, left)
<1>0. /\ entryCounter \in 1..Size /\ firstMsgIndex \in Index
      /\ lastMsgIndex = Up(firstMsgIndex, entryCounter - 1)
      BY DEF HandleMatches, IInv, TypeOK, RingOK, Contiguous
<1>1. PICK i \in Index : i = h.queueIndex /\ StateAt(i) = Sent
      BY DEF HandleMatches, Handle
<1>2. PICK o \in Index : /\ o = Offset(i) /\ o < entryCounter
                        /\ SweepLength(i) = o /\ Down(i, o) = firstMsgIndex
      BY <1>0, <1>1, SweepReachesFirst
<1>3. PICK left \in 0..(Size - 1) : left = entryCounter - (o + 1)
      BY <1>0, <1>2
<1>4. asdus' = [s \in Index |->
                 IF Offset(s) <= o
                 THEN [entryTimestamp |-> 0, asdu |-> asdus[s].asdu, state |-> NotUsed]
                 ELSE asdus[s]]
  <2>1. asdus' = [s \in Index |->
                   IF s \in {Down(i, e) : e \in 0..o}
                   THEN [entryTimestamp |-> 0, asdu |-> asdus[s].asdu, state |-> NotUsed]
                   ELSE asdus[s]]
        BY <1>1, <1>2, <1>3 DEF MarkAsduAsConfirmed
  <2>2. \A s \in Index : s \in {Down(i, e) : e \in 0..o} <=> Offset(s) <= o
        BY <1>0, <1>2, SweptSlots
  <2> QED BY <2>1, <2>2
<1>5. /\ entryCounter' = left
      /\ left = 0 => firstMsgIndex' = -1 /\ lastMsgIndex' = -1
      /\ left # 0 => firstMsgIndex' = Up(i, 1)
      /\ left = 1 => lastMsgIndex' = Up(i, 1)
      /\ left > 1 => lastMsgIndex' = lastMsgIndex
      BY <1>1, <1>2, <1>3 DEF MarkAsduAsConfirmed
<1>6. CASE left = 0
      BY <1>1, <1>2, <1>3, <1>4, <1>5, <1>6 DEF Sweeps
<1>7. CASE left > 0
  <2>1. firstMsgIndex' = Up(i, 1) /\ Up(i, 1) \in Index
        BY <1>5, <1>7, UpType
  <2>2. \A s \in Index : Offset(s)' = IF Offset(s) <= o THEN Offset(s) - (o + 1) + Size
                                      ELSE Offset(s) - (o + 1)
        BY <1>0, <1>2, <2>1 DEF Offset, Up
  <2>3. lastMsgIndex' = Up(firstMsgIndex', left - 1)
    <3>1. CASE left = 1
          BY <1>5, <2>1, <3>1 DEF Up
    <3>2. CASE left > 1
      <4>1. lastMsgIndex' = Up(firstMsgIndex, entryCounter - 1)
            BY <1>0, <1>5, <3>2
      <4>2. Up(firstMsgIndex, entryCounter - 1) = Up(Up(i, 1), left - 1)
            BY <1>0, <1>2, <1>3, <3>2 DEF Offset, Up
      <4> QED BY <2>1, <4>1, <4>2
    <3> QED BY <1>7, <3>1, <3>2
  <2> QED BY <1>1, <1>2, <1>3, <1>4, <1>5, <1>7, <2>1, <2>2, <2>3 DEF Sweeps
<1> QED BY <1>6, <1>7

LEMMA SweepStep ==
  ASSUME IInv, NEW h \in Handle, HandleMatches(h), MarkAsduAsConfirmed(h),
         UNCHANGED released
  PROVE  /\ entryCounter' \in 0..Size
         /\ firstMsgIndex' \in -1..(Size - 1) /\ lastMsgIndex' \in -1..(Size - 1)
         /\ asdus' \in [Index -> Slot]
         /\ RingOK'
<1>0. /\ entryCounter \in 1..Size /\ firstMsgIndex \in Index /\ asdus \in [Index -> Slot]
      BY DEF HandleMatches, IInv, TypeOK, RingOK, Contiguous
<1>1. PICK i \in Index, o \in Index, left \in 0..(Size - 1) : Sweeps(i, o, left)
      BY SweepSlots
<1>2. o = Offset(i) /\ o < entryCounter /\ left = entryCounter - (o + 1)
      BY <1>1 DEF Sweeps
<1>4. asdus' = [s \in Index |->
                 IF Offset(s) <= o
                 THEN [entryTimestamp |-> 0, asdu |-> asdus[s].asdu, state |-> NotUsed]
                 ELSE asdus[s]]
      BY <1>1 DEF Sweeps
<1>5. /\ entryCounter' = left
      /\ left = 0 => firstMsgIndex' = -1 /\ lastMsgIndex' = -1
      /\ left # 0 => firstMsgIndex' = Up(i, 1) /\ lastMsgIndex' = Up(firstMsgIndex', left - 1)
      BY <1>1 DEF Sweeps
<1>6. asdus' \in [Index -> Slot]
  <2>1. ASSUME NEW s \in Index
        PROVE  /\ asdus[s] \in Slot
               /\ [entryTimestamp |-> 0, asdu |-> asdus[s].asdu, state |-> NotUsed] \in Slot
        BY <1>0 DEF Slot
  <2> QED BY <1>4, <2>1
<1>7. \A s \in Index : StateAt(s)' = IF Offset(s) <= o THEN NotUsed ELSE StateAt(s)
      BY <1>4 DEF StateAt
<1>8. Up(i, 1) \in Index
      BY UpType
<1>9. firstMsgIndex' \in -1..(Size - 1) /\ lastMsgIndex' \in -1..(Size - 1)
      BY <1>5, <1>8 DEF Up
<1>10. ReleasedIsEmpty'
      BY <1>0 DEF IInv, RingOK, ReleasedIsEmpty
<1>11. CASE left = 0
  <2>1. \A s \in Index : StateAt(s)' = NotUsed
    <3> SUFFICES ASSUME NEW s \in Index, Offset(s) > o
                 PROVE  StateAt(s) = NotUsed
        BY <1>0, <1>2, <1>7, OffsetType
    <3> QED BY <1>0, <1>2, <1>11, OffsetType DEF IInv, RingOK, Contiguous
  <2>2. RingOK'
        BY <1>5, <1>10, <1>11, <2>1 DEF RingOK, Contiguous, EmptyIsClean, SentPrefix
  <2> QED BY <1>5, <1>6, <1>9, <1>11, <2>2
<1>12. CASE left > 0
  <2>1. firstMsgIndex' = Up(i, 1)
        BY <1>5, <1>12
  <2>2. \A s \in Index : Offset(s)' = IF Offset(s) <= o THEN Offset(s) - (o + 1) + Size
                                      ELSE Offset(s) - (o + 1)
        BY <1>1, <1>12 DEF Sweeps
  <2>3. lastMsgIndex' = Up(firstMsgIndex, entryCounter - 1)'
        BY <1>5, <1>12 DEF Up
  <2>4. ASSUME NEW s \in Index
        PROVE  StateAt(s)' # NotUsed <=> Offset(s)' < entryCounter'
    <3>1. Offset(s) \in Index /\ (StateAt(s) # NotUsed <=> Offset(s) < entryCounter)
          BY <1>0, OffsetType DEF IInv, RingOK, Contiguous
    <3> QED BY <1>0, <1>2, <1>5, <1>7, <2>2, <3>1
  <2>5. Contiguous'
        BY <1>8, <2>1, <2>3, <2>4 DEF Contiguous
  <2>6. SentPrefix'
    <3> SUFFICES ASSUME NEW r \in Index, NEW s \in Index,
                        Offset(r)' < Offset(s)', StateAt(s)' = Sent
                 PROVE  StateAt(r)' = Sent
        BY DEF SentPrefix
    <3>0. Offset(r) \in Index /\ Offset(s) \in Index
          BY <1>0, OffsetType
    <3>1. Offset(s) > o /\ StateAt(s) = Sent
          BY <1>7, <3>0
    <3>2. Offset(r) > o /\ Offset(r) < Offset(s)
          BY <2>2, <3>0, <3>1
    <3>3. StateAt(r) = Sent
          BY <1>0, <3>1, <3>2 DEF IInv, RingOK, SentPrefix
    <3> QED BY <1>7, <3>0, <3>2, <3>3
  <2>7. EmptyIsClean'
        BY <1>5, <1>12 DEF EmptyIsClean
  <2> QED BY <1>5, <1>6, <1>9, <1>10, <2>5, <2>6, <2>7 DEF RingOK
<1> QED BY <1>11, <1>12

(* A handle comes back: it matches and its entries leave, or nothing happens. *)
LEMMA ConfirmStep ==
  ASSUME IInv, NEW c \in Conns, Confirm(c)
  PROVE  IInv'
<1>0. sentASDUs[c] \in Seq(Handle) /\ sentASDUs[c] # <<>>
      BY DEF Confirm, IInv, TypeOK
<1>1. PICK h \in Handle : h = Head(sentASDUs[c])
      BY <1>0, HeadTailProperties
<1>2. MarkAsduAsConfirmed(h) /\ UNCHANGED <<released, now, enqueued, repeated>>
      BY <1>1 DEF Confirm
<1>3. sentASDUs' \in [Conns -> Seq(Handle)]
      BY <1>0, HeadTailProperties DEF Confirm, IInv, TypeOK
<1>4. confirmed' \subseteq 0..MaxAsdu
      BY <1>1 DEF Confirm, IInv, TypeOK, Handle
<1>5. CASE ~HandleMatches(h)
  <2>1. UNCHANGED ring
        BY <1>2, <1>5 DEF MarkAsduAsConfirmed
  <2>2. RingOK'
        BY <1>2, <2>1 DEF IInv, RingOK, Contiguous, EmptyIsClean, SentPrefix,
                          ReleasedIsEmpty, ring, Offset, StateAt
  <2> QED BY <1>2, <1>3, <1>4, <2>1, <2>2 DEF IInv, TypeOK, ring
<1>6. CASE HandleMatches(h)
      BY <1>2, <1>3, <1>4, <1>6, SweepStep DEF IInv, TypeOK
<1> QED BY <1>5, <1>6

LEMMA LostStep ==
  ASSUME IInv, NEW c \in Conns, ConnectionLost(c)
  PROVE  IInv'
BY DEF ConnectionLost, IInv, TypeOK, RingOK, Contiguous, EmptyIsClean, SentPrefix,
       ReleasedIsEmpty, ring, Offset, StateAt

LEMMA ReleaseStep ==
  ASSUME IInv, ReleaseAllQueuedASDUs
  PROVE  IInv'
BY DEF ReleaseAllQueuedASDUs, IInv, TypeOK, RingOK, Contiguous, EmptyIsClean,
       SentPrefix, ReleasedIsEmpty

LEMMA StutterStep ==
  ASSUME IInv, UNCHANGED vars
  PROVE  IInv'
BY DEF vars, ring, IInv, TypeOK, RingOK, Contiguous, EmptyIsClean, SentPrefix,
       ReleasedIsEmpty, Offset, StateAt

LEMMA InvStep ==
  ASSUME IInv, [Next]_vars
  PROVE  IInv'
BY EnqueueStep, SendStep, ConfirmStep, LostStep, ReleaseStep, StutterStep DEF Next, Enqueue

(* The inductive invariant holds in every reachable state. *)
THEOREM Invariance == Spec => []IInv
BY InitIInv, InvStep, PTL DEF Spec

(* Every variable keeps its type: no step of the ring's index arithmetic     *)
(* leaves the array.                                                         *)
THEOREM TypeCorrect == Spec => []TypeOK
BY Invariance, PTL DEF IInv

(* The ring stays one contiguous block of used slots with the sent entries   *)
(* first, for every queue size and every interleaving of the connections.    *)
THEOREM RingCorrect == Spec => []RingOK
BY Invariance, PTL DEF IInv

-----------------------------------------------------------------------------
(* Time stamps and order of the events in the ring. *)

Used(i) == StateAt(i) # NotUsed
Held(h) == \E c \in Conns : \E n \in 1..Len(sentASDUs[c]) : sentASDUs[c][n] = h

(* The events of the ring lie in the order in which they were enqueued. *)
Ordered ==
  entryCounter > 0 =>
    \A i \in Index : Used(i) =>
      /\ asdus[i].asdu <= enqueued
      /\ \A j \in Index : Used(j) /\ Offset(i) < Offset(j) => asdus[i].asdu < asdus[j].asdu

(* A time stamp of the past names one event, in the ring and in a handle. *)
NamedInRing ==
  \A i \in Index : Used(i) =>
    /\ asdus[i].entryTimestamp <= now
    /\ \A j \in Index : Used(j) /\ asdus[j].entryTimestamp = asdus[i].entryTimestamp
                        => asdus[j].asdu = asdus[i].asdu

NamedInHandles ==
  \A h \in Handle : Held(h) =>
    /\ h.entryTime <= now
    /\ \A i \in Index : Used(i) /\ asdus[i].entryTimestamp = h.entryTime
                        => asdus[i].asdu = h.asdu

HInv == IInv /\ Ordered /\ (~repeated => NamedInRing /\ NamedInHandles)

(* What each step adds to the handles that are held. *)
LEMMA HeldAfterSend ==
  ASSUME IInv, NEW c \in Conns, SendNext(c), NEW h \in Handle, Held(h)'
  PROVE  \/ Held(h)
         \/ h = [queueIndex |-> NextWaiting, entryTime |-> asdus[NextWaiting].entryTimestamp,
                 asdu |-> asdus[NextWaiting].asdu]
<1> DEFINE new == [queueIndex |-> NextWaiting, entryTime |-> asdus[NextWaiting].entryTimestamp,
                   asdu |-> asdus[NextWaiting].asdu]
<1>0. sentASDUs \in [Conns -> Seq(Handle)] /\ NextWaiting \in Index /\ asdus[NextWaiting] \in Slot
      BY NextWaitingIsOldest DEF SendNext, IInv, TypeOK
<1>1. sentASDUs' = [sentASDUs EXCEPT ![c] = Append(sentASDUs[c], new)]
      BY DEF SendNext
<1>2. new \in Handle
      BY <1>0 DEF Slot, Handle
<1>3. PICK b \in Conns : \E n \in 1..Len(sentASDUs'[b]) : sentASDUs'[b][n] = h
      BY DEF Held
<1> HIDE DEF new
<1>4. CASE b # c
  <2>1. sentASDUs'[b] = sentASDUs[b]
        BY <1>0, <1>1, <1>4
  <2> QED BY <1>3, <2>1 DEF Held
<1>5. CASE b = c
  <2>1. sentASDUs'[b] = Append(sentASDUs[c], new) /\ sentASDUs[c] \in Seq(Handle)
        BY <1>0, <1>1, <1>5
  <2>2. PICK n \in 1..Len(sentASDUs'[b]) : sentASDUs'[b][n] = h
        BY <1>3
  <2>3. CASE n = Len(sentASDUs[c]) + 1
        BY <1>2, <2>1, <2>2, <2>3, AppendProperties DEF new
  <2>4. CASE n # Len(sentASDUs[c]) + 1
    <3>1. n \in 1..Len(sentASDUs[c]) /\ sentASDUs[c][n] = h
          BY <1>2, <2>1, <2>2, <2>4, AppendProperties
    <3> QED BY <3>1 DEF Held
  <2> QED BY <2>3, <2>4
<1> QED BY <1>4, <1>5

LEMMA HeldAfterConfirm ==
  ASSUME IInv, NEW c \in Conns, Confirm(c)
  PROVE  /\ Head(sentASDUs[c]) \in Handle /\ Held(Head(sentASDUs[c]))
         /\ \A h \in Handle : Held(h)' => Held(h)
<1>0. sentASDUs \in [Conns -> Seq(Handle)] /\ sentASDUs[c] # <<>>
      /\ sentASDUs' = [sentASDUs EXCEPT ![c] = Tail(sentASDUs[c])]
      BY DEF Confirm, IInv, TypeOK
<1>1. /\ Head(sentASDUs[c]) \in Handle /\ Len(sentASDUs[c]) \in Nat \ {0}
      /\ Head(sentASDUs[c]) = sentASDUs[c][1]
      BY <1>0, HeadTailProperties, EmptySeq, LenProperties
<1>2. ASSUME NEW h \in Handle, Held(h)'
      PROVE  Held(h)
  <2>1. PICK b \in Conns : \E n \in 1..Len(sentASDUs'[b]) : sentASDUs'[b][n] = h
        BY <1>2 DEF Held
  <2>2. CASE b # c
    <3>1. sentASDUs'[b] = sentASDUs[b]
          BY <1>0, <2>2
    <3> QED BY <2>1, <3>1 DEF Held
  <2>3. CASE b = c
    <3>1. sentASDUs'[b] = Tail(sentASDUs[c])
          BY <1>0, <2>3
    <3>2. PICK n \in 1..Len(sentASDUs'[b]) : sentASDUs'[b][n] = h
          BY <2>1
    <3>3. n + 1 \in 1..Len(sentASDUs[c]) /\ sentASDUs[c][n + 1] = h
          BY <1>0, <1>1, <3>1, <3>2, HeadTailProperties, SMTT(20)
    <3> QED BY <3>3 DEF Held
  <2> QED BY <2>2, <2>3
<1> QED BY <1>1, <1>2 DEF Held

LEMMA InitHInv == Init => HInv
<1> SUFFICES ASSUME Init PROVE HInv
    OBVIOUS
<1>1. \A h \in Handle : ~Held(h)
  <2>1. \A c \in Conns : Len(sentASDUs[c]) = 0
        BY DEF Init
  <2> QED BY <2>1 DEF Held
<1>2. \A i \in Index : ~Used(i)
      BY DEF Init, Used, StateAt
<1> QED BY <1>1, <1>2, InitIInv DEF HInv, Ordered, NamedInRing, NamedInHandles, Init

LEMMA EnqueueHistory ==
  ASSUME HInv, IInv', NEW t \in 1..MaxTime, t \in {now, now + 1}, EnqueueASDU(t)
  PROVE  HInv'
<1>0. /\ entryCounter \in 0..Size /\ enqueued \in Nat /\ now \in Nat /\ asdus \in [Index -> Slot]
      /\ entryCounter > 0 => firstMsgIndex \in Index
      /\ now' = t /\ enqueued' = enqueued + 1 /\ repeated' = (repeated \/ t = now)
      /\ UNCHANGED sentASDUs /\ ~released
      BY DEF HInv, IInv, TypeOK, RingOK, Contiguous, EnqueueASDU
<1>1. PICK n \in Index : EnqueuesAt(n, t)
      BY EnqueueSlot DEF HInv
<1>2. asdus' = [asdus EXCEPT ![n] =
                  [entryTimestamp |-> t, asdu |-> enqueued + 1, state |-> Waiting]]
      BY <1>1 DEF EnqueuesAt
<1>3. ASSUME NEW i \in Index, i # n
      PROVE  asdus'[i] = asdus[i] /\ (Used(i)' <=> Used(i)) /\ (Used(i) => entryCounter > 0)
  <2>1. asdus'[i] = asdus[i]
        BY <1>0, <1>2, <1>3
  <2> QED BY <1>0, <2>1 DEF Used, StateAt, HInv, IInv, RingOK, EmptyIsClean
<1>4. asdus'[n].asdu = enqueued + 1 /\ asdus'[n].entryTimestamp = t
      BY <1>0, <1>2
<1>5. \A i \in Index : asdus[i].asdu \in Nat /\ asdus[i].entryTimestamp \in Nat
      BY <1>0 DEF Slot
<1>6. Ordered'
  <2>1. ASSUME NEW i \in Index, Used(i)'
        PROVE  asdus'[i].asdu <= enqueued'
    <3>1. CASE i = n
          BY <1>0, <1>4, <3>1
    <3>2. CASE i # n
          BY <1>0, <1>3, <1>5, <2>1, <3>2 DEF HInv, Ordered
    <3> QED BY <3>1, <3>2
  <2>2. ASSUME NEW i \in Index, NEW j \in Index, Used(i)', Used(j)', Offset(i)' < Offset(j)'
        PROVE  asdus'[i].asdu < asdus'[j].asdu
    <3>1. firstMsgIndex' \in Index /\ entryCounter' \in 1..Size
          BY <1>1 DEF EnqueuesAt
    <3>2. Offset(i)' \in Index /\ Offset(j)' \in Index
          BY <2>2, <3>1, OffsetTypePrime
    <3>3. i # n
      <4>1. Offset(j)' < entryCounter'
            BY <2>2, <3>1 DEF IInv, RingOK, Contiguous, Used
      <4>2. i = n => Offset(i)' = entryCounter' - 1
            BY <1>1 DEF EnqueuesAt
      <4> QED BY <2>2, <3>1, <3>2, <4>1, <4>2
    <3>4. CASE j = n
          BY <1>0, <1>3, <1>4, <1>5, <2>2, <3>3, <3>4 DEF HInv, Ordered
    <3>5. CASE j # n
      <4>1. entryCounter > 0
            BY <1>3, <2>2, <3>5
      <4>2. Offset(i) < Offset(j)
        <5>1. Offset(i) \in Index /\ Offset(j) \in Index
              BY <1>0, <2>2, <4>1, OffsetType
        <5>2. \A k \in {i, j} : Offset(k)' = IF entryCounter = Size THEN Offset(k) - 1
                                             ELSE Offset(k)
              BY <1>1, <2>2, <3>3, <3>5, <4>1 DEF EnqueuesAt
        <5> QED BY <2>2, <5>1, <5>2
      <4> QED BY <1>3, <2>2, <3>3, <3>5, <4>1, <4>2 DEF HInv, Ordered
    <3> QED BY <3>4, <3>5
  <2> QED BY <2>1, <2>2 DEF Ordered
<1>7. ASSUME ~repeated'
      PROVE  NamedInRing' /\ NamedInHandles'
  <2>1. t = now + 1 /\ ~repeated
        BY <1>0, <1>7
  <2>2. NamedInRing /\ NamedInHandles
        BY <2>1 DEF HInv
  <2>3. ASSUME NEW i \in Index, Used(i)'
        PROVE  asdus'[i].entryTimestamp <= now'
    <3>1. CASE i = n
          BY <1>0, <1>4, <3>1
    <3>2. CASE i # n
          BY <1>0, <1>3, <1>5, <2>1, <2>2, <2>3, <3>2 DEF NamedInRing
    <3> QED BY <3>1, <3>2
  <2>4. ASSUME NEW i \in Index, NEW j \in Index, Used(i)', Used(j)',
               asdus'[j].entryTimestamp = asdus'[i].entryTimestamp
        PROVE  asdus'[j].asdu = asdus'[i].asdu
    <3>1. \A k \in Index : k # n /\ Used(k) => asdus[k].entryTimestamp < t
          BY <1>0, <1>5, <2>1, <2>2 DEF NamedInRing
    <3>2. CASE i = n \/ j = n
          BY <1>0, <1>3, <1>4, <1>5, <2>4, <3>1, <3>2
    <3>3. CASE i # n /\ j # n
          BY <1>3, <2>2, <2>4, <3>3 DEF NamedInRing
    <3> QED BY <3>2, <3>3
  <2>5. ASSUME NEW h \in Handle, Held(h)'
        PROVE  /\ h.entryTime <= now'
               /\ \A i \in Index : Used(i)' /\ asdus'[i].entryTimestamp = h.entryTime
                                   => asdus'[i].asdu = h.asdu
    <3>1. Held(h)
          BY <1>0, <2>5 DEF Held
    <3>2. h.entryTime \in Nat /\ h.entryTime < t
          BY <1>0, <2>1, <2>2, <3>1 DEF NamedInHandles, Handle
    <3>3. ASSUME NEW i \in Index, Used(i)', asdus'[i].entryTimestamp = h.entryTime
          PROVE  asdus'[i].asdu = h.asdu
          BY <1>0, <1>3, <1>4, <2>2, <3>1, <3>2, <3>3 DEF NamedInHandles
    <3> QED BY <1>0, <3>2, <3>3
  <2> QED BY <2>3, <2>4, <2>5 DEF NamedInRing, NamedInHandles
<1> QED BY <1>6, <1>7 DEF HInv

LEMMA SendHistory ==
  ASSUME HInv, IInv', NEW c \in Conns, SendNext(c)
  PROVE  HInv'
<1> DEFINE n == NextWaiting
           new == [queueIndex |-> n, entryTime |-> asdus[n].entryTimestamp, asdu |-> asdus[n].asdu]
<1>1. n \in Index /\ StateAt(n) = Waiting /\ asdus \in [Index -> Slot]
      /\ asdus' = [asdus EXCEPT ![n].state = Sent]
      /\ UNCHANGED <<entryCounter, firstMsgIndex, now, enqueued, repeated>>
      BY NextWaitingIsOldest DEF SendNext, HInv, IInv, TypeOK
<1> HIDE DEF n
<1>2. ASSUME NEW i \in Index
      PROVE  /\ Used(i)' <=> Used(i)
             /\ asdus'[i].asdu = asdus[i].asdu
             /\ asdus'[i].entryTimestamp = asdus[i].entryTimestamp
      BY <1>1 DEF Slot, Used, StateAt
<1>3. \A i \in Index : Offset(i)' = Offset(i)
      BY <1>1 DEF Offset
<1>4. Ordered'
      BY <1>1, <1>2, <1>3 DEF HInv, Ordered
<1>5. ASSUME ~repeated'
      PROVE  NamedInRing' /\ NamedInHandles'
  <2>1. NamedInRing /\ NamedInHandles
        BY <1>1, <1>5 DEF HInv
  <2>2. Used(n)
        BY <1>1 DEF Used
  <2>3. NamedInRing'
        BY <1>1, <1>2, <2>1 DEF NamedInRing
  <2>4. ASSUME NEW h \in Handle, Held(h)'
        PROVE  /\ h.entryTime <= now'
               /\ \A i \in Index : Used(i)' /\ asdus'[i].entryTimestamp = h.entryTime
                                   => asdus'[i].asdu = h.asdu
    <3>1. CASE Held(h)
          BY <1>1, <1>2, <2>1, <3>1 DEF NamedInHandles
    <3>2. CASE h = new
          BY <1>1, <1>2, <2>1, <2>2, <3>2 DEF NamedInRing
    <3> QED BY <2>4, <3>1, <3>2, HeldAfterSend DEF HInv, n
  <2> QED BY <2>3, <2>4 DEF NamedInHandles
<1> QED BY <1>4, <1>5 DEF HInv

LEMMA ConfirmHistory ==
  ASSUME HInv, IInv', NEW c \in Conns, Confirm(c)
  PROVE  HInv'
<1>1. PICK h \in Handle : h = Head(sentASDUs[c])
      BY HeldAfterConfirm DEF HInv
<1>2. MarkAsduAsConfirmed(h) /\ UNCHANGED <<now, enqueued, repeated>>
      BY <1>1 DEF Confirm
<1>3. \A g \in Handle : Held(g)' => Held(g)
      BY HeldAfterConfirm DEF HInv
<1>4. CASE ~HandleMatches(h)
  <2>1. UNCHANGED ring
        BY <1>2, <1>4 DEF MarkAsduAsConfirmed
  <2> QED BY <1>2, <1>3, <2>1 DEF HInv, ring, Ordered, NamedInRing, NamedInHandles, Used,
                                  StateAt, Offset
<1>5. CASE HandleMatches(h)
  <2>1. PICK i \in Index, o \in Index, left \in 0..(Size - 1) : Sweeps(i, o, left)
        BY <1>2, <1>5, SweepSlots DEF HInv
  <2>2. /\ entryCounter' = left /\ entryCounter > 0 /\ firstMsgIndex \in Index
        /\ asdus' = [s \in Index |->
                       IF Offset(s) <= o
                       THEN [entryTimestamp |-> 0, asdu |-> asdus[s].asdu, state |-> NotUsed]
                       ELSE asdus[s]]
        /\ left # 0 =>
             \A s \in Index : Offset(s)' = IF Offset(s) <= o THEN Offset(s) - (o + 1) + Size
                                           ELSE Offset(s) - (o + 1)
        BY <1>5, <2>1 DEF Sweeps, HandleMatches, HInv, IInv, RingOK, Contiguous
  <2>3. ASSUME NEW s \in Index, Used(s)'
        PROVE  Used(s) /\ asdus'[s] = asdus[s] /\ ~(Offset(s) <= o)
        BY <2>2, <2>3 DEF Used, StateAt
  <2>4. Ordered'
    <3>1. ASSUME NEW s \in Index, Used(s)'
          PROVE  asdus'[s].asdu <= enqueued'
          BY <1>2, <2>2, <2>3, <3>1 DEF HInv, Ordered
    <3>2. ASSUME NEW r \in Index, NEW s \in Index, left # 0, Used(r)', Used(s)',
                 Offset(r)' < Offset(s)'
          PROVE  asdus'[r].asdu < asdus'[s].asdu
      <4>1. Offset(r) < Offset(s)
        <5>1. Offset(r) \in Index /\ Offset(s) \in Index
              BY <2>2, <3>2, OffsetType
        <5>2. Offset(r)' = Offset(r) - (o + 1) /\ Offset(s)' = Offset(s) - (o + 1)
              BY <2>2, <2>3, <3>2
        <5> QED BY <3>2, <5>1, <5>2
      <4> QED BY <2>2, <2>3, <3>2, <4>1 DEF HInv, Ordered
    <3> QED BY <2>2, <3>1, <3>2 DEF Ordered
  <2>5. ~repeated' => NamedInRing' /\ NamedInHandles'
        BY <1>2, <1>3, <2>3 DEF HInv, NamedInRing, NamedInHandles
  <2> QED BY <2>4, <2>5 DEF HInv
<1> QED BY <1>4, <1>5

LEMMA LostHistory ==
  ASSUME HInv, IInv', NEW c \in Conns, ConnectionLost(c)
  PROVE  HInv'
<1>1. UNCHANGED <<ring, now, enqueued, repeated>>
      BY DEF ConnectionLost
<1>2. \A h \in Handle : Held(h)' => Held(h)
  <2>1. sentASDUs' = [sentASDUs EXCEPT ![c] = <<>>] /\ sentASDUs \in [Conns -> Seq(Handle)]
        BY DEF ConnectionLost, HInv, IInv, TypeOK
  <2>2. ASSUME NEW b \in Conns
        PROVE  sentASDUs'[b] = IF b = c THEN <<>> ELSE sentASDUs[b]
        BY <2>1
  <2> QED BY <2>2 DEF Held
<1> QED BY <1>1, <1>2 DEF HInv, ring, Ordered, NamedInRing, NamedInHandles, Used, StateAt, Offset

LEMMA HistoryStep ==
  ASSUME HInv, [Next]_vars
  PROVE  HInv'
<1>0. IInv'
      BY InvStep DEF HInv
<1>1. CASE Enqueue
      BY <1>0, <1>1, EnqueueHistory DEF Enqueue
<1>2. CASE \E c \in Conns : SendNext(c) \/ Confirm(c) \/ ConnectionLost(c)
      BY <1>0, <1>2, SendHistory, ConfirmHistory, LostHistory
<1>3. CASE ReleaseAllQueuedASDUs
      BY <1>0, <1>3 DEF ReleaseAllQueuedASDUs, HInv, Ordered, NamedInRing, NamedInHandles, Used,
                        StateAt, Held
<1>4. CASE UNCHANGED vars
      BY <1>0, <1>4 DEF vars, ring, HInv, Ordered, NamedInRing, NamedInHandles, Used, StateAt,
                        Held, Offset
<1> QED BY <1>1, <1>2, <1>3, <1>4 DEF Next

(* The order and the time stamps of the queued events, in every state.       *)
THEOREM History == Spec => []HInv
BY InitHInv, HistoryStep, PTL DEF Spec

(* A handle that still matches names the event sent with it, unless two      *)
(* events were enqueued in one millisecond: for any number of connections,   *)
(* however often the slot was reused.                                        *)
THEOREM HandlesCorrect == Spec => []HandlesNameTheirEvent
<1>1. HInv => HandlesNameTheirEvent
  <2> SUFFICES ASSUME HInv, ~repeated, NEW c \in Conns, NEW n \in 1..Len(sentASDUs[c]),
                      HandleMatches(sentASDUs[c][n])
               PROVE  asdus[sentASDUs[c][n].queueIndex].asdu = sentASDUs[c][n].asdu
      BY DEF HandlesNameTheirEvent
  <2>1. PICK h \in Handle : h = sentASDUs[c][n]
        BY ElementOfSeq DEF HInv, IInv, TypeOK
  <2>2. Held(h) /\ NamedInHandles /\ h.queueIndex \in Index
        BY <2>1 DEF Held, HInv, Handle
  <2> QED BY <2>1, <2>2 DEF NamedInHandles, HandleMatches, Used
<1> QED BY <1>1, History, PTL

(* A confirmation takes no waiting event and none newer than its own, unless *)
(* two events were enqueued in one millisecond (markAsduAsConfirmed).        *)
THEOREM ConfirmationCorrect == Spec => ConfirmRemovesOnlyOlderInOrder
<1>1. HInv /\ [Next]_vars
      => [~repeated => \A c \in Conns : Confirm(c) => RemovesOnlyOlder(c)]_vars
  <2> SUFFICES ASSUME HInv, ~repeated, NEW c \in Conns, Confirm(c),
                      NEW s \in Index, asdus'[s].state # StateAt(s)
               PROVE  StateAt(s) = Sent /\ asdus[s].asdu <= Head(sentASDUs[c]).asdu
      BY DEF RemovesOnlyOlder
  <2>1. PICK h \in Handle : h = Head(sentASDUs[c]) /\ Held(h)
        BY HeldAfterConfirm DEF HInv
  <2>2. MarkAsduAsConfirmed(h) /\ asdus \in [Index -> Slot]
        BY <2>1 DEF Confirm, HInv, IInv, TypeOK
  <2>3. HandleMatches(h)
        BY <2>2 DEF MarkAsduAsConfirmed, ring, StateAt
  <2>4. PICK i \in Index, o \in Index, left \in 0..(Size - 1) :
               i = h.queueIndex /\ Sweeps(i, o, left)
        BY <2>2, <2>3, SweepSlots DEF HInv
  <2>5. Offset(s) <= Offset(i) /\ StateAt(i) = Sent
        BY <2>2, <2>4 DEF Sweeps, StateAt
  <2>6. /\ entryCounter > 0 /\ firstMsgIndex \in Index
        /\ Offset(s) \in Index /\ Offset(i) \in Index
        BY <2>3, OffsetType DEF HandleMatches, HInv, IInv, RingOK, Contiguous
  <2>7. StateAt(s) = Sent
    <3>1. CASE s = i
          BY <2>5, <3>1
    <3>2. CASE s # i
          BY <2>5, <2>6, <3>2, OffsetInjective DEF HInv, IInv, RingOK, SentPrefix
    <3> QED BY <3>1, <3>2
  <2>8. asdus[i].asdu = h.asdu
        BY <2>1, <2>3, <2>4, <2>5 DEF HInv, NamedInHandles, HandleMatches, Used
  <2>9. asdus[s].asdu <= asdus[i].asdu
    <3>1. asdus[s].asdu \in Nat /\ asdus[i].asdu \in Nat
          BY <2>2 DEF Slot
    <3>2. CASE s = i
          BY <3>1, <3>2
    <3>3. CASE s # i
      <4>1. Offset(s) < Offset(i)
            BY <2>5, <2>6, <3>3, OffsetInjective
      <4> QED BY <2>5, <2>6, <2>7, <3>1, <4>1 DEF HInv, Ordered, Used
    <3> QED BY <3>2, <3>3
  <2> QED BY <2>1, <2>7, <2>8, <2>9
<1> QED BY <1>1, History, PTL DEF Spec, ConfirmRemovesOnlyOlderInOrder

-----------------------------------------------------------------------------
(* Refinement of the abstract event queue. At(d) is the entry d places after *)
(* the oldest; the first n entries are handed out.                           *)

At(d) == asdus[Up(firstMsgIndex, d)]

Prefix(n) == \A d \in 0..(entryCounter - 1) : At(d).state = Sent <=> d < n

HandedPrefix == \E n \in 0..entryCounter : Prefix(n)

Meaning ==
  /\ Events \in Seq(Nat) /\ Len(Events) = entryCounter
  /\ \A d \in 1..entryCounter : Events[d] = At(d - 1).asdu
  /\ \A n \in 0..Size : n <= entryCounter /\ Prefix(n) => HandedOut = n

LEMMA MeaningHolds == IInv => Meaning
<1> SUFFICES ASSUME IInv PROVE Meaning
    OBVIOUS
<1>1. /\ entryCounter \in 0..Size
      /\ entryCounter > 0 => firstMsgIndex \in Index
      /\ asdus \in [Index -> Slot]
      BY DEF IInv, TypeOK, RingOK, Contiguous
<1>2. \A d \in 1..entryCounter : At(d - 1).asdu \in Nat
  <2> SUFFICES ASSUME NEW d \in 1..entryCounter PROVE At(d - 1).asdu \in Nat
      OBVIOUS
  <2>1. firstMsgIndex \in Index /\ d - 1 \in 0..Size
        BY <1>1
  <2>2. Up(firstMsgIndex, d - 1) \in Index
        BY <2>1, UpType
  <2> QED BY <1>1, <2>2 DEF At, Slot
<1>3. Events \in [1..entryCounter -> Nat]
      BY <1>2 DEF Events, At
<1>4. Events \in Seq(Nat) /\ Len(Events) = entryCounter
  <2>1. Events \in Seq(Nat)
        BY <1>1, <1>3, SeqDef
  <2>2. DOMAIN Events = 1..Len(Events) /\ Len(Events) \in Nat
        BY <2>1, LenProperties
  <2> QED BY <1>1, <1>3, <2>1, <2>2
<1>5. ASSUME NEW n \in 0..Size, n <= entryCounter, Prefix(n)
      PROVE  HandedOut = n
  <2> DEFINE P(m) == \A d \in 0..(entryCounter - 1) :
                       StateAt(Up(firstMsgIndex, d)) = Sent <=> d < m
  <2>1. P(n) /\ n \in 0..entryCounter
        BY <1>1, <1>5 DEF Prefix, At, StateAt
  <2>2. ASSUME NEW m \in 0..entryCounter, P(m)
        PROVE  m = n
    <3>1. CASE m < n
          BY <1>1, <1>5, <2>1, <2>2, <3>1
    <3>2. CASE n < m
          BY <1>1, <1>5, <2>1, <2>2, <3>2
    <3> QED BY <1>1, <1>5, <2>2, <3>1, <3>2
  <2> HIDE DEF P
  <2>3. HandedOut = CHOOSE m \in 0..entryCounter : P(m)
        BY DEF HandedOut, P
  <2> QED BY <2>1, <2>2, <2>3
<1> QED BY <1>4, <1>5 DEF Meaning, Events, At

LEMMA MeaningPrime == IInv' => Meaning'
BY MeaningHolds, PTL

LEMMA OffsetUpPrime ==
  ASSUME firstMsgIndex' \in Index, NEW d \in Index
  PROVE  \E u \in Index : u = Up(firstMsgIndex', d) /\ Offset(u)' = d
<1>1. PICK f \in Index : f = firstMsgIndex'
      OBVIOUS
<1>2. PICK u \in Index : u = Up(f, d)
      BY UpType
<1>3. Offset(u)' = IF u >= f THEN u - f ELSE u - f + Size
      BY <1>1 DEF Offset
<1>4. Offset(u)' = d
      BY <1>2, <1>3 DEF Up
<1>5. u = Up(firstMsgIndex', d)
      BY <1>1, <1>2
<1> QED BY <1>4, <1>5

(* What an enqueue and a sweep do to the entries, counted from the oldest. *)
LEMMA EnqueueAt ==
  ASSUME IInv, NEW t \in 1..MaxTime, EnqueueASDU(t),
         NEW shift \in {0, 1}, shift = IF entryCounter = Size THEN 1 ELSE 0
  PROVE  /\ entryCounter' = entryCounter + 1 - shift
         /\ \A d \in 0..(entryCounter' - 1) :
              At(d)' = IF d = entryCounter' - 1
                       THEN [entryTimestamp |-> t, asdu |-> enqueued + 1, state |-> Waiting]
                       ELSE At(d + shift)
<1>1. PICK n \in Index : EnqueuesAt(n, t)
      BY EnqueueSlot
<1>2. /\ asdus \in [Index -> Slot] /\ entryCounter \in 0..Size
      /\ entryCounter > 0 => firstMsgIndex \in Index
      BY DEF IInv, TypeOK, RingOK, Contiguous
<1>3. /\ entryCounter' = entryCounter + 1 - shift
      /\ entryCounter' \in 1..Size /\ firstMsgIndex' \in Index
      BY <1>1, <1>2 DEF EnqueuesAt
<1>4. ASSUME NEW d \in 0..(entryCounter' - 1)
      PROVE  At(d)' = IF d = entryCounter' - 1
                      THEN [entryTimestamp |-> t, asdu |-> enqueued + 1, state |-> Waiting]
                      ELSE At(d + shift)
  <2>0. d \in Index
        BY <1>3
  <2>1. PICK i \in Index : i = Up(firstMsgIndex', d) /\ Offset(i)' = d
        BY <1>3, <2>0, OffsetUpPrime
  <2>2. At(d)' = asdus'[i]
        BY <2>1 DEF At, Up
  <2>3. CASE d = entryCounter' - 1
        BY <1>1, <1>2, <2>1, <2>2, <2>3 DEF EnqueuesAt
  <2>4. CASE d # entryCounter' - 1
    <3>1. i # n /\ entryCounter > 0
          BY <1>1, <1>2, <1>3, <2>1, <2>4 DEF EnqueuesAt
    <3>2. Offset(i) = d + shift
      <4>1. Offset(i) \in Index
            BY <1>2, <3>1, OffsetType
      <4>2. Offset(i)' = IF entryCounter = Size THEN Offset(i) - 1 ELSE Offset(i)
            BY <1>1, <3>1 DEF EnqueuesAt
      <4> QED BY <2>1, <4>1, <4>2
    <3>3. At(d + shift) = asdus[i]
          BY <1>2, <3>1, <3>2, OffsetType DEF At
    <3>4. asdus'[i] = asdus[i]
          BY <1>1, <1>2, <3>1 DEF EnqueuesAt
    <3> QED BY <2>2, <2>4, <3>3, <3>4
  <2> QED BY <2>3, <2>4
<1> QED BY <1>3, <1>4

LEMMA SweepAt ==
  ASSUME IInv, entryCounter > 0, NEW i \in Index, NEW o \in Index, NEW left \in 0..(Size - 1),
         Sweeps(i, o, left)
  PROVE  /\ entryCounter' = left /\ entryCounter = left + o + 1
         /\ At(o).state = Sent
         /\ \A d \in 0..(left - 1) : At(d)' = At(d + o + 1)
<1>1. /\ asdus \in [Index -> Slot] /\ entryCounter \in 1..Size /\ firstMsgIndex \in Index
      BY DEF IInv, TypeOK, RingOK, Contiguous
<1>2. /\ entryCounter' = left /\ left = entryCounter - (o + 1)
      /\ StateAt(i) = Sent /\ o = Offset(i)
      BY DEF Sweeps
<1>3. At(o).state = Sent
      BY <1>1, <1>2, OffsetType DEF At, StateAt
<1>4. ASSUME NEW d \in 0..(left - 1)
      PROVE  At(d)' = At(d + o + 1)
  <2>0. left # 0 /\ d \in Index
        BY <1>4
  <2>1. firstMsgIndex' \in Index
    <3>1. firstMsgIndex' = Up(i, 1)
          BY <2>0 DEF Sweeps
    <3> QED BY <3>1, UpType
  <2>2. PICK s \in Index : s = Up(firstMsgIndex', d) /\ Offset(s)' = d
        BY <2>0, <2>1, OffsetUpPrime
  <2>3. At(d)' = asdus'[s]
        BY <2>2 DEF At, Up
  <2>4. Offset(s)' = IF Offset(s) <= o THEN Offset(s) - (o + 1) + Size
                     ELSE Offset(s) - (o + 1)
        BY <2>0 DEF Sweeps
  <2>5. Offset(s) \in Index /\ Up(firstMsgIndex, Offset(s)) = s
        BY <1>1, OffsetType
  <2>6. Offset(s) = d + o + 1
    <3>1. /\ d \in Int /\ 0 <= d /\ d < left
          /\ left = entryCounter - (o + 1)
          /\ entryCounter \in Int /\ entryCounter <= Size /\ Size \in Int
          BY <1>1, <1>2, <1>4, QueueAssumption
    <3>2. CASE Offset(s) <= o
      <4>1. d = Offset(s) - (o + 1) + Size
            BY <2>2, <2>4, <3>2
      <4>2. Offset(s) >= 0 /\ Offset(s) \in Int /\ o \in Int
            BY <2>5
      <4> QED BY <3>1, <4>1, <4>2
    <3>3. CASE Offset(s) > o
      <4>1. d = Offset(s) - (o + 1)
            BY <2>2, <2>4, <2>5, <3>3
      <4> QED BY <2>5, <3>1, <4>1
    <3> QED BY <2>5, <3>2, <3>3
  <2>7. asdus'[s] = asdus[s]
        BY <2>5, <2>6 DEF Sweeps
  <2> QED BY <2>3, <2>5, <2>6, <2>7 DEF At
<1> QED BY <1>1, <1>2, <1>3, <1>4

-----------------------------------------------------------------------------
(* Each operation of the ring is an operation of the abstract queue.         *)

LEMMA EnqueueRefines ==
  ASSUME IInv, IInv', HandedPrefix, NEW t \in 1..MaxTime, EnqueueASDU(t)
  PROVE  HandedPrefix' /\ EQ!Enqueue
<1>1. PICK n \in 0..entryCounter : Prefix(n)
      BY DEF HandedPrefix
<1>2. PICK shift \in {0, 1} : shift = IF entryCounter = Size THEN 1 ELSE 0
      OBVIOUS
<1>3. /\ entryCounter' = entryCounter + 1 - shift
      /\ \A d \in 0..(entryCounter' - 1) :
           At(d)' = IF d = entryCounter' - 1
                    THEN [entryTimestamp |-> t, asdu |-> enqueued + 1, state |-> Waiting]
                    ELSE At(d + shift)
      BY <1>2, EnqueueAt
<1>4. entryCounter \in 0..Size /\ enqueued \in Nat /\ enqueued < MaxAsdu
      /\ enqueued' = enqueued + 1
      BY DEF IInv, TypeOK, EnqueueASDU
<1>5. PICK m \in 0..Size : m = IF n >= shift THEN n - shift ELSE 0
      BY <1>1, <1>2, <1>4
<1>6. Prefix(m)' /\ m <= entryCounter'
  <2>1. ASSUME NEW d \in 0..(entryCounter' - 1)
        PROVE  At(d)'.state = Sent <=> d < m
    <3>1. CASE d = entryCounter' - 1
          BY <1>2, <1>3, <1>4, <1>5, <2>1, <3>1
    <3>2. CASE d # entryCounter' - 1
      <4>1. d + shift \in 0..(entryCounter - 1) /\ At(d)' = At(d + shift)
            BY <1>3, <1>4, <2>1, <3>2
      <4>2. At(d + shift).state = Sent <=> d + shift < n
            BY <1>1, <4>1 DEF Prefix
      <4> QED BY <1>4, <1>5, <4>1, <4>2
    <3> QED BY <3>1, <3>2
  <2> QED BY <1>2, <1>3, <1>4, <1>5, <2>1 DEF Prefix
<1>7. HandedOut = n /\ HandedOut' = m
      BY <1>1, <1>4, <1>5, <1>6, MeaningHolds, MeaningPrime DEF Meaning
<1>8. /\ Events \in Seq(Nat) /\ Len(Events) = entryCounter
      /\ \A d \in 1..entryCounter : Events[d] = At(d - 1).asdu
      BY MeaningHolds DEF Meaning
<1>9. /\ Events' \in Seq(Nat) /\ Len(Events') = entryCounter'
      /\ \A d \in 1..entryCounter' : Events'[d] = At(d - 1)'.asdu
  <2>1. Meaning'
        BY MeaningPrime
  <2> QED BY <2>1 DEF Meaning
<1>10. CASE shift = 0
  <2> DEFINE new == Append(Events, enqueued + 1)
  <2>1. /\ new \in Seq(Nat) /\ Len(new) = entryCounter + 1
        /\ \A d \in 1..(entryCounter + 1) :
             new[d] = IF d <= entryCounter THEN Events[d] ELSE enqueued + 1
        BY <1>4, <1>8, AppendProperties
  <2>2. ASSUME NEW d \in 1..(entryCounter + 1)
        PROVE  Events'[d] = new[d]
    <3>1. d - 1 \in 0..(entryCounter' - 1) /\ Events'[d] = At(d - 1)'.asdu
          BY <1>3, <1>4, <1>9, <1>10
    <3>2. CASE d = entryCounter + 1
          BY <1>3, <1>4, <1>10, <2>1, <3>1, <3>2
    <3>3. CASE d # entryCounter + 1
          BY <1>3, <1>4, <1>8, <1>10, <2>1, <3>1, <3>3
    <3> QED BY <3>2, <3>3
  <2>3. Events' = new
    <3> HIDE DEF new
    <3> QED BY <1>3, <1>4, <1>9, <1>10, <2>1, <2>2, SeqEqual
  <2>4. entryCounter < Size /\ m = n
        BY <1>2, <1>4, <1>5, <1>10
  <2> QED BY <1>4, <1>5, <1>6, <1>7, <1>8, <2>3, <2>4 DEF EQ!Enqueue, HandedPrefix
<1>11. CASE shift = 1
  <2> DEFINE rest == Tail(Events)
             new  == Append(rest, enqueued + 1)
  <2>1. entryCounter = Size /\ entryCounter' = Size
        BY <1>2, <1>3, <1>11
  <2>2. /\ rest \in Seq(Nat) /\ Len(rest) = Size - 1
        /\ \A d \in 1..(Size - 1) : rest[d] = Events[d + 1]
    <3>1. Events # <<>>
          BY <1>8, <2>1, EmptySeq
    <3> QED BY <1>8, <2>1, <3>1, HeadTailProperties
  <2> HIDE DEF rest
  <2>3. /\ new \in Seq(Nat) /\ Len(new) = Size
        /\ \A d \in 1..Size : new[d] = IF d <= Size - 1 THEN rest[d] ELSE enqueued + 1
        BY <1>4, <2>2, AppendProperties
  <2>4. ASSUME NEW d \in 1..Size
        PROVE  Events'[d] = new[d]
    <3>1. d - 1 \in 0..(entryCounter' - 1) /\ Events'[d] = At(d - 1)'.asdu
          BY <1>9, <2>1
    <3>2. CASE d = Size
          BY <1>3, <2>1, <2>3, <3>1, <3>2
    <3>3. CASE d # Size
      <4>1. At(d - 1)' = At((d - 1) + 1)
            BY <1>3, <1>11, <2>1, <3>1, <3>3
      <4>2. Events[d + 1] = At((d + 1) - 1).asdu /\ (d + 1) - 1 = (d - 1) + 1
            BY <1>8, <2>1, <3>3
      <4> QED BY <2>2, <2>3, <3>1, <3>3, <4>1, <4>2
    <3> QED BY <3>2, <3>3
  <2>5. Events' = new
    <3> HIDE DEF new
    <3> QED BY <1>9, <2>1, <2>3, <2>4, SeqEqual
  <2>6. m = IF n > 0 THEN n - 1 ELSE 0
        BY <1>4, <1>5, <1>11
  <2> QED BY <1>4, <1>5, <1>6, <1>7, <1>8, <2>1, <2>5, <2>6 DEF EQ!Enqueue, HandedPrefix, rest
<1> QED BY <1>10, <1>11

LEMMA SendRefines ==
  ASSUME IInv, IInv', HandedPrefix, NEW c \in Conns, SendNext(c)
  PROVE  HandedPrefix' /\ EQ!HandOut
<1>1. PICK n \in 0..entryCounter : Prefix(n)
      BY DEF HandedPrefix
<1>2. /\ entryCounter \in 1..Size /\ firstMsgIndex \in Index /\ NextWaiting \in Index
      /\ StateAt(NextWaiting) = Waiting
      /\ \A j \in Index : Offset(j) < Offset(NextWaiting) => StateAt(j) = Sent
      /\ asdus \in [Index -> Slot]
      BY NextWaitingIsOldest DEF SendNext, IInv, TypeOK, RingOK, Contiguous
<1>3. PICK k \in Index : /\ k = Offset(NextWaiting) /\ k < entryCounter
                        /\ Up(firstMsgIndex, k) = NextWaiting
      BY <1>2, OffsetType DEF IInv, RingOK, Contiguous
<1>4. n = k
  <2>1. ~(k < n)
        BY <1>1, <1>2, <1>3 DEF Prefix, At, StateAt
  <2>2. ~(n < k)
    <3>1. ASSUME n < k
          PROVE  At(n).state = Sent
      <4>1. Up(firstMsgIndex, n) \in Index /\ Offset(Up(firstMsgIndex, n)) = n
            BY <1>2, <1>3, <3>1, OffsetUp
      <4> QED BY <1>2, <1>3, <3>1, <4>1 DEF At, StateAt
    <3> QED BY <1>1, <1>2, <1>3, <3>1 DEF Prefix
  <2> QED BY <1>1, <1>2, <1>3, <2>1, <2>2
<1>5. /\ asdus' = [asdus EXCEPT ![NextWaiting].state = Sent]
      /\ UNCHANGED <<entryCounter, firstMsgIndex, enqueued>>
      BY DEF SendNext
<1>6. ASSUME NEW d \in 0..(entryCounter - 1)
      PROVE  /\ At(d)'.asdu = At(d).asdu
             /\ At(d)'.state = IF d = k THEN Sent ELSE At(d).state
  <2>1. PICK i \in Index : i = Up(firstMsgIndex, d) /\ Offset(i) = d
        BY <1>2, OffsetUp, SMTT(20)
  <2>2. At(d) = asdus[i] /\ At(d)' = asdus'[i]
        BY <1>5, <2>1 DEF At
  <2>3. asdus[i] \in Slot /\ (i = NextWaiting <=> d = k)
        BY <1>2, <1>3, <2>1
  <2> QED BY <1>2, <1>5, <2>2, <2>3 DEF Slot
<1>7. Prefix(k + 1)' /\ k + 1 <= entryCounter' /\ k + 1 \in 0..Size
      BY <1>1, <1>2, <1>3, <1>4, <1>5, <1>6, SMTT(20) DEF Prefix
<1>8. HandedOut = n /\ HandedOut' = k + 1
  <2>1. Meaning /\ Meaning'
        BY MeaningHolds, MeaningPrime
  <2> QED BY <1>1, <1>2, <1>7, <2>1 DEF Meaning
<1>9. Events' = Events /\ Len(Events) = entryCounter
  <2>1. Meaning
        BY MeaningHolds
  <2>2. \A d \in 1..entryCounter : asdus'[Up(firstMsgIndex, d - 1)].asdu
                                   = asdus[Up(firstMsgIndex, d - 1)].asdu
        BY <1>5, <1>6 DEF At
  <2>3. Events' = [d \in 1..entryCounter |-> asdus'[Up(firstMsgIndex, d - 1)].asdu]
        BY <1>5 DEF Events, Up
  <2> QED BY <2>1, <2>2, <2>3 DEF Meaning, Events
<1> QED BY <1>3, <1>4, <1>5, <1>7, <1>8, <1>9 DEF EQ!HandOut, HandedPrefix

LEMMA ConfirmRefines ==
  ASSUME IInv, IInv', HandedPrefix, NEW c \in Conns, Confirm(c)
  PROVE  HandedPrefix' /\ (EQ!Confirm \/ UNCHANGED EQ!eventVars)
<1>1. PICK h \in Handle : h = Head(sentASDUs[c])
      BY HeldAfterConfirm
<1>2. MarkAsduAsConfirmed(h) /\ UNCHANGED enqueued
      BY <1>1 DEF Confirm
<1>3. CASE ~HandleMatches(h)
  <2>1. UNCHANGED ring
        BY <1>2, <1>3 DEF MarkAsduAsConfirmed
  <2> QED BY <1>2, <2>1 DEF ring, HandedPrefix, Prefix, At, EQ!eventVars, Events, HandedOut, StateAt
<1>4. CASE HandleMatches(h)
  <2>1. PICK n \in 0..entryCounter : Prefix(n)
        BY DEF HandedPrefix
  <2>2. PICK i \in Index, o \in Index, left \in 0..(Size - 1) : Sweeps(i, o, left)
        BY <1>2, <1>4, SweepSlots
  <2>3. /\ entryCounter' = left /\ entryCounter = left + o + 1 /\ entryCounter \in 1..Size
        /\ At(o).state = Sent
        /\ \A d \in 0..(left - 1) : At(d)' = At(d + o + 1)
        BY <1>4, <2>2, SweepAt DEF HandleMatches, IInv, TypeOK
  <2>4. o < n
        BY <2>1, <2>3 DEF Prefix
  <2>5. PICK m \in 1..Size : m = o + 1 /\ m <= n
        BY <2>1, <2>3, <2>4
  <2>6. Prefix(n - m)' /\ n - m \in 0..Size /\ n - m <= entryCounter'
    <3>1. ASSUME NEW d \in 0..(left - 1)
          PROVE  At(d)'.state = Sent <=> d < n - m
          BY <2>1, <2>3, <2>5, <3>1 DEF Prefix
    <3> QED BY <2>1, <2>3, <2>5, <3>1 DEF Prefix
  <2>7. Meaning /\ Meaning'
        BY MeaningHolds, MeaningPrime
  <2>8. HandedOut = n /\ HandedOut' = n - m
        BY <2>1, <2>3, <2>6, <2>7 DEF Meaning
  <2> DEFINE rest == SubSeq(Events, m + 1, Len(Events))
  <2>9. /\ Events \in Seq(Nat) /\ Len(Events) = entryCounter
        /\ \A d \in 1..entryCounter : Events[d] = At(d - 1).asdu /\ Events[d] \in Nat
        BY <2>7, ElementOfSeq DEF Meaning
  <2>10. /\ rest \in Seq(Nat) /\ Len(rest) = left
         /\ \A d \in 1..left : rest[d] = Events[m + d]
    <3>1. \A d \in (m + 1)..Len(Events) : Events[d] \in Nat
          BY <2>3, <2>5, <2>9
    <3>2. /\ rest \in Seq(Nat)
          /\ Len(rest) = IF m + 1 <= Len(Events) THEN Len(Events) - (m + 1) + 1 ELSE 0
          /\ \A d \in 1..(Len(Events) - (m + 1) + 1) : rest[d] = Events[(m + 1) + d - 1]
      <4>1. m + 1 \in Int /\ Len(Events) \in Int
            BY <2>3, <2>5, <2>9
      <4> QED BY <3>1, <4>1, SubSeqProperties DEF rest
    <3>3. Len(Events) - (m + 1) + 1 = left /\ \A d \in 1..left : (m + 1) + d - 1 = m + d
          BY <2>3, <2>5, <2>9
    <3> QED BY <2>3, <2>5, <2>9, <3>2, <3>3
  <2> HIDE DEF rest
  <2>11. ASSUME NEW d \in 1..left
         PROVE  Events'[d] = rest[d]
    <3>1. Events'[d] = At(d - 1)'.asdu
          BY <2>3, <2>7 DEF Meaning
    <3>2. PICK e \in 0..(left - 1) : e = d - 1
          OBVIOUS
    <3>3. At(d - 1)' = At(e + o + 1)
          BY <2>3, <3>2
    <3>4. entryCounter = left + o + 1
          BY <2>3
    <3>5. m + d \in 1..entryCounter /\ (m + d) - 1 = e + o + 1
          BY <2>5, <3>2, <3>4
    <3>6. Events[m + d] = At((m + d) - 1).asdu
          BY <2>9, <3>5
    <3> QED BY <2>10, <3>1, <3>3, <3>5, <3>6
  <2>12. Events' = rest
    <3>1. Events' \in Seq(Nat) /\ Len(Events') = left
          BY <2>3, <2>7 DEF Meaning
    <3> QED BY <2>10, <2>11, <3>1, SeqEqual
  <2>13. m \in 1..HandedOut /\ HandedOut' = HandedOut - m
        BY <2>1, <2>5, <2>8
  <2> QED BY <1>2, <2>6, <2>12, <2>13 DEF EQ!Confirm, HandedPrefix, rest
<1> QED BY <1>3, <1>4

LEMMA ReleaseRefines ==
  ASSUME IInv', ReleaseAllQueuedASDUs
  PROVE  HandedPrefix' /\ EQ!Discard
<1>1. entryCounter' = 0 /\ UNCHANGED enqueued
      BY DEF ReleaseAllQueuedASDUs
<1>2. Prefix(0)'
      BY <1>1 DEF Prefix
<1>3. Meaning'
      BY MeaningPrime
<1>4. Events' = <<>>
      BY <1>1, <1>3, EmptySeq DEF Meaning
<1>5. HandedOut' = 0
      BY <1>1, <1>2, <1>3 DEF Meaning
<1> QED BY <1>1, <1>2, <1>4, <1>5 DEF HandedPrefix, EQ!Discard

(* The ring implements the event queue, for every size and every number of   *)
(* connections: order kept, each event handed out at most once, a full queue *)
(* drops its oldest event, a confirmation removes a handed-out prefix.       *)
THEOREM Refinement == Spec => ImplementsEventQueue
<1>1. Init => HandedPrefix /\ EQ!Init
  <2> SUFFICES ASSUME Init PROVE HandedPrefix /\ EQ!Init
      OBVIOUS
  <2>1. entryCounter = 0 /\ enqueued = 0 /\ Meaning
        BY InitIInv, MeaningHolds DEF Init
  <2>2. Prefix(0) /\ HandedPrefix
        BY <2>1 DEF Prefix, HandedPrefix
  <2>3. Events = <<>> /\ HandedOut = 0
        BY <2>1, <2>2, EmptySeq DEF Meaning
  <2> QED BY <2>1, <2>2, <2>3 DEF EQ!Init
<1>2. IInv /\ IInv' /\ HandedPrefix /\ [Next]_vars => HandedPrefix' /\ [EQ!Next]_EQ!eventVars
  <2> SUFFICES ASSUME IInv, IInv', HandedPrefix, [Next]_vars
               PROVE  HandedPrefix' /\ [EQ!Next]_EQ!eventVars
      OBVIOUS
  <2>1. CASE UNCHANGED <<ring, enqueued>>
        BY <2>1 DEF ring, HandedPrefix, Prefix, At, EQ!eventVars, Events, HandedOut, StateAt
  <2>2. CASE Enqueue
        BY <2>2, EnqueueRefines DEF Enqueue, EQ!Next
  <2>3. ASSUME NEW c \in Conns, SendNext(c) \/ Confirm(c)
        PROVE  HandedPrefix' /\ [EQ!Next]_EQ!eventVars
        BY <2>3, SendRefines, ConfirmRefines DEF EQ!Next
  <2>4. ASSUME NEW c \in Conns, ConnectionLost(c)
        PROVE  HandedPrefix' /\ [EQ!Next]_EQ!eventVars
        BY <2>1, <2>4 DEF ConnectionLost
  <2>5. CASE ReleaseAllQueuedASDUs
        BY <2>5, ReleaseRefines DEF EQ!Next
  <2> QED BY <2>1, <2>2, <2>3, <2>4, <2>5 DEF Next, vars
<1> QED BY Invariance, <1>1, <1>2, PTL DEF Spec, ImplementsEventQueue, EQ!Spec
=============================================================================
