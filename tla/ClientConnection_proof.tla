----------------------- MODULE ClientConnection_proof -----------------------
(* Proofs about a client, for all parameters k, w, t1, t2 and t3: whatever   *)
(* its two sending threads and the server do, frames are acknowledged,       *)
(* confirmed or missed in time, and silence closes the connection.           *)
EXTENDS ClientConnection, SequenceTheorems, TLAPS

USE ClientAssumption

-----------------------------------------------------------------------------
(* The k-buffer: ages that do not increase from the oldest frame on. A frame *)
(* of the future is only in the buffer while it is also the oldest.          *)
Age == Future..(T1 + 1)

Ordered(s) == /\ \A i, j \in 1..Len(s) : i < j => s[i] >= s[j]
              /\ \A i \in 1..Len(s) : s[i] >= 0
Below(s)   == \A i \in 1..Len(s) : s[i] < T1

LEMMA Appended ==
  ASSUME NEW s \in Seq(Age)
  PROVE  /\ Append(s, 0) \in Seq(Age) /\ Len(Append(s, 0)) = Len(s) + 1
         /\ (s # <<>> => Append(s, 0) # <<>> /\ Append(s, 0)[1] = s[1])
         /\ (Ordered(s) => Ordered(Append(s, 0))) /\ (Below(s) => Below(Append(s, 0)))
<1> DEFINE t == Append(s, 0)
<1>1. 0 \in Age
      BY DEF Age, Future
<1>2. /\ t \in Seq(Age) /\ Len(t) = Len(s) + 1 /\ Len(s) \in Nat
      /\ \A i \in 1..Len(s) : t[i] = s[i] /\ s[i] \in Age
      /\ t[Len(s) + 1] = 0
      BY <1>1, AppendProperties, LenProperties, ElementOfSeq
<1> HIDE DEF t
<1>3. \A i \in 1..Len(t) : i \in 1..Len(s) \/ i = Len(s) + 1
      BY <1>2
<1>4. ASSUME Ordered(s) PROVE Ordered(t)
  <2>1. ASSUME NEW i \in 1..Len(t), NEW j \in 1..Len(t), i < j
        PROVE  t[i] >= t[j]
    <3>1. i \in 1..Len(s) /\ t[i] = s[i] /\ s[i] \in Age /\ s[i] >= 0
          BY <1>2, <1>4, <2>1 DEF Ordered
    <3>2. CASE j \in 1..Len(s)
          BY <1>2, <1>4, <2>1, <3>1, <3>2 DEF Ordered
    <3>3. CASE j = Len(s) + 1
          BY <1>2, <3>1, <3>3
    <3> QED BY <1>3, <2>1, <3>2, <3>3
  <2>2. \A i \in 1..Len(t) : t[i] >= 0
        BY <1>2, <1>3, <1>4 DEF Ordered
  <2> QED BY <2>1, <2>2 DEF Ordered
<1>5. ASSUME Below(s) PROVE Below(t)
      BY <1>2, <1>3, <1>5 DEF Below
<1>6. ASSUME s # <<>> PROVE t # <<>> /\ t[1] = s[1]
  <2>1. Len(s) # 0
        BY <1>6, EmptySeq
  <2>2. 1 \in 1..Len(s) /\ Len(t) # 0
        BY <1>2, <2>1
  <2> QED BY <1>2, <2>2
<1> QED BY <1>2, <1>4, <1>5, <1>6 DEF t

LEMMA Single ==
  ASSUME NEW a \in Age
  PROVE  /\ <<a>> \in Seq(Age) /\ Len(<<a>>) = 1 /\ <<a>> # <<>> /\ <<a>>[1] = a
         /\ (a = 0 => Ordered(<<a>>) /\ Below(<<a>>))
BY DEF Ordered, Below

LEMMA Removed ==
  ASSUME NEW s \in Seq(Age), Ordered(s), NEW d \in 0..Len(s)
  PROVE  /\ SubSeq(s, d + 1, Len(s)) \in Seq(Age) /\ Len(SubSeq(s, d + 1, Len(s))) = Len(s) - d
         /\ Ordered(SubSeq(s, d + 1, Len(s)))
         /\ Below(s) => Below(SubSeq(s, d + 1, Len(s)))
<1> DEFINE t == SubSeq(s, d + 1, Len(s))
<1>1. Len(s) \in Nat /\ \A i \in 1..Len(s) : s[i] \in Age
      BY LenProperties, ElementOfSeq
<1>2. d + 1 \in Int /\ Len(s) \in Int /\ \A i \in (d + 1)..Len(s) : s[i] \in Age
      BY <1>1
<1>3. /\ t \in Seq(Age)
      /\ Len(t) = IF d + 1 <= Len(s) THEN Len(s) - (d + 1) + 1 ELSE 0
      /\ \A i \in 1..(Len(s) - (d + 1) + 1) : t[i] = s[d + 1 + i - 1]
      BY <1>2, SubSeqProperties
<1> HIDE DEF t
<1>4. Len(t) = Len(s) - d
      BY <1>1, <1>3
<1>5. \A i \in 1..Len(t) : d + i \in 1..Len(s) /\ t[i] = s[d + i]
      BY <1>1, <1>3, <1>4
<1>6. Ordered(t)
  <2>1. ASSUME NEW i \in 1..Len(t), NEW j \in 1..Len(t), i < j
        PROVE  t[i] >= t[j]
    <3>1. /\ d + i \in 1..Len(s) /\ d + j \in 1..Len(s) /\ t[i] = s[d + i] /\ t[j] = s[d + j]
          BY <1>5
    <3>2. d + i < d + j
          BY <1>4, <2>1
    <3> QED BY <3>1, <3>2 DEF Ordered
  <2>2. \A i \in 1..Len(t) : t[i] >= 0
        BY <1>5 DEF Ordered
  <2> QED BY <2>1, <2>2 DEF Ordered
<1>7. ASSUME Below(s) PROVE Below(t)
      BY <1>5, <1>7 DEF Below
<1> QED BY <1>3, <1>4, <1>6, <1>7 DEF t

(* A function of the ages that keeps their order keeps the buffer in order.  *)
Grown(s)   == [i \in DOMAIN s |-> Older(s[i], T1)]
Arrived(s) == [i \in DOMAIN s |-> IF s[i] = Future THEN 0 ELSE s[i]]

LEMMA Aged ==
  ASSUME NEW s \in Seq(Age), Ordered(s)
  PROVE  Grown(s) \in Seq(Age) /\ Len(Grown(s)) = Len(s) /\ Ordered(Grown(s))
<1> DEFINE t == Grown(s)
<1>1. Len(s) \in Nat /\ DOMAIN s = 1..Len(s) /\ \A i \in 1..Len(s) : s[i] \in Age
      BY LenProperties, ElementOfSeq
<1>2. \A a \in Age : Older(a, T1) \in Age
      BY DEF Age, Older, Future
<1>3. t \in [1..Len(s) -> Age]
      BY <1>1, <1>2 DEF Grown
<1>4. t \in Seq(Age)
      BY <1>1, <1>3, SeqDef
<1>5. Len(t) = Len(s)
      BY <1>1, <1>3, <1>4, LenProperties
<1>6. \A i \in 1..Len(s) : t[i] = Older(s[i], T1)
      BY <1>1 DEF Grown
<1> HIDE DEF t
<1>7. \A a, b \in Age : a >= b => Older(a, T1) >= Older(b, T1)
      BY DEF Age, Older, Future
<1>8. ASSUME NEW i \in 1..Len(t), NEW j \in 1..Len(t), i < j
      PROVE  t[i] >= t[j]
  <2>1. s[i] >= s[j] /\ s[i] \in Age /\ s[j] \in Age
        BY <1>1, <1>5, <1>8 DEF Ordered
  <2> QED BY <1>5, <1>6, <1>7, <2>1
<1>9. ASSUME NEW i \in 1..Len(t) PROVE t[i] >= 0
  <2>1. s[i] >= 0 /\ s[i] \in Age /\ t[i] = Older(s[i], T1)
        BY <1>1, <1>5, <1>6, <1>9 DEF Ordered
  <2> QED BY <2>1 DEF Age, Older, Future
<1>10. Ordered(t)
      BY <1>8, <1>9 DEF Ordered
<1> QED BY <1>4, <1>5, <1>10 DEF t

LEMMA Arrival ==
  ASSUME NEW s \in Seq(Age)
  PROVE  Arrived(s) \in Seq(Age) /\ Len(Arrived(s)) = Len(s) /\ (Ordered(s) => Arrived(s) = s)
<1> DEFINE t == Arrived(s)
<1>1. Len(s) \in Nat /\ DOMAIN s = 1..Len(s) /\ \A i \in 1..Len(s) : s[i] \in Age
      BY LenProperties, ElementOfSeq
<1>2. t \in [1..Len(s) -> Age]
      BY <1>1 DEF Age, Future, Arrived
<1>3. t \in Seq(Age)
      BY <1>1, <1>2, SeqDef
<1>4. Len(t) = Len(s)
      BY <1>1, <1>2, <1>3, LenProperties
<1>5. \A i \in 1..Len(s) : t[i] = IF s[i] = Future THEN 0 ELSE s[i]
      BY <1>1 DEF Arrived
<1> HIDE DEF t
<1>6. ASSUME Ordered(s) PROVE t = s
  <2>1. \A i \in 1..Len(s) : t[i] = s[i]
        BY <1>1, <1>5, <1>6 DEF Ordered, Future
  <2> QED BY <1>3, <1>4, <2>1, SeqEqual
<1> QED BY <1>3, <1>4, <1>6 DEF t

(* The oldest frame is tested for all of them (handleTimeouts).              *)
LEMMA OldestCounts ==
  ASSUME NEW s \in Seq(Age), Ordered(s), s # <<>> => s[1] < T1
  PROVE  Below(s)
<1> SUFFICES ASSUME NEW i \in 1..Len(s) PROVE s[i] < T1
    BY DEF Below
<1>1. Len(s) \in Nat /\ s # <<>> /\ \A j \in 1..Len(s) : s[j] \in Age
      BY LenProperties, EmptySeq, ElementOfSeq
<1>2. s[1] < T1 /\ 1 \in 1..Len(s)
      BY <1>1
<1>3. CASE i = 1
      BY <1>2, <1>3
<1>4. CASE i # 1
  <2>1. s[1] >= s[i]
        BY <1>2, <1>4 DEF Ordered
  <2> QED BY <1>1, <1>2, <2>1 DEF Age, Future
<1> QED BY <1>3, <1>4

-----------------------------------------------------------------------------
(* The inductive invariant. *)
Up == Open \union {"connect"}

Early == sentAges # <<>> /\ sentAges[1] = Future

AgesOK ==
  /\ thread \in Up /\ thread # "t1" => Ordered(sentAges) /\ (iterated => Below(sentAges))
  /\ thread = "t1" => Ordered(sentAges) \/ Early

(* Before w received frames are counted, one S frame acknowledges them.      *)
Bounded ==
  /\ thread \notin {"handler", "wcheck"} => unconfirmedReceivedIMessages < W
  /\ thread = "check" => unacked < ServerK

(* The second thread has acknowledged everything it will reset the counter   *)
(* for, unless it has raced with the reception of an I frame.                *)
UnderLock ==
  /\ Locked => unacked = 0
  /\ Locked /\ ~raced => thread # "count"

T2Runs == thread = "check" /\ ~raced => timeoutT2Trigger

(* The counter is exact, and T2 has been running since the oldest frame that *)
(* is not acknowledged.                                                      *)
Counted ==
  unacked = IF thread = "count" THEN unconfirmedReceivedIMessages + 1
            ELSE unconfirmedReceivedIMessages

Timed ==
  unacked > 0 => /\ timeoutT2Trigger
                 /\ unackedAge <= t2Age
                 /\ (iterated => unackedAge < T2)

Exact == thread \in Up /\ ~raced /\ ~Locked => Counted /\ Timed

AckOK == Bounded /\ UnderLock /\ T2Runs /\ Exact

(* Between the test of isSentBufferFull and the write nobody fills the buffer*)
(* unless the other thread has written, which makes the test outdated.       *)
Room == sender.handler = "checked" \/ sender.second = "checked" => ~Full

(* Each TESTFR message of a silent connection allows for t3 more; if t1 is   *)
(* less than t3, for t1 only, because no other one restarts its timeout.     *)
Received == {"connect", "opened", "check", "count", "handler"}

Waited ==
  /\ silence <= outstandingTestFCConMessages * (T3 + 1) + t3Age
  /\ T1 < T3 => \/ silence <= t3Age
                \/ uAge # Off /\ uAge = t3Age /\ silence <= T3 + 1 + uAge

Silent ==
  thread \in Up =>
    /\ thread \in Received => silence = 0
    /\ iterated => t3Age <= T3 /\ uAge <= T1
    /\ Waited

IInv == TypeOK /\ AgesOK /\ AckOK /\ Room /\ Silent

Senders == [handler : {"idle", "checked", "stale"},
            second : {"idle", "checked", "stale", "locked"}]
Threads == Open \union {"none", "created", "connect", "leave", "ended"}

LEMMA LimitIsNatural == SilenceLimit \in Nat
BY DEF SilenceLimit

Flags ==
  /\ old \in BOOLEAN /\ running \in BOOLEAN /\ failure \in BOOLEAN /\ close \in BOOLEAN
  /\ loopRunning \in BOOLEAN /\ iterated \in BOOLEAN /\ serverAlive \in BOOLEAN
  /\ app \in {"idle", "connect", "close", "freed"}

Buffer ==
  /\ sentAges \in Seq(Age) /\ Len(sentAges) <= K /\ forgotten \in BOOLEAN
  /\ sender \in Senders

Acks ==
  /\ timeoutT2Trigger \in BOOLEAN /\ raced \in BOOLEAN
  /\ unconfirmedReceivedIMessages \in 0..W /\ unacked \in 0..ServerK
  /\ t2Age \in 0..(T2 + 1) /\ unackedAge \in 0..(T2 + 1)

Tests ==
  /\ t3Age \in 0..(T3 + 1) /\ uAge \in Off..(T1 + 1)
  /\ outstandingTestFCConMessages \in 0..3 /\ silence \in 0..(SilenceLimit + 1)

LEMMA Types == TypeOK <=> Flags /\ thread \in Threads /\ Buffer /\ Acks /\ Tests
BY DEF TypeOK, Flags, Threads, Buffer, Acks, Tests, Senders, Age

-----------------------------------------------------------------------------
(* What a step leaves of each part of the invariant. *)
LEMMA AgesKept ==
  ASSUME AgesOK, sentAges' = sentAges,
         thread' \in Up /\ thread' # "t1"
           => thread \in Up /\ thread # "t1" /\ (iterated' => iterated),
         thread' = "t1" => thread \in Up
  PROVE  AgesOK'
BY DEF AgesOK, Early

LEMMA AgesStored ==
  ASSUME TypeOK, AgesOK, thread \in Up, Store(0),
         thread' = thread, iterated' = iterated
  PROVE  /\ AgesOK' /\ sentAges' \in Seq(Age) /\ Len(sentAges') <= K
         /\ forgotten' \in BOOLEAN
<1>1. /\ sentAges \in Seq(Age) /\ Len(sentAges) <= K /\ Len(sentAges) \in Nat
      /\ forgotten \in BOOLEAN
      BY Types, LenProperties DEF Buffer
<1>2. 0 \in Age /\ 1 <= K
      BY DEF Age, Future
<1>3. forgotten' \in BOOLEAN
      BY DEF Store
<1>4. CASE Full
  <2>1. sentAges' = <<0>>
        BY <1>4 DEF Store
  <2>2. /\ sentAges' \in Seq(Age) /\ Len(sentAges') = 1
        /\ Ordered(sentAges') /\ Below(sentAges')
        BY <1>2, <2>1, Single
  <2>3. AgesOK'
        BY <2>2 DEF AgesOK
  <2>4. Len(sentAges') <= K
        BY <1>2, <2>2
  <2> QED BY <1>3, <2>2, <2>3, <2>4, Zenon
<1>5. CASE ~Full
  <2>1. sentAges' = Append(sentAges, 0)
        BY <1>5 DEF Store
  <2>2. /\ sentAges' \in Seq(Age) /\ Len(sentAges') = Len(sentAges) + 1
        /\ (sentAges # <<>> => sentAges' # <<>> /\ sentAges'[1] = sentAges[1])
        /\ (Ordered(sentAges) => Ordered(sentAges'))
        /\ (Below(sentAges) => Below(sentAges'))
    <3>1. /\ Append(sentAges, 0) \in Seq(Age) /\ Len(Append(sentAges, 0)) = Len(sentAges) + 1
          /\ (sentAges # <<>> => Append(sentAges, 0) # <<>>
                                 /\ Append(sentAges, 0)[1] = sentAges[1])
          /\ (Ordered(sentAges) => Ordered(Append(sentAges, 0)))
          /\ (Below(sentAges) => Below(Append(sentAges, 0)))
          BY <1>1, Appended
    <3> QED BY <2>1, <3>1
  <2>3. Len(sentAges') <= K
        BY <1>1, <1>5, <2>2 DEF Full
  <2>4. AgesOK'
        BY <2>2 DEF AgesOK, Early
  <2> QED BY <1>3, <2>2, <2>3, <2>4, Zenon
<1> QED BY <1>4, <1>5

LEMMA AgesEarly ==
  ASSUME TypeOK, AgesOK, Full \/ sentAges = <<>>, Store(Future), thread' = "t1"
  PROVE  /\ AgesOK' /\ sentAges' \in Seq(Age) /\ Len(sentAges') <= K
         /\ forgotten' \in BOOLEAN
<1>1. Future \in Age
      BY DEF Age, Future
<1>2. sentAges' = <<Future>>
  <2>1. <<Future>> = Append(<<>>, Future)
        OBVIOUS
  <2> QED BY <2>1 DEF Store
<1>3. /\ sentAges' \in Seq(Age) /\ Len(sentAges') = 1 /\ sentAges' # <<>>
      /\ sentAges'[1] = Future
      BY <1>1, <1>2, Single
<1> QED BY <1>3 DEF AgesOK, Early, Store

LEMMA AgesConfirmed ==
  ASSUME TypeOK, AgesOK, \E n \in 0..Len(sentAges) : Confirmed(n),
         thread \in Up, thread # "t1", thread' # "t1", iterated' = iterated
  PROVE  /\ AgesOK' /\ sentAges' \in Seq(Age) /\ Len(sentAges') <= Len(sentAges)
         /\ forgotten' \in BOOLEAN
<1>1. sentAges \in Seq(Age) /\ Len(sentAges) <= K /\ Len(sentAges) \in Nat
      BY Types, LenProperties DEF Buffer
<1>2. PICK n \in 0..Len(sentAges) : Confirmed(n)
      OBVIOUS
<1>3. sentAges' = SubSeq(sentAges, n + 1, Len(sentAges)) /\ forgotten' = FALSE
      BY <1>2 DEF Confirmed
<1>4. /\ sentAges' \in Seq(Age) /\ Len(sentAges') = Len(sentAges) - n
      /\ Ordered(sentAges') /\ (Below(sentAges) => Below(sentAges'))
      BY <1>1, <1>2, <1>3, Removed DEF AgesOK
<1>5. AgesOK'
      BY <1>4 DEF AgesOK
<1>6. forgotten' \in BOOLEAN
      BY <1>3
<1>7. Len(sentAges') <= Len(sentAges)
      BY <1>1, <1>2, <1>4
<1> QED BY <1>4, <1>5, <1>6, <1>7, Zenon

LEMMA AckKept ==
  ASSUME AckOK, UNCHANGED <<ack, t2Age>>, Locked' <=> Locked,
         thread' \in Up => thread \in Up /\ (iterated' => iterated),
         \/ thread' = thread
         \/ /\ thread' \notin {"check", "count"} /\ thread # "count"
            /\ thread \in {"handler", "wcheck"} => thread' \in {"handler", "wcheck"}
  PROVE  AckOK'
<1>1. UNCHANGED <<unconfirmedReceivedIMessages, timeoutT2Trigger, unacked, unackedAge, t2Age,
                  raced>>
      BY DEF ack
<1>2. Bounded'
      BY <1>1 DEF AckOK, Bounded
<1>3. UnderLock' /\ T2Runs'
      BY <1>1 DEF AckOK, UnderLock, T2Runs
<1>4. Exact'
      BY <1>1 DEF AckOK, Exact, Counted, Timed
<1> QED BY <1>2, <1>3, <1>4 DEF AckOK

(* Everything is acknowledged and the counter reset. *)
LEMMA AckReset ==
  ASSUME AckOK, unconfirmedReceivedIMessages' = 0, unacked' = 0, thread' \notin {"check", "count"}
  PROVE  AckOK'
<1>1. Bounded'
      BY DEF Bounded
<1>2. UnderLock' /\ T2Runs'
      BY DEF UnderLock, T2Runs
<1>3. Exact'
      BY DEF Exact, Counted, Timed
<1> QED BY <1>1, <1>2, <1>3 DEF AckOK

LEMMA SilentKept ==
  ASSUME Silent, UNCHANGED <<testfr, silence>>,
         thread' \in Up => thread \in Up /\ (iterated' => iterated),
         thread' \in Received => thread \in Received
  PROVE  Silent'
<1>1. UNCHANGED <<t3Age, outstandingTestFCConMessages, uAge, silence>>
      BY DEF testfr
<1>2. Waited => Waited'
      BY <1>1 DEF Waited
<1> QED BY <1>1, <1>2 DEF Silent

(* A message has come, or an event of it is handled. *)
LEMMA SilentRestarted ==
  ASSUME TypeOK, Silent, thread \in Up, silence' = 0, iterated' = iterated,
         t3Age' = t3Age \/ t3Age' = 0,
         uAge' = uAge \/ uAge' = Off,
         outstandingTestFCConMessages' \in {outstandingTestFCConMessages, 0}
  PROVE  Silent' /\ Tests'
<1>1. Tests
      BY Types
<1>2. PICK o \in 0..3 : outstandingTestFCConMessages' = o
      BY <1>1 DEF Tests
<1>3. PICK t \in 0..(T3 + 1) : t3Age' = t
      BY <1>1 DEF Tests
<1>4. 0 <= o * (T3 + 1) + t
  <2>1. o = 0 \/ o = 1 \/ o = 2 \/ o = 3
        BY <1>2
  <2> QED BY <1>3, <2>1
<1>5. Waited'
      BY <1>2, <1>3, <1>4 DEF Waited
<1>6. iterated' => t3Age' <= T3 /\ uAge' <= T1
      BY DEF Silent, Off
<1>7. Tests'
  <2>1. uAge' \in Off..(T1 + 1)
        BY <1>1 DEF Tests, Off
  <2>2. 0 \in 0..(SilenceLimit + 1)
        BY LimitIsNatural
  <2> QED BY <1>2, <1>3, <2>1, <2>2 DEF Tests
<1> QED BY <1>5, <1>6, <1>7 DEF Silent

LEMMA RoomKept ==
  ASSUME Room, TypeOK, Len(sentAges') <= Len(sentAges), Len(sentAges') \in Nat,
         sender' = sender
  PROVE  Room'
<1>1. Len(sentAges) \in Nat /\ Len(sentAges) <= K
      BY Types, LenProperties DEF Buffer
<1> QED BY <1>1 DEF Room, Full

(* Steps that neither fill the buffer nor count, time or acknowledge.        *)
LEMMA QuietStep ==
  ASSUME IInv, UNCHANGED <<sentAges, forgotten, ack, t2Age, testfr, silence, iterated>>,
         Flags', thread' \in Threads, sender' \in Senders, Locked' <=> Locked, Room',
         thread' \in Up => thread \in Up,
         thread' \in Up => (thread' = "t1" <=> thread = "t1"),
         thread' \in Received => thread \in Received,
         \/ thread' = thread
         \/ /\ thread' \notin {"check", "count"} /\ thread # "count"
            /\ thread \in {"handler", "wcheck"} => thread' \in {"handler", "wcheck"}
  PROVE  IInv'
<1>1. TypeOK'
  <2>1. Buffer /\ Acks /\ Tests
        BY Types DEF IInv
  <2>2. Buffer'
        BY <2>1 DEF Buffer
  <2>3. Acks'
        BY <2>1 DEF Acks, ack
  <2>4. Tests'
        BY <2>1 DEF Tests, testfr
  <2> QED BY <2>2, <2>3, <2>4 DEF TypeOK, Flags, Threads, Buffer, Acks, Tests, Senders, Age
<1>2. AgesOK'
      BY AgesKept DEF IInv, Up, Open
<1>3. AckOK'
      BY AckKept DEF IInv
<1>4. Silent'
      BY SilentKept DEF IInv
<1> QED BY <1>1, <1>2, <1>3, <1>4 DEF IInv

LEMMA TypesNext ==
  ASSUME Flags', thread' \in Threads, Buffer', Acks', Tests'
  PROVE  TypeOK'
BY DEF TypeOK, Flags, Threads, Buffer, Acks, Tests, Senders, Age

LEMMA Unchanged ==
  ASSUME TypeOK
  PROVE  /\ UNCHANGED <<app, old, running, failure, close, loopRunning, iterated, serverAlive>>
              => Flags'
         /\ UNCHANGED <<sentAges, forgotten, sender>> => Buffer'
         /\ UNCHANGED <<ack, t2Age>> => Acks'
         /\ UNCHANGED <<testfr, silence>> => Tests'
<1>1. Flags /\ Buffer /\ Acks /\ Tests
      BY Types
<1>2. UNCHANGED <<app, old, running, failure, close, loopRunning, iterated, serverAlive>> => Flags'
      BY <1>1 DEF Flags
<1>3. UNCHANGED <<sentAges, forgotten, sender>> => Buffer'
      BY <1>1 DEF Buffer
<1>4. UNCHANGED <<ack, t2Age>> => Acks'
      BY <1>1 DEF Acks, ack
<1>5. UNCHANGED <<testfr, silence>> => Tests'
      BY <1>1 DEF Tests, testfr
<1> QED BY <1>2, <1>3, <1>4, <1>5

LEMMA HandlerMoves ==
  ASSUME sender \in Senders, NEW h \in {"idle", "checked", "stale"},
         NEW t \in {"idle", "checked", "stale", "locked"}
  PROVE  /\ [sender EXCEPT !.handler = h] \in Senders
         /\ [sender EXCEPT !.handler = h].handler = h
         /\ [sender EXCEPT !.handler = h].second = sender.second
         /\ [sender EXCEPT !.second = t] \in Senders
         /\ [sender EXCEPT !.second = t].second = t
         /\ [sender EXCEPT !.second = t].handler = sender.handler
BY DEF Senders

-----------------------------------------------------------------------------
(* The steps of the application, of the thread that neither sends, receives  *)
(* nor looks at times, and of a server that falls silent.                    *)
LEMMA ConnectionStep ==
  ASSUME IInv,
         \/ \E blocking \in BOOLEAN : Connect(blocking)
         \/ ConnectReturns \/ Close \/ CloseReturns \/ OldEnds \/ ServerFallsSilent
         \/ SocketConnects \/ SocketConnectFails \/ OpenedHandlerReturns \/ Ends
         \/ ReceiveNothing \/ ReceiveError \/ CheckFails \/ UNCHANGED vars
  PROVE  IInv'
<1>1. /\ UNCHANGED <<sentAges, forgotten, sender, ack, t2Age, testfr, silence, iterated>>
      /\ \/ thread' = thread
         \/ thread' = "created"
         \/ thread \in {"none", "created", "leave", "ended"}
            /\ thread' \in {"none", "created", "leave", "ended"}
         \/ thread = "connect" /\ thread' \in {"opened", "leave"}
         \/ thread = "opened" /\ thread' = "wait"
         \/ thread = "wait" /\ thread' \in {"timeouts", "wcheck"}
         \/ thread = "check" /\ thread' = "wcheck"
  <2>1. CASE \E blocking \in BOOLEAN : Connect(blocking)
        BY <2>1 DEF Connect, buffer, env
  <2>2. CASE ConnectReturns \/ Close \/ CloseReturns \/ OldEnds \/ ServerFallsSilent
        BY <2>2 DEF ConnectReturns, Close, CloseReturns, OldEnds, ServerFallsSilent, buffer, env
  <2>3. CASE SocketConnects \/ SocketConnectFails \/ OpenedHandlerReturns \/ Ends
        BY <2>3 DEF SocketConnects, SocketConnectFails, OpenedHandlerReturns, Ends, buffer, env
  <2>4. CASE ReceiveNothing \/ ReceiveError \/ CheckFails
        BY <2>4 DEF ReceiveNothing, ReceiveError, CheckFails, buffer, env
  <2>5. CASE UNCHANGED vars
        BY <2>5 DEF vars, buffer, env
  <2> QED BY <2>1, <2>2, <2>3, <2>4, <2>5
<1>2. Flags /\ thread \in Threads /\ sender \in Senders
      BY Types DEF IInv, Buffer
<1>3. Flags'
  <2>1. CASE \E blocking \in BOOLEAN : Connect(blocking)
    <3>1. old' = (thread = "leave")
          BY <2>1 DEF Connect
    <3>2. old' \in BOOLEAN
          BY <3>1
    <3>3. app' \in {"idle", "connect", "close", "freed"}
          BY <2>1 DEF Connect
    <3>4. /\ running' = FALSE /\ failure' = FALSE /\ close' = FALSE
          /\ loopRunning' = loopRunning /\ iterated' = iterated /\ serverAlive' = serverAlive
          BY <2>1 DEF Connect, env
    <3> QED BY <1>2, <3>2, <3>3, <3>4 DEF Flags
  <2>2. CASE ConnectReturns \/ Close \/ CloseReturns \/ OldEnds \/ ServerFallsSilent
    <3>1. CASE ConnectReturns
          BY <1>2, <3>1 DEF Flags, ConnectReturns, flags, env
    <3>2. CASE Close
      <4>1. app' \in {"idle", "connect", "close", "freed"}
            BY <3>2 DEF Close, AfterClose
      <4> QED BY <1>2, <3>2, <4>1 DEF Flags, Close, env
    <3>3. CASE CloseReturns
      <4>1. app' \in {"idle", "connect", "close", "freed"}
            BY <3>3 DEF CloseReturns, AfterClose
      <4> QED BY <1>2, <3>3, <4>1 DEF Flags, CloseReturns, flags, env
    <3>4. CASE OldEnds
          BY <1>2, <3>4 DEF Flags, OldEnds, env
    <3>5. CASE ServerFallsSilent
          BY <1>2, <3>5 DEF Flags, ServerFallsSilent, flags
    <3> QED BY <2>2, <3>1, <3>2, <3>3, <3>4, <3>5
  <2>3. CASE SocketConnects \/ SocketConnectFails \/ OpenedHandlerReturns \/ Ends
        BY <1>2, <2>3 DEF Flags, SocketConnects, SocketConnectFails, OpenedHandlerReturns, Ends,
           flags, env
  <2>4. CASE ReceiveNothing \/ ReceiveError \/ CheckFails
        BY <1>2, <2>4 DEF Flags, ReceiveNothing, ReceiveError, CheckFails, Fails, flags, env
  <2>5. CASE UNCHANGED vars
        BY <1>2, <2>5 DEF Flags, vars, flags, env
  <2> QED BY <2>1, <2>2, <2>3, <2>4, <2>5
<1>4. /\ thread' \in Threads
      /\ thread' \in Up => thread \in Up
      /\ thread' \in Up => (thread' = "t1" <=> thread = "t1")
      /\ thread' \in Received => thread \in Received
  <2>1. thread' = thread \/ thread' \in {"none", "created", "leave", "ended", "opened", "wait",
                                         "timeouts", "wcheck"}
        BY <1>1
  <2>2. thread' \in Threads
        BY <1>2, <2>1 DEF Threads, Open
  <2>3. thread' \in Up => thread \in Up /\ (thread' = "t1" <=> thread = "t1")
        BY <1>1 DEF Up, Open
  <2> QED BY <1>1, <2>2, <2>3 DEF Received
<1>5. \/ thread' = thread
      \/ /\ thread' \notin {"check", "count"} /\ thread # "count"
         /\ thread \in {"handler", "wcheck"} => thread' \in {"handler", "wcheck"}
  <2>1. thread' = "created" => thread' = thread \/ thread \in {"none", "leave", "ended"}
        BY Zenon DEF Connect, ConnectReturns, Close, CloseReturns, OldEnds, ServerFallsSilent,
           SocketConnects, SocketConnectFails, OpenedHandlerReturns, Ends, ReceiveNothing,
           ReceiveError, CheckFails, vars
  <2> QED BY <1>1, <2>1
<1>6. (Locked' <=> Locked) /\ Room' /\ sender' \in Senders
      BY <1>1, <1>2 DEF IInv, Locked, Room, Full
<1> QED BY <1>1, <1>3, <1>4, <1>5, <1>6, QuietStep

-----------------------------------------------------------------------------
(* The steps of the two threads that send. *)
LEMMA ChecksStep ==
  ASSUME IInv, HandlerChecks \/ SecondChecks
  PROVE  IInv'
<1>1. /\ ~Full
      /\ UNCHANGED <<app, old, thread, flags, sentAges, forgotten, ack, t2Age, testfr, env, silence>>
      /\ \/ sender' = [sender EXCEPT !.handler = "checked"]
         \/ sender.second = "idle" /\ sender' = [sender EXCEPT !.second = "checked"]
      BY DEF HandlerChecks, SecondChecks, MaySend
<1>2. sender \in Senders /\ thread \in Threads
      BY Types DEF IInv, Buffer
<1>3. sender' \in Senders /\ (Locked' <=> Locked)
      BY <1>1, <1>2, HandlerMoves DEF Locked
<1>4. Flags'
      BY <1>1, Unchanged DEF IInv, flags, env
<1>5. Room'
      BY <1>1 DEF Room, Full
<1> QED BY <1>1, <1>2, <1>3, <1>4, <1>5, QuietStep DEF env

LEMMA OutdatedIs ==
  ASSUME NEW t \in {"idle", "checked", "stale", "locked"}
  PROVE  /\ Outdated(t) \in {"idle", "checked", "stale", "locked"} /\ Outdated(t) # "checked"
         /\ (Outdated(t) = "locked" <=> t = "locked")
         /\ (t # "locked" => Outdated(t) \in {"idle", "checked", "stale"})
BY DEF Outdated

LEMMA HandlerWritesStep ==
  ASSUME IInv, HandlerWrites
  PROVE  IInv'
<1>1. /\ thread \in {"opened", "handler"} /\ ~Locked
      /\ sender' = [handler |-> "idle", second |-> Outdated(sender.second)]
      /\ Store(0)
      /\ unconfirmedReceivedIMessages' = 0 /\ timeoutT2Trigger' = FALSE
      /\ unacked' = 0 /\ unackedAge' = 0
      /\ UNCHANGED <<app, old, thread, flags, raced, t2Age, testfr, env, silence>>
      BY DEF HandlerWrites, Acknowledged
<1>2. sender \in Senders /\ thread \in Threads /\ Acks
      BY Types DEF IInv, Buffer
<1>3. AgesOK' /\ sentAges' \in Seq(Age) /\ Len(sentAges') <= K /\ forgotten' \in BOOLEAN
      BY <1>1, AgesStored DEF IInv, env, Up, Open
<1>4. /\ sender' \in Senders /\ sender'.handler = "idle" /\ sender'.second # "checked"
      BY <1>1, <1>2, OutdatedIs DEF Senders, Locked
<1>5. Acks'
  <2>1. 0 \in 0..W /\ 0 \in 0..ServerK /\ 0 \in 0..(T2 + 1)
        OBVIOUS
  <2> QED BY <1>1, <1>2, <2>1 DEF Acks
<1>6. TypeOK'
  <2>1. Flags' /\ Tests'
        BY <1>1, Unchanged DEF IInv, flags, env
  <2>2. Buffer'
        BY <1>3, <1>4 DEF Buffer
  <2> QED BY <1>1, <1>2, <1>5, <2>1, <2>2, TypesNext
<1>7. AckOK'
      BY <1>1, AckReset DEF IInv
<1>8. Room'
      BY <1>4 DEF Room
<1>9. Silent'
      BY <1>1, SilentKept DEF IInv, env
<1> QED BY <1>3, <1>6, <1>7, <1>8, <1>9 DEF IInv

LEMMA SecondWritesStep ==
  ASSUME IInv, SecondWrites
  PROVE  IInv'
<1>1. /\ thread \in Open /\ sender.second \in {"checked", "stale"}
      /\ sender' = [handler |-> Outdated(sender.handler), second |-> "locked"]
      /\ unacked' = 0 /\ unackedAge' = 0
      /\ raced' = (raced \/ ReceivingI)
      /\ UNCHANGED <<app, old, thread, flags, unconfirmedReceivedIMessages, timeoutT2Trigger,
                     t2Age, testfr, env, silence>>
      BY DEF SecondWrites, Acknowledged
<1>2. sender \in Senders /\ thread \in Threads /\ Acks
      BY Types DEF IInv, Buffer
<1>3. AgesOK' /\ sentAges' \in Seq(Age) /\ Len(sentAges') <= K /\ forgotten' \in BOOLEAN
  <2>1. CASE Store(0)
        BY <1>1, <2>1, AgesStored DEF IInv, env, Up
  <2>2. CASE thread = "t1" /\ (Full \/ sentAges = <<>>) /\ Store(Future)
        BY <1>1, <2>2, AgesEarly DEF IInv
  <2> QED BY <2>1, <2>2 DEF SecondWrites
<1>4. /\ sender' \in Senders /\ sender'.handler # "checked" /\ sender'.second = "locked"
      BY <1>1, <1>2, OutdatedIs DEF Senders
<1>5. raced' \in BOOLEAN /\ (~raced' => ~raced /\ thread # "check" /\ thread # "count")
      BY <1>1 DEF ReceivingI
<1>6. Acks'
  <2>1. 0 \in 0..ServerK /\ 0 \in 0..(T2 + 1)
        OBVIOUS
  <2> QED BY <1>1, <1>2, <1>5, <2>1 DEF Acks
<1>7. TypeOK'
  <2>1. Flags' /\ Tests'
        BY <1>1, Unchanged DEF IInv, flags, env
  <2>2. Buffer'
        BY <1>3, <1>4 DEF Buffer
  <2> QED BY <1>1, <1>2, <1>6, <2>1, <2>2, TypesNext
<1>8. AckOK'
  <2>1. Bounded'
        BY <1>1 DEF IInv, AckOK, Bounded
  <2>2. UnderLock' /\ T2Runs'
        BY <1>1, <1>5 DEF UnderLock, T2Runs
  <2>3. Exact'
        BY <1>4 DEF Exact, Locked
  <2> QED BY <2>1, <2>2, <2>3 DEF AckOK
<1>9. Room'
      BY <1>4 DEF Room
<1>10. Silent'
      BY <1>1, SilentKept DEF IInv, env
<1> QED BY <1>3, <1>7, <1>8, <1>9, <1>10 DEF IInv

LEMMA SecondResetsCounterStep ==
  ASSUME IInv, SecondResetsCounter
  PROVE  IInv'
<1>1. /\ Locked /\ sender' = [sender EXCEPT !.second = "idle"]
      /\ unconfirmedReceivedIMessages' = 0 /\ timeoutT2Trigger' = FALSE
      /\ raced' = (raced \/ ReceivingI)
      /\ UNCHANGED <<app, old, thread, flags, sentAges, forgotten, unacked, unackedAge, t2Age,
                     testfr, env, silence>>
      BY DEF SecondResetsCounter
<1>2. sender \in Senders /\ thread \in Threads /\ Acks /\ Buffer
      BY Types DEF IInv, Buffer
<1>3. sender' \in Senders /\ sender'.second = "idle" /\ sender'.handler = sender.handler
      BY <1>1, <1>2, HandlerMoves
<1>4. raced' \in BOOLEAN /\ (~raced' => ~raced /\ thread # "check" /\ thread # "count")
      BY <1>1 DEF ReceivingI
<1>5. TypeOK'
  <2>1. Flags' /\ Tests'
        BY <1>1, Unchanged DEF IInv, flags, env
  <2>2. Buffer'
        BY <1>1, <1>2, <1>3 DEF Buffer
  <2>3. 0 \in 0..W
        OBVIOUS
  <2>4. Acks'
        BY <1>1, <1>2, <1>4, <2>3 DEF Acks
  <2> QED BY <1>1, <1>2, <2>1, <2>2, <2>4, TypesNext
<1>6. AgesOK'
      BY <1>1, AgesKept DEF IInv, env, Up, Open
<1>7. AckOK'
  <2>1. unacked' = 0
        BY <1>1 DEF IInv, AckOK, UnderLock
  <2>2. Bounded'
        BY <1>1, <2>1 DEF Bounded
  <2>3. UnderLock' /\ T2Runs'
        BY <1>1, <1>4, <2>1 DEF UnderLock, T2Runs
  <2>4. Exact'
        BY <1>1, <1>4, <2>1 DEF Exact, Counted, Timed
  <2> QED BY <2>2, <2>3, <2>4 DEF AckOK
<1>8. Room'
      BY <1>1, <1>3 DEF IInv, Room, Full
<1>9. Silent'
      BY <1>1, SilentKept DEF IInv, env
<1> QED BY <1>5, <1>6, <1>7, <1>8, <1>9 DEF IInv

-----------------------------------------------------------------------------
(* The steps of the loop. *)
LEMMA ResetStep ==
  ASSUME IInv, Reset
  PROVE  IInv'
<1>1. /\ thread = "created" /\ thread' = "connect"
      /\ running' = FALSE /\ failure' = FALSE /\ close' = FALSE /\ loopRunning' = TRUE
      /\ sentAges' = <<>> /\ forgotten' = FALSE
      /\ unconfirmedReceivedIMessages' = 0 /\ timeoutT2Trigger' = FALSE
      /\ unacked' = 0 /\ unackedAge' = 0 /\ raced' = FALSE
      /\ t2Age' = 0 /\ t3Age' = 0 /\ outstandingTestFCConMessages' = 0 /\ uAge' = Off
      /\ iterated' = FALSE /\ silence' = 0
      /\ UNCHANGED <<app, old, sender, serverAlive>>
      BY DEF Reset
<1>2. Flags /\ Buffer /\ Acks /\ Tests
      BY Types DEF IInv
<1>3. sentAges' \in Seq(Age) /\ Len(sentAges') = 0 /\ Len(sentAges') <= K
      BY <1>1
<1>4. TypeOK'
  <2>1. Flags'
        BY <1>1, <1>2 DEF Flags
  <2>2. Buffer'
    <3>1. forgotten' \in BOOLEAN /\ sender' \in Senders
          BY <1>1, <1>2 DEF Buffer
    <3> QED BY <1>3, <3>1, Zenon DEF Buffer
  <2>3. /\ 0 \in 0..W /\ 0 \in 0..ServerK /\ 0 \in 0..(T2 + 1) /\ 0 \in 0..(T3 + 1)
        /\ Off \in Off..(T1 + 1) /\ 0 \in 0..3 /\ 0 \in 0..(SilenceLimit + 1)
        BY LimitIsNatural DEF Off
  <2>4. Acks'
        BY <1>1, <2>3 DEF Acks
  <2>5. Tests'
        BY <1>1, <2>3 DEF Tests
  <2>6. thread' \in Threads
        BY <1>1 DEF Threads
  <2> QED BY <2>1, <2>2, <2>4, <2>5, <2>6, TypesNext
<1>5. AgesOK'
      BY <1>1, <1>3 DEF AgesOK, Ordered
<1>6. AckOK'
      BY <1>1, AckReset DEF IInv
<1>7. Room'
      BY <1>3 DEF Room, Full
<1>8. Silent'
  <2>1. 0 <= 0 * (T3 + 1) + 0
        OBVIOUS
  <2>2. Waited'
        BY <1>1, <2>1 DEF Waited
  <2> QED BY <1>1, <2>2 DEF Silent
<1> QED BY <1>4, <1>5, <1>6, <1>7, <1>8 DEF IInv

LEMMA ReceiveIStep ==
  ASSUME IInv, ReceiveI
  PROVE  IInv'
<1>1. /\ thread = "wait" /\ thread' = "check" /\ unacked < ServerK /\ silence' = 0
      /\ timeoutT2Trigger' = TRUE
      /\ t2Age' = IF timeoutT2Trigger THEN t2Age ELSE 0
      /\ UNCHANGED <<app, old, flags, buffer, unconfirmedReceivedIMessages, unacked, unackedAge,
                     raced, testfr, env>>
      BY DEF ReceiveI, Receives
<1>2. Flags /\ Buffer /\ Acks /\ Tests
      BY Types DEF IInv
<1>3. Silent' /\ Tests'
      BY <1>1, SilentRestarted DEF IInv, testfr, env, Up, Open
<1>4. TypeOK'
  <2>1. Flags' /\ Buffer'
        BY <1>1, Unchanged DEF IInv, flags, env, buffer
  <2>2. t2Age' \in 0..(T2 + 1)
        BY <1>1, <1>2 DEF Acks
  <2>3. Acks'
        BY <1>1, <1>2, <2>2 DEF Acks
  <2>4. thread' \in Threads
        BY <1>1 DEF Threads, Open
  <2> QED BY <1>3, <2>1, <2>3, <2>4, TypesNext
<1>5. AgesOK'
      BY <1>1, AgesKept DEF IInv, buffer, env, Up, Open
<1>6. AckOK'
  <2>1. /\ unconfirmedReceivedIMessages' = unconfirmedReceivedIMessages /\ unacked' = unacked
        /\ unackedAge' = unackedAge /\ iterated' = iterated /\ raced' = raced
        /\ sender' = sender
        BY <1>1 DEF env, buffer
  <2>2. Bounded' /\ UnderLock' /\ T2Runs'
        BY <1>1, <2>1 DEF IInv, AckOK, Bounded, UnderLock, T2Runs, Locked
  <2>3. ASSUME ~raced, ~Locked PROVE Counted' /\ Timed'
    <3>1. Counted /\ Timed
          BY <1>1, <2>3 DEF IInv, AckOK, Exact, Up, Open
    <3>2. Counted'
          BY <1>1, <2>1, <3>1 DEF Counted
    <3>3. unacked > 0 => t2Age' = t2Age
          BY <1>1, <3>1 DEF Timed
    <3> QED BY <1>1, <2>1, <3>1, <3>2, <3>3 DEF Timed
  <2>4. Exact'
        BY <2>1, <2>3 DEF Exact, Locked
  <2> QED BY <2>2, <2>4 DEF AckOK
<1>7. Room'
      BY <1>1 DEF IInv, Room, Full, buffer
<1> QED BY <1>3, <1>4, <1>5, <1>6, <1>7 DEF IInv

LEMMA CheckPassesStep ==
  ASSUME IInv, CheckPasses
  PROVE  IInv'
<1>1. /\ thread = "check" /\ ~Locked /\ thread' = "count"
      /\ \E n \in 0..Len(sentAges) : Confirmed(n)
      /\ unacked' = unacked + 1 /\ unackedAge' = IF unacked = 0 THEN 0 ELSE unackedAge
      /\ UNCHANGED <<app, old, flags, sender, unconfirmedReceivedIMessages, timeoutT2Trigger,
                     raced, t2Age, testfr, env, silence>>
      BY DEF CheckPasses
<1>2. Flags /\ Buffer /\ Acks /\ Tests
      BY Types DEF IInv
<1>3. unacked < ServerK /\ unconfirmedReceivedIMessages < W
      BY <1>1 DEF IInv, AckOK, Bounded
<1>4. /\ AgesOK' /\ sentAges' \in Seq(Age) /\ Len(sentAges') <= Len(sentAges)
      /\ forgotten' \in BOOLEAN
      BY <1>1, AgesConfirmed DEF IInv, env, Up, Open
<1>5. Len(sentAges) \in Nat /\ Len(sentAges') \in Nat /\ Len(sentAges') <= K
      BY <1>2, <1>4, LenProperties DEF Buffer
<1>6. unacked' \in 0..ServerK /\ unackedAge' \in 0..(T2 + 1)
      BY <1>1, <1>2, <1>3 DEF Acks
<1>7. TypeOK'
  <2>1. Flags' /\ Tests'
        BY <1>1, Unchanged DEF IInv, flags, env
  <2>2. Buffer'
        BY <1>1, <1>2, <1>4, <1>5 DEF Buffer
  <2>3. Acks'
        BY <1>1, <1>2, <1>6 DEF Acks
  <2>4. thread' \in Threads
        BY <1>1 DEF Threads, Open
  <2> QED BY <2>1, <2>2, <2>3, <2>4, TypesNext
<1>8. AckOK'
  <2>1. Bounded' /\ UnderLock' /\ T2Runs'
        BY <1>1, <1>3 DEF Bounded, UnderLock, T2Runs, Locked
  <2>2. ASSUME ~raced PROVE Counted' /\ Timed'
    <3>1. Counted /\ Timed /\ timeoutT2Trigger
          BY <1>1, <2>2 DEF IInv, AckOK, Exact, T2Runs, Up, Open
    <3>2. Counted'
          BY <1>1, <3>1 DEF Counted
    <3>3. unackedAge' <= t2Age /\ (iterated => unackedAge' < T2)
          BY <1>1, <1>2, <3>1 DEF Acks, Timed
    <3>4. Timed'
          BY <1>1, <3>1, <3>3 DEF Timed, env
    <3> QED BY <3>2, <3>4
  <2>3. Exact'
        BY <1>1, <2>2 DEF Exact
  <2> QED BY <2>1, <2>3 DEF AckOK
<1>9. Room'
      BY <1>1, <1>4, <1>5, RoomKept DEF IInv
<1>10. Silent'
      BY <1>1, SilentKept DEF IInv, env, Up, Open, Received
<1> QED BY <1>4, <1>7, <1>8, <1>9, <1>10 DEF IInv

LEMMA CountReceivedStep ==
  ASSUME IInv, CountReceived
  PROVE  IInv'
<1>1. /\ thread = "count" /\ thread' \in {"handler", "wcheck"}
      /\ unconfirmedReceivedIMessages' = unconfirmedReceivedIMessages + 1
      /\ UNCHANGED <<app, old, running, close, buffer, timeoutT2Trigger, unacked, unackedAge,
                     raced, t2Age, testfr, env, silence>>
      BY DEF CountReceived, flags
<1>2. Flags /\ Buffer /\ Acks /\ Tests
      BY Types DEF IInv
<1>3. Flags'
      BY <1>1, <1>2 DEF CountReceived, Fails, Flags, flags, env
<1>4. unconfirmedReceivedIMessages' \in 0..W
      BY <1>1, <1>2 DEF IInv, AckOK, Bounded, Acks
<1>5. TypeOK'
  <2>1. Buffer' /\ Tests'
        BY <1>1, Unchanged DEF IInv, buffer
  <2>2. Acks'
        BY <1>1, <1>2, <1>4 DEF Acks
  <2>3. thread' \in Threads
        BY <1>1 DEF Threads, Open
  <2> QED BY <1>3, <2>1, <2>2, <2>3, TypesNext
<1>6. AgesOK'
      BY <1>1, AgesKept DEF IInv, buffer, env, Up, Open
<1>7. AckOK'
  <2>1. /\ unacked' = unacked /\ unackedAge' = unackedAge /\ iterated' = iterated
        /\ raced' = raced /\ sender' = sender /\ t2Age' = t2Age
        /\ timeoutT2Trigger' = timeoutT2Trigger
        BY <1>1 DEF env, buffer
  <2>2. Bounded' /\ UnderLock' /\ T2Runs'
        BY <1>1, <2>1 DEF IInv, AckOK, Bounded, UnderLock, T2Runs, Locked
  <2>3. ASSUME ~raced, ~Locked PROVE Counted' /\ Timed'
    <3>1. Counted /\ Timed
          BY <1>1, <2>3 DEF IInv, AckOK, Exact, Up, Open
    <3> QED BY <1>1, <2>1, <3>1 DEF Counted, Timed
  <2>4. Exact'
        BY <2>1, <2>3 DEF Exact, Locked
  <2> QED BY <2>2, <2>4 DEF AckOK
<1>8. Room'
      BY <1>1 DEF IInv, Room, Full, buffer
<1>9. Silent'
      BY <1>1, SilentKept DEF IInv, env, Up, Open, Received
<1> QED BY <1>5, <1>6, <1>7, <1>8, <1>9 DEF IInv

LEMMA HandlerReturnsStep ==
  ASSUME IInv, HandlerReturns
  PROVE  IInv'
<1>1. /\ thread = "handler" /\ thread' = "wcheck" /\ t3Age' = 0
      /\ UNCHANGED <<app, old, flags, buffer, ack, t2Age, outstandingTestFCConMessages, uAge, env,
                     silence>>
      BY DEF HandlerReturns
<1>2. silence' = 0
      BY <1>1 DEF IInv, Silent, Up, Open, Received
<1>3. Silent' /\ Tests'
      BY <1>1, <1>2, SilentRestarted DEF IInv, env, Up, Open
<1>4. TypeOK'
  <2>1. Flags' /\ Buffer' /\ Acks'
        BY <1>1, Unchanged DEF IInv, flags, env, buffer
  <2>2. thread' \in Threads
        BY <1>1 DEF Threads, Open
  <2> QED BY <1>3, <2>1, <2>2, TypesNext
<1>5. AgesOK'
      BY <1>1, AgesKept DEF IInv, buffer, env, Up, Open
<1>6. AckOK'
      BY <1>1, AckKept DEF IInv, buffer, env, Up, Open, Locked
<1>7. Room'
      BY <1>1 DEF IInv, Room, Full, buffer
<1> QED BY <1>3, <1>4, <1>5, <1>6, <1>7 DEF IInv

LEMMA ReceiveSStep ==
  ASSUME IInv, ReceiveS
  PROVE  IInv'
<1>1. /\ thread = "wait" /\ thread' = "wcheck" /\ silence' = 0
      /\ UNCHANGED <<app, old, running, close, sender, ack, t2Age, outstandingTestFCConMessages,
                     uAge, env>>
      BY DEF ReceiveS, Receives, flags
<1>2. Flags /\ Buffer /\ Acks /\ Tests
      BY Types DEF IInv
<1>3. Flags' /\ (t3Age' = t3Age \/ t3Age' = 0)
      BY <1>1, <1>2 DEF ReceiveS, Fails, Flags, flags, env
<1>4. Silent' /\ Tests'
      BY <1>1, <1>3, SilentRestarted DEF IInv, env, Up, Open
<1>5. /\ AgesOK' /\ sentAges' \in Seq(Age) /\ Len(sentAges') <= Len(sentAges)
      /\ forgotten' \in BOOLEAN
  <2>1. CASE \E n \in 0..Len(sentAges) : Confirmed(n)
        BY <1>1, <2>1, AgesConfirmed DEF IInv, env, Up, Open
  <2>2. CASE UNCHANGED <<sentAges, forgotten>>
    <3>1. AgesOK'
          BY <1>1, <2>2, AgesKept DEF IInv, env, Up, Open
    <3>2. Len(sentAges) \in Nat
          BY <1>2, LenProperties DEF Buffer
    <3> QED BY <1>2, <2>2, <3>1, <3>2 DEF Buffer
  <2> QED BY <2>1, <2>2 DEF ReceiveS
<1>6. Len(sentAges) \in Nat /\ Len(sentAges') \in Nat /\ Len(sentAges') <= K
      BY <1>2, <1>5, LenProperties DEF Buffer
<1>7. TypeOK'
  <2>1. Acks'
        BY <1>1, Unchanged DEF IInv
  <2>2. Buffer'
        BY <1>1, <1>2, <1>5, <1>6 DEF Buffer
  <2>3. thread' \in Threads
        BY <1>1 DEF Threads, Open
  <2> QED BY <1>3, <1>4, <2>1, <2>2, <2>3, TypesNext
<1>8. AckOK'
      BY <1>1, AckKept DEF IInv, env, Up, Open, Locked
<1>9. Room'
      BY <1>1, <1>5, <1>6, RoomKept DEF IInv
<1> QED BY <1>4, <1>5, <1>7, <1>8, <1>9 DEF IInv

LEMMA ReceiveUStep ==
  ASSUME IInv, ReceiveU \/ ReceiveTestFRCon
  PROVE  IInv'
<1>1. /\ thread = "wait" /\ thread' \in {"wcheck", "handler"} /\ silence' = 0 /\ uAge' = Off
      /\ t3Age' = t3Age \/ t3Age' = 0
      /\ outstandingTestFCConMessages' \in {outstandingTestFCConMessages, 0}
      /\ UNCHANGED <<app, old, flags, buffer, ack, t2Age, env>>
      BY DEF ReceiveU, ReceiveTestFRCon, Receives
<1>2. Silent' /\ Tests'
      BY <1>1, SilentRestarted DEF IInv, env, Up, Open
<1>3. TypeOK'
  <2>1. Flags' /\ Buffer' /\ Acks'
        BY <1>1, Unchanged DEF IInv, flags, env, buffer
  <2>2. thread' \in Threads
        BY <1>1 DEF Threads, Open
  <2> QED BY <1>2, <2>1, <2>2, TypesNext
<1>4. AgesOK'
      BY <1>1, AgesKept DEF IInv, buffer, env, Up, Open
<1>5. AckOK'
      BY <1>1, AckKept DEF IInv, buffer, env, Up, Open, Locked
<1>6. Room'
      BY <1>1 DEF IInv, Room, Full, buffer
<1> QED BY <1>2, <1>3, <1>4, <1>5, <1>6 DEF IInv

LEMMA CheckWStep ==
  ASSUME IInv, CheckW
  PROVE  IInv'
<1>1. /\ thread = "wcheck" /\ thread' = "timeouts"
      /\ UNCHANGED <<app, old, flags, buffer, testfr, env, silence, raced>>
      BY DEF CheckW, ack
<1>2. Flags /\ Buffer /\ Acks /\ Tests
      BY Types DEF IInv
<1>3. Flags' /\ Buffer' /\ Tests'
      BY <1>1, Unchanged DEF IInv, flags, env, buffer
<1>4. AckOK' /\ Acks'
  <2>1. CASE unconfirmedReceivedIMessages >= W
    <3>1. /\ unconfirmedReceivedIMessages' = 0 /\ timeoutT2Trigger' = FALSE /\ t2Age' = 0
          /\ unacked' = 0 /\ unackedAge' = 0
          BY <2>1 DEF CheckW, SendS, Acknowledged
    <3>2. 0 \in 0..W /\ 0 \in 0..ServerK /\ 0 \in 0..(T2 + 1)
          OBVIOUS
    <3>3. Acks'
          BY <1>1, <1>2, <3>1, <3>2 DEF Acks
    <3>4. AckOK'
          BY <1>1, <3>1, AckReset DEF IInv
    <3> QED BY <3>3, <3>4
  <2>2. CASE ~(unconfirmedReceivedIMessages >= W)
    <3>1. /\ unconfirmedReceivedIMessages' = unconfirmedReceivedIMessages
          /\ unacked' = unacked /\ timeoutT2Trigger' = timeoutT2Trigger /\ t2Age' = t2Age
          /\ unackedAge' = unackedAge /\ raced' = raced /\ sender' = sender
          /\ iterated' = iterated
          BY <1>1, <2>2 DEF CheckW, ack, buffer, env
    <3>2. Acks'
          BY <1>2, <3>1 DEF Acks
    <3>3. unconfirmedReceivedIMessages < W
          BY <1>2, <2>2 DEF Acks
    <3>4. Bounded' /\ UnderLock' /\ T2Runs'
          BY <1>1, <3>1, <3>3 DEF IInv, AckOK, Bounded, UnderLock, T2Runs, Locked
    <3>5. Exact'
          BY <1>1, <3>1 DEF IInv, AckOK, Exact, Counted, Timed, Locked, Up, Open
    <3> QED BY <3>2, <3>4, <3>5 DEF AckOK
  <2> QED BY <2>1, <2>2
<1>5. TypeOK'
  <2>1. thread' \in Threads
        BY <1>1 DEF Threads, Open
  <2> QED BY <1>3, <1>4, <2>1, TypesNext
<1>6. AgesOK'
      BY <1>1, AgesKept DEF IInv, buffer, env, Up, Open
<1>7. Room'
      BY <1>1 DEF IInv, Room, Full, buffer
<1>8. Silent'
      BY <1>1, SilentKept DEF IInv, env, Up, Open, Received
<1> QED BY <1>4, <1>5, <1>6, <1>7, <1>8 DEF IInv

(* A TESTFR message allows the silence to last t3 longer, and t1 from now on.*)
LEMMA TestSent ==
  ASSUME NEW o \in 0..2, NEW t \in 0..(T3 + 1), NEW q \in Nat, q <= o * (T3 + 1) + t
  PROVE  q <= (o + 1) * (T3 + 1) + 0
<1>1. o = 0 \/ o = 1 \/ o = 2
      OBVIOUS
<1> QED BY <1>1

LEMMA HandleTimeoutsStep ==
  ASSUME IInv, HandleTimeouts
  PROVE  IInv'
<1>1. /\ thread = "timeouts" /\ thread' \in {"leave", "t1"} /\ iterated' = TRUE
      /\ UNCHANGED <<app, old, running, failure, close, buffer, serverAlive, silence, raced>>
      BY DEF HandleTimeouts, ack
<1>2. Flags /\ Buffer /\ Acks /\ Tests
      BY Types DEF IInv
<1>3. Flags'
  <2>1. loopRunning' = FALSE \/ loopRunning' = loopRunning
        BY DEF HandleTimeouts
  <2> QED BY <1>1, <1>2, <2>1 DEF Flags
<1>4. Silent' /\ Tests'
  <2>1. Waited
        BY <1>1 DEF IInv, Silent, Up, Open
  <2>2. CASE TestFRDue /\ ~TestFRLost
    <3>1. /\ t3Age' = 0 /\ uAge' = 0
          /\ outstandingTestFCConMessages' = outstandingTestFCConMessages + 1
          BY <2>2 DEF HandleTimeouts
    <3>2. /\ outstandingTestFCConMessages \in 0..2 /\ t3Age \in 0..(T3 + 1) /\ t3Age > T3
          /\ silence \in Nat /\ uAge \in Off..(T1 + 1)
          BY <1>2, <2>2, LimitIsNatural DEF Tests, TestFRDue, TestFRLost
    <3>3. silence <= (outstandingTestFCConMessages + 1) * (T3 + 1) + 0
          BY <2>1, <3>2, TestSent DEF Waited
    <3>4. T1 < T3 => silence <= T3 + 1 + 0
          BY <2>1, <3>2 DEF Waited
    <3>5. 0 # Off
          BY DEF Off
    <3>6. Waited'
          BY <1>1, <3>1, <3>3, <3>4, <3>5 DEF Waited
    <3>7. t3Age' <= T3 /\ uAge' <= T1
          BY <3>1
    <3>8. Tests'
      <4>1. 0 \in 0..(T3 + 1) /\ 0 \in Off..(T1 + 1) /\ outstandingTestFCConMessages + 1 \in 0..3
            BY <3>2 DEF Off
      <4> QED BY <1>1, <1>2, <3>1, <4>1 DEF Tests
    <3> QED BY <1>1, <3>6, <3>7, <3>8 DEF Silent, Received
  <2>3. CASE ~(TestFRDue /\ ~TestFRLost)
    <3>1. UNCHANGED <<t3Age, outstandingTestFCConMessages, uAge>>
          BY <2>3 DEF HandleTimeouts, testfr
    <3>2. thread' = "t1" => ~TestFRLost /\ ~(uAge' > T1)
          BY <1>1 DEF HandleTimeouts
    <3>3. thread' = "t1" => t3Age' <= T3 /\ uAge' <= T1
          BY <1>2, <2>3, <3>1, <3>2 DEF TestFRDue, Tests, Off
    <3>4. Waited' /\ Tests'
          BY <1>1, <1>2, <2>1, <3>1 DEF Waited, Tests
    <3> QED BY <1>1, <3>3, <3>4 DEF Silent, Received, Up, Open
  <2> QED BY <2>2, <2>3
<1>5. AckOK' /\ Acks'
  <2>1. CASE T2Due /\ ~TestFRLost
    <3>1. /\ unconfirmedReceivedIMessages' = 0 /\ timeoutT2Trigger' = FALSE /\ t2Age' = 0
          /\ unacked' = 0 /\ unackedAge' = 0
          BY <2>1 DEF HandleTimeouts, SendS, Acknowledged
    <3>2. 0 \in 0..W /\ 0 \in 0..ServerK /\ 0 \in 0..(T2 + 1)
          OBVIOUS
    <3>3. Acks'
          BY <1>1, <1>2, <3>1, <3>2 DEF Acks
    <3>4. AckOK'
          BY <1>1, <3>1, AckReset DEF IInv
    <3> QED BY <3>3, <3>4
  <2>2. CASE ~(T2Due /\ ~TestFRLost)
    <3>1. /\ unconfirmedReceivedIMessages' = unconfirmedReceivedIMessages
          /\ unacked' = unacked /\ timeoutT2Trigger' = timeoutT2Trigger /\ t2Age' = t2Age
          /\ unackedAge' = unackedAge /\ raced' = raced /\ sender' = sender
          BY <1>1, <2>2 DEF HandleTimeouts, ack, buffer
    <3>2. Acks'
          BY <1>2, <3>1 DEF Acks
    <3>3. Bounded' /\ UnderLock' /\ T2Runs'
          BY <1>1, <3>1 DEF IInv, AckOK, Bounded, UnderLock, T2Runs, Locked
    <3>4. ASSUME thread' = "t1", ~raced, ~Locked PROVE Counted' /\ Timed'
      <4>1. Counted /\ Timed
            BY <1>1, <3>4 DEF IInv, AckOK, Exact, Up, Open
      <4>2. ~TestFRLost
            BY <3>4 DEF HandleTimeouts
      <4>3. unacked > 0 => unackedAge < T2
        <5>1. /\ unacked \in Nat /\ unconfirmedReceivedIMessages \in Nat
              /\ t2Age \in Nat /\ unackedAge \in Nat
              BY <1>2 DEF Acks
        <5>2. unacked = unconfirmedReceivedIMessages
              BY <1>1, <4>1 DEF Counted
        <5> QED BY <2>2, <4>1, <4>2, <5>1, <5>2 DEF T2Due, Timed
      <4>4. Counted'
            BY <1>1, <3>1, <4>1 DEF Counted
      <4>5. Timed'
            BY <3>1, <4>1, <4>3 DEF Timed
      <4> QED BY <4>4, <4>5
    <3>5. Exact'
          BY <1>1, <3>1, <3>4 DEF Exact, Locked, Up, Open
    <3> QED BY <3>2, <3>3, <3>5 DEF AckOK
  <2> QED BY <2>1, <2>2
<1>6. TypeOK'
  <2>1. Buffer'
        BY <1>1, Unchanged DEF IInv, buffer
  <2>2. thread' \in Threads
        BY <1>1 DEF Threads, Open
  <2> QED BY <1>3, <1>4, <1>5, <2>1, <2>2, TypesNext
<1>7. AgesOK'
      BY <1>1, AgesKept DEF IInv, buffer, Up, Open
<1>8. Room'
      BY <1>1 DEF IInv, Room, Full, buffer
<1> QED BY <1>4, <1>5, <1>6, <1>7, <1>8 DEF IInv

LEMMA TestT1Step ==
  ASSUME IInv, TestT1
  PROVE  IInv'
<1>1. /\ thread = "t1" /\ thread' \in {"wait", "leave"}
      /\ sentAges' = Arrived(sentAges)
      /\ loopRunning' \in BOOLEAN /\ (thread' = "wait" => ~OldestDue)
      /\ UNCHANGED <<app, old, running, failure, close, forgotten, sender, ack, t2Age, testfr, env,
                     silence>>
  <2>1. /\ loopRunning' = (loopRunning /\ ~OldestDue /\ ~close)
        /\ thread' = IF loopRunning' THEN "wait" ELSE "leave"
        BY DEF TestT1
  <2>2. loopRunning' \in BOOLEAN
        BY <2>1
  <2>3. thread' \in {"wait", "leave"} /\ (thread' = "wait" => loopRunning')
        BY <2>1
  <2>4. thread' = "wait" => ~OldestDue
        BY <2>1, <2>3
  <2> QED BY <2>2, <2>3, <2>4 DEF TestT1, Arrived
<1>2. Flags /\ Buffer /\ Acks /\ Tests
      BY Types DEF IInv
<1>3. /\ sentAges' \in Seq(Age) /\ Len(sentAges') = Len(sentAges)
      /\ (Ordered(sentAges) => sentAges' = sentAges)
      BY <1>1, <1>2, Arrival DEF Buffer
<1>4. Len(sentAges) \in Nat /\ Len(sentAges) <= K
      BY <1>2, LenProperties DEF Buffer
<1>5. TypeOK'
  <2>1. Acks' /\ Tests'
        BY <1>1, Unchanged DEF IInv
  <2>2. Buffer'
        BY <1>1, <1>2, <1>3, <1>4 DEF Buffer
  <2>3. Flags'
        BY <1>1, <1>2 DEF Flags, env
  <2>4. thread' \in Threads
        BY <1>1 DEF Threads, Open
  <2> QED BY <2>1, <2>2, <2>3, <2>4, TypesNext
<1>6. AgesOK'
  <2>1. ASSUME thread' = "wait" PROVE Ordered(sentAges) /\ Below(sentAges)
    <3>1. ~OldestDue
          BY <1>1, <2>1
    <3>2. sentAges # <<>> => Head(sentAges) = sentAges[1] /\ sentAges[1] \in Age
      <4> SUFFICES ASSUME sentAges # <<>>
                   PROVE  Head(sentAges) = sentAges[1] /\ sentAges[1] \in Age
          OBVIOUS
      <4>1. Len(sentAges) # 0
            BY <1>2, EmptySeq DEF Buffer
      <4>2. 1 \in 1..Len(sentAges)
            BY <1>4, <4>1
      <4> QED BY <1>2, <4>2, ElementOfSeq DEF Buffer
    <3>3. sentAges # <<>> => sentAges[1] # Future /\ sentAges[1] < T1
          BY <3>1, <3>2 DEF OldestDue, Age, Future
    <3>4. Ordered(sentAges)
          BY <1>1, <3>3 DEF IInv, AgesOK, Early
    <3> QED BY <1>2, <3>3, <3>4, OldestCounts DEF Buffer
  <2>2. ASSUME thread' = "wait" PROVE Ordered(sentAges') /\ Below(sentAges')
        BY <1>3, <2>1, <2>2
  <2> QED BY <1>1, <2>2 DEF AgesOK, Up, Open
<1>7. AckOK'
      BY <1>1, AckKept DEF IInv, env, Up, Open, Locked
<1>8. Room'
      BY <1>1, <1>3, <1>4, RoomKept DEF IInv
<1>9. Silent'
      BY <1>1, SilentKept DEF IInv, env, Up, Open, Received
<1> QED BY <1>5, <1>6, <1>7, <1>8, <1>9 DEF IInv

LEMMA TickStep ==
  ASSUME IInv, Tick
  PROVE  IInv'
<1>1. /\ thread = "wait" /\ iterated /\ iterated' = FALSE
      /\ t2Age' = Older(t2Age, T2) /\ t3Age' = Older(t3Age, T3)
      /\ uAge' = IF uAge = Off THEN Off ELSE Older(uAge, T1)
      /\ silence' = Older(silence, SilenceLimit)
      /\ unackedAge' = IF unacked = 0 THEN 0 ELSE Older(unackedAge, T2)
      /\ sentAges' = Grown(sentAges)
      /\ UNCHANGED <<app, old, thread, flags, forgotten, sender, unconfirmedReceivedIMessages,
                     timeoutT2Trigger, outstandingTestFCConMessages, unacked, raced, serverAlive>>
      BY DEF Tick, Grown
<1>2. Flags /\ Buffer /\ Acks /\ Tests /\ Ordered(sentAges)
      BY <1>1, Types DEF IInv, AgesOK, Up, Open
<1>3. t2Age' \in 0..(T2 + 1) /\ unackedAge' \in 0..(T2 + 1)
      BY <1>1, <1>2 DEF Older, Acks
<1>4. sentAges' \in Seq(Age) /\ Len(sentAges') = Len(sentAges) /\ Ordered(sentAges')
      BY <1>1, <1>2, Aged DEF Buffer
<1>5. Silent' /\ Tests'
  <2>1. t3Age <= T3 /\ uAge <= T1 /\ Waited
        BY <1>1 DEF IInv, Silent, Up, Open
  <2>2. t3Age' = t3Age + 1
        BY <1>1, <1>2, <2>1 DEF Older, Tests
  <2>3. uAge' = IF uAge = Off THEN Off ELSE uAge + 1
        BY <1>1, <1>2, <2>1 DEF Older, Tests, Off
  <2>4. silence' \in 0..(SilenceLimit + 1) /\ silence' <= silence + 1
        BY <1>1, <1>2, LimitIsNatural DEF Older, Tests
  <2>5. PICK n \in Nat : outstandingTestFCConMessages * (T3 + 1) = n
    <3>1. outstandingTestFCConMessages \in Nat /\ T3 + 1 \in Nat
          BY <1>2 DEF Tests
    <3>2. outstandingTestFCConMessages * (T3 + 1) \in Nat
          BY <3>1
    <3> QED BY <3>2
  <2>6. silence \in Nat /\ t3Age \in Nat /\ uAge \in Off..(T1 + 1)
        BY <1>2, LimitIsNatural DEF Tests
  <2>7. silence' <= outstandingTestFCConMessages' * (T3 + 1) + t3Age'
    <3>1. silence + 1 <= n + t3Age + 1
          BY <2>1, <2>5, <2>6 DEF Waited
    <3>2. outstandingTestFCConMessages' * (T3 + 1) = n
          BY <1>1, <2>5
    <3> QED BY <2>2, <2>4, <2>5, <2>6, <3>1, <3>2
  <2>8. ASSUME T1 < T3
        PROVE  \/ silence' <= t3Age'
               \/ uAge' # Off /\ uAge' = t3Age' /\ silence' <= T3 + 1 + uAge'
    <3>1. CASE silence <= t3Age
          BY <2>2, <2>4, <2>6, <3>1
    <3>2. CASE uAge # Off /\ uAge = t3Age /\ silence <= T3 + 1 + uAge
      <4>1. uAge' = uAge + 1
            BY <2>3, <3>2
      <4>2. uAge + 1 # Off
            BY <2>6, <3>2 DEF Off
      <4> QED BY <2>2, <2>4, <2>6, <3>2, <4>1, <4>2 DEF Off
    <3> QED BY <2>1, <2>8, <3>1, <3>2 DEF Waited
  <2>9. Waited'
        BY <2>7, <2>8 DEF Waited
  <2>10. Tests'
    <3>1. t3Age' \in 0..(T3 + 1) /\ uAge' \in Off..(T1 + 1)
          BY <2>1, <2>2, <2>3, <2>6 DEF Off
    <3> QED BY <1>1, <1>2, <2>4, <3>1 DEF Tests
  <2> QED BY <1>1, <2>9, <2>10 DEF Silent, Received
<1>6. Len(sentAges) \in Nat /\ Len(sentAges) <= K
      BY <1>2, LenProperties DEF Buffer
<1>7. TypeOK'
  <2>1. Flags'
        BY <1>1, <1>2 DEF Flags, flags
  <2>2. Buffer'
        BY <1>1, <1>2, <1>4, <1>6 DEF Buffer
  <2>3. Acks'
        BY <1>1, <1>2, <1>3 DEF Acks
  <2>4. thread' \in Threads
        BY <1>1 DEF Threads, Open
  <2> QED BY <1>5, <2>1, <2>2, <2>3, <2>4, TypesNext
<1>8. AgesOK'
      BY <1>1, <1>4 DEF AgesOK
<1>9. AckOK'
  <2>1. Bounded' /\ UnderLock' /\ T2Runs'
        BY <1>1 DEF IInv, AckOK, Bounded, UnderLock, T2Runs, Locked
  <2>2. ASSUME ~raced, ~Locked PROVE Counted' /\ Timed'
    <3>1. Counted /\ Timed
          BY <1>1, <2>2 DEF IInv, AckOK, Exact, Up, Open
    <3>2. Counted'
          BY <1>1, <3>1 DEF Counted
    <3>3. unacked > 0 => unackedAge' <= t2Age'
          BY <1>1, <1>2, <3>1 DEF Timed, Older, Acks
    <3>4. Timed'
          BY <1>1, <3>1, <3>3 DEF Timed
    <3> QED BY <3>2, <3>4
  <2>3. Exact'
        BY <1>1, <2>2 DEF Exact, Locked
  <2> QED BY <2>1, <2>3 DEF AckOK
<1>10. Room'
      BY <1>1, <1>4, <1>6, RoomKept DEF IInv
<1> QED BY <1>5, <1>7, <1>8, <1>9, <1>10 DEF IInv

LEMMA NextStep ==
  ASSUME IInv, [Next]_vars
  PROVE  IInv'
BY ConnectionStep, ChecksStep, HandlerWritesStep, SecondWritesStep, SecondResetsCounterStep,
   ResetStep, ReceiveIStep, CheckPassesStep, CountReceivedStep, HandlerReturnsStep, ReceiveSStep,
   ReceiveUStep, CheckWStep, HandleTimeoutsStep, TestT1Step, TickStep
DEF Next, ConnectionThread

LEMMA Initially == Init => IInv
<1> SUFFICES ASSUME Init PROVE IInv
    OBVIOUS
<1>1. <<>> \in Seq(Age) /\ Len(<<>>) = 0
      OBVIOUS
<1>2. TypeOK
  <2>1. Flags
        BY DEF Init, Flags
  <2>2. Buffer
    <3>1. sentAges \in Seq(Age) /\ Len(sentAges) <= K
          BY <1>1 DEF Init
    <3>2. forgotten \in BOOLEAN /\ sender \in Senders
          BY DEF Init, Senders
    <3> QED BY <3>1, <3>2, Zenon DEF Buffer
  <2>3. /\ 0 \in 0..W /\ 0 \in 0..ServerK /\ 0 \in 0..(T2 + 1) /\ 0 \in 0..(T3 + 1)
        /\ Off \in Off..(T1 + 1) /\ 0 \in 0..3 /\ 0 \in 0..(SilenceLimit + 1)
        BY LimitIsNatural DEF Off
  <2>4. Acks
        BY <2>3 DEF Init, Acks
  <2>5. Tests
        BY <2>3 DEF Init, Tests
  <2>6. thread \in Threads
        BY DEF Init, Threads
  <2> QED BY <2>1, <2>2, <2>4, <2>5, <2>6, Types
<1>3. thread = "none" /\ thread \notin Up
      BY DEF Init, Up, Open
<1>4. AgesOK
      BY <1>3 DEF AgesOK
<1>5. AckOK
      BY <1>3 DEF Init, AckOK, Bounded, UnderLock, T2Runs, Exact, Locked
<1>6. Room
      BY DEF Init, Room
<1>7. Silent
      BY <1>3 DEF Silent
<1> QED BY <1>2, <1>4, <1>5, <1>6, <1>7 DEF IInv

THEOREM Invariance == Spec => []IInv
BY Initially, NextStep, PTL DEF Spec

-----------------------------------------------------------------------------
(* The variables keep their types, and the k-buffer never holds more than k  *)
(* frames, although a thread may write into it on an outdated test           *)
(* (sendASDUInternal).                                                       *)
THEOREM TypeCorrect == Spec => []TypeOK
BY Invariance, PTL DEF IInv

(* Nobody sends into a full k-buffer on a test that is not outdated          *)
(* (isSentBufferFull before the lock in sendASDUInternal).                   *)
THEOREM SendingWithinK == Spec => SendsWithinK
<1>1. ASSUME IInv, NEW s \in DOMAIN sender, sender[s] = "checked"
      PROVE  ~Full
  <2>1. sender \in Senders
        BY <1>1, Types DEF IInv, Buffer
  <2>2. s = "handler" \/ s = "second"
        BY <1>1, <2>1 DEF Senders
  <2> QED BY <1>1, <2>2 DEF IInv, Room
<1>2. IInv => [\A s \in DOMAIN sender : sender[s] = "checked" /\ sender'[s] \in {"idle", "locked"}
                 => ~Full]_vars
      BY <1>1
<1> QED BY <1>2, Invariance, PTL DEF SendsWithinK

(* No w received frames, and none for t2, wait for their acknowledgement,    *)
(* unless the second thread has sent while an I frame was received           *)
(* (handleConnection, handleTimeouts).                                       *)
THEOREM AcknowledgementInTime == Spec => []AcknowledgesInTime
<1>1. ASSUME IInv PROVE AcknowledgesInTime
  <2> SUFFICES ASSUME AtRest, ~raced
               PROVE  unacked < W /\ (unacked > 0 => unackedAge < T2)
      BY DEF AcknowledgesInTime
  <2>1. Counted /\ Timed /\ thread = "wait" /\ iterated
        BY <1>1 DEF IInv, AckOK, Exact, AtRest, Up, Open
  <2>2. unconfirmedReceivedIMessages < W
        BY <1>1, <2>1 DEF IInv, AckOK, Bounded
  <2> QED BY <2>1, <2>2 DEF Counted, Timed
<1> QED BY <1>1, Invariance, PTL

(* No frame stays unconfirmed for t1 in an open connection, although only    *)
(* the oldest one is tested, and clocks are read before the lock is taken    *)
(* (handleTimeouts), unless a thread has stored a frame into a full k-buffer *)
(* on an outdated test (sendASDUInternal): it covers all earlier frames, and *)
(* these are not tested any more.                                            *)
THEOREM ConfirmationInTime == Spec => []ConfirmedInT1
<1>1. ASSUME IInv PROVE ConfirmedInT1
  <2>1. sentAges \in Seq(Age)
        BY <1>1, Types DEF IInv, Buffer
  <2>2. DOMAIN sentAges = 1..Len(sentAges)
        BY <2>1, LenProperties
  <2> QED BY <1>1, <2>2 DEF IInv, AgesOK, Below, ConfirmedInT1, AtRest, Up, Open
<1> QED BY <1>1, Invariance, PTL

(* A connection on which nothing is received does not outlive SilenceLimit   *)
(* (the T3 test, the count of TESTFR messages and the U timeout in           *)
(* handleTimeouts).                                                          *)
THEOREM SilenceIsDetected == Spec => []SilenceDetected
<1>1. ASSUME IInv PROVE SilenceDetected
  <2> SUFFICES ASSUME AtRest PROVE silence <= SilenceLimit
      BY DEF SilenceDetected
  <2>1. Waited /\ t3Age <= T3 /\ uAge <= T1 /\ Tests
        BY <1>1, Types DEF IInv, Silent, AtRest, Up, Open
  <2>2. silence \in Nat /\ t3Age \in Nat /\ uAge \in Off..(T1 + 1)
        BY <2>1, LimitIsNatural DEF Tests
  <2>3. CASE T1 < T3
    <3>1. silence <= t3Age \/ silence <= T3 + 1 + uAge
          BY <2>1, <2>3 DEF Waited
    <3>2. silence <= T3 + 1 + T1
          BY <2>1, <2>2, <3>1 DEF Off
    <3> QED BY <2>3, <3>2 DEF SilenceLimit
  <2>4. CASE ~(T1 < T3)
    <3>1. PICK o \in 0..3 : outstandingTestFCConMessages = o
          BY <2>1 DEF Tests
    <3>2. silence <= o * (T3 + 1) + t3Age
          BY <2>1, <3>1 DEF Waited
    <3>3. o = 0 \/ o = 1 \/ o = 2 \/ o = 3
          BY <3>1
    <3>4. silence <= 4 * T3 + 3
          BY <2>1, <2>2, <3>2, <3>3
    <3> QED BY <2>4, <3>4 DEF SilenceLimit
  <2> QED BY <2>3, <2>4
<1> QED BY <1>1, Invariance, PTL

(* running of an open connection is not reset, but by the thread of the      *)
(* connection before, if that has not ended (handleConnection's last line).  *)
THEOREM RunsUntilClosed == Spec => RunningUntilClosed
<1>1. ASSUME [Next]_vars, running, thread \in Open, thread' \in Open
      PROVE  running' \/ old
  <2>1. CASE \E blocking \in BOOLEAN : Connect(blocking)
        BY <1>1, <2>1 DEF Connect, Open
  <2>2. CASE \/ Close \/ SecondChecks \/ SecondWrites \/ OldEnds \/ ServerFallsSilent \/ Tick
             \/ ConnectReturns \/ CloseReturns \/ SecondResetsCounter \/ UNCHANGED vars
        BY <1>1, <2>2 DEF Close, SecondChecks, SecondWrites, OldEnds, ServerFallsSilent, Tick,
           ConnectReturns, CloseReturns, SecondResetsCounter, vars, flags
  <2>3. CASE \/ Reset \/ SocketConnects \/ SocketConnectFails \/ OpenedHandlerReturns \/ Ends
             \/ HandlerChecks \/ HandlerWrites \/ HandlerReturns
        BY <1>1, <2>3 DEF Reset, SocketConnects, SocketConnectFails, OpenedHandlerReturns, Ends,
           HandlerChecks, HandlerWrites, HandlerReturns, flags, Open
  <2>4. CASE \/ ReceiveNothing \/ ReceiveError \/ ReceiveI \/ ReceiveS \/ ReceiveU
             \/ ReceiveTestFRCon
        BY <1>1, <2>4 DEF ReceiveNothing, ReceiveError, ReceiveI, ReceiveS, ReceiveU,
           ReceiveTestFRCon, flags
  <2>5. CASE CheckFails \/ CheckPasses \/ CountReceived \/ CheckW \/ HandleTimeouts \/ TestT1
        BY <1>1, <2>5 DEF CheckFails, CheckPasses, CountReceived, CheckW, HandleTimeouts, TestT1,
           flags
  <2> QED BY <1>1, <2>1, <2>2, <2>3, <2>4, <2>5 DEF Next, ConnectionThread
<1>2. [Next]_vars => [running /\ thread \in Open /\ thread' \in Open => running' \/ old]_vars
      BY <1>1
<1> QED BY <1>2, PTL DEF Spec, RunningUntilClosed
=============================================================================
