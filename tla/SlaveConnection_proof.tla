------------------------ MODULE SlaveConnection_proof ------------------------
(* Proofs about a server connection, for all parameters k, w, t1, t2 and t3: *)
(* what is received is counted and acknowledged in time, and no frame stays  *)
(* unconfirmed for t1, whichever thread sends and however frames mix.        *)
EXTENDS SlaveConnection, SequenceTheorems, TLAPS

USE ConnectionAssumption

-----------------------------------------------------------------------------
(* The k-buffer: ages that do not increase from the oldest frame on.         *)
Age == 0..(T1 + 1)

Descending(s) == \A i, j \in 1..Len(s) : i < j => s[i] >= s[j]
Below(s)      == \A i \in 1..Len(s) : s[i] < T1

LEMMA Stored ==
  ASSUME NEW s \in Seq(Age), Descending(s)
  PROVE  /\ Append(s, 0) \in Seq(Age) /\ Len(Append(s, 0)) = Len(s) + 1
         /\ Descending(Append(s, 0)) /\ (Below(s) => Below(Append(s, 0)))
<1> DEFINE t == Append(s, 0)
<1>1. 0 \in Age
      BY DEF Age
<1>2. /\ t \in Seq(Age) /\ Len(t) = Len(s) + 1 /\ Len(s) \in Nat
      /\ \A i \in 1..Len(s) : t[i] = s[i] /\ s[i] \in Age
      /\ t[Len(s) + 1] = 0
      BY <1>1, AppendProperties, LenProperties, ElementOfSeq
<1> HIDE DEF t
<1>3. \A i \in 1..Len(t) : i \in 1..Len(s) \/ i = Len(s) + 1
      BY <1>2
<1>4. Descending(t)
  <2> SUFFICES ASSUME NEW i \in 1..Len(t), NEW j \in 1..Len(t), i < j
               PROVE  t[i] >= t[j]
      BY DEF Descending
  <2>1. i \in 1..Len(s) /\ t[i] = s[i] /\ s[i] \in Age
        BY <1>2
  <2>2. CASE j \in 1..Len(s)
        BY <1>2, <2>1, <2>2 DEF Descending
  <2>3. CASE j = Len(s) + 1
        BY <1>2, <2>1, <2>3 DEF Age
  <2> QED BY <1>3, <2>2, <2>3
<1>5. ASSUME Below(s) PROVE Below(t)
      BY <1>2, <1>3, <1>5 DEF Below
<1> QED BY <1>2, <1>4, <1>5 DEF t

LEMMA Confirmed ==
  ASSUME NEW s \in Seq(Age), Descending(s), NEW d \in 0..Len(s)
  PROVE  /\ SubSeq(s, d + 1, Len(s)) \in Seq(Age) /\ Len(SubSeq(s, d + 1, Len(s))) = Len(s) - d
         /\ Descending(SubSeq(s, d + 1, Len(s)))
         /\ Below(s) => Below(SubSeq(s, d + 1, Len(s)))
<1> DEFINE t == SubSeq(s, d + 1, Len(s))
<1>1. Len(s) \in Nat /\ \A i \in 1..Len(s) : s[i] \in Age
      BY LenProperties, ElementOfSeq
<1>2. d + 1 \in Int /\ Len(s) \in Int /\ \A i \in (d + 1)..Len(s) : s[i] \in Age
      BY <1>1
<1>3. /\ t \in Seq(Age)
      /\ Len(t) = IF d + 1 <= Len(s) THEN Len(s) - (d + 1) + 1 ELSE 0
      /\ \A i \in 1..(Len(s) - (d + 1) + 1) : t[i] = s[d + 1 + i - 1]
      BY <1>2, SubSeqProperties
<1> HIDE DEF t
<1>4. Len(t) = Len(s) - d
      BY <1>1, <1>3
<1>5. \A i \in 1..Len(t) : d + i \in 1..Len(s) /\ t[i] = s[d + i]
      BY <1>1, <1>3, <1>4
<1>6. Descending(t)
  <2> SUFFICES ASSUME NEW i \in 1..Len(t), NEW j \in 1..Len(t), i < j
               PROVE  t[i] >= t[j]
      BY DEF Descending
  <2>1. /\ d + i \in 1..Len(s) /\ d + j \in 1..Len(s) /\ t[i] = s[d + i] /\ t[j] = s[d + j]
        BY <1>5
  <2>2. d + i < d + j
        BY <1>4
  <2> QED BY <2>1, <2>2 DEF Descending
<1>7. ASSUME Below(s) PROVE Below(t)
      BY <1>5, <1>7 DEF Below
<1> QED BY <1>3, <1>4, <1>6, <1>7 DEF t

LEMMA Aged ==
  ASSUME NEW s \in Seq(Age), Descending(s)
  PROVE  LET t == [i \in DOMAIN s |-> Older(s[i], T1)]
         IN  t \in Seq(Age) /\ Len(t) = Len(s) /\ Descending(t)
<1> DEFINE t == [i \in DOMAIN s |-> Older(s[i], T1)]
<1>1. Len(s) \in Nat /\ DOMAIN s = 1..Len(s) /\ \A i \in 1..Len(s) : s[i] \in Age
      BY LenProperties, ElementOfSeq
<1>2. \A a \in Age : Older(a, T1) \in Age
      BY DEF Age, Older
<1>3. t \in [1..Len(s) -> Age]
      BY <1>1, <1>2
<1>4. t \in Seq(Age)
      BY <1>1, <1>3, SeqDef
<1>5. Len(t) = Len(s)
      BY <1>1, <1>3, <1>4, LenProperties
<1>6. \A i \in 1..Len(s) : t[i] = Older(s[i], T1)
      BY <1>1
<1> HIDE DEF t
<1>7. Descending(t)
  <2> SUFFICES ASSUME NEW i \in 1..Len(t), NEW j \in 1..Len(t), i < j
               PROVE  t[i] >= t[j]
      BY DEF Descending
  <2>1. s[i] >= s[j] /\ s[i] \in Age /\ s[j] \in Age
        BY <1>1, <1>5 DEF Descending
  <2>2. \A a, b \in Age : a >= b => Older(a, T1) >= Older(b, T1)
        BY DEF Age, Older
  <2> QED BY <1>5, <1>6, <2>1, <2>2
<1> QED BY <1>4, <1>5, <1>7 DEF t

(* The oldest frame is tested for all of them (handleTimeouts).              *)
LEMMA OldestCounts ==
  ASSUME NEW s \in Seq(Age), Descending(s), s # <<>> => Head(s) < T1
  PROVE  Below(s)
<1> SUFFICES ASSUME NEW i \in 1..Len(s) PROVE s[i] < T1
    BY DEF Below
<1>1. Len(s) \in Nat /\ s # <<>> /\ Head(s) = s[1] /\ \A j \in 1..Len(s) : s[j] \in Age
      BY LenProperties, EmptySeq, ElementOfSeq
<1>2. s[1] < T1 /\ 1 \in 1..Len(s)
      BY <1>1
<1>3. CASE i = 1
      BY <1>2, <1>3
<1>4. CASE i # 1
  <2>1. s[1] >= s[i]
        BY <1>2, <1>4 DEF Descending
  <2> QED BY <1>1, <1>2, <2>1, SMTT(20) DEF Age
<1> QED BY <1>3, <1>4

-----------------------------------------------------------------------------
(* The inductive invariant. *)
AgesOK ==
  /\ Descending(sentAges)
  /\ isRunning /\ iterated => Below(sentAges)

(* Before w received frames are counted, one S frame acknowledges them. *)
Bounded ==
  /\ pc \notin {"handler", "wcheck"} => unconfirmedReceivedIMessages < W
  /\ pc = "check" => unacked < ClientK

(* The application's thread has acknowledged everything it will reset the    *)
(* counter for, unless it has raced with the reception of an I frame.        *)
UnderLock ==
  /\ appHoldsLock => unacked = 0
  /\ appHoldsLock /\ ~raced => pc # "count"

T2Runs == pc = "check" /\ ~raced => timeoutT2Triggered

(* The counter is exact, and T2 has been running since the oldest frame that *)
(* is not acknowledged.                                                      *)
Counted ==
  unacked = IF pc = "count" THEN unconfirmedReceivedIMessages + 1
            ELSE unconfirmedReceivedIMessages

Timed ==
  unacked > 0 => /\ timeoutT2Triggered
                 /\ unackedAge <= t2Age
                 /\ (iterated => unackedAge < T2)

Exact == isRunning /\ ~raced /\ ~appHoldsLock => Counted /\ Timed

Starting ==
  pc = "start" => /\ sentAges = <<>> /\ unconfirmedReceivedIMessages = 0 /\ unacked = 0
                  /\ ~appHoldsLock /\ ~iterated

AckOK == Bounded /\ UnderLock /\ T2Runs /\ Exact

IInv == TypeOK /\ AgesOK /\ AckOK /\ Starting

LEMMA Types ==
  TypeOK <=>
    /\ pc \in {"start", "wait", "check", "count", "handler", "wcheck", "timeouts",
               "send", "done"}
    /\ isActive \in BOOLEAN /\ isRunning \in BOOLEAN /\ timeoutT2Triggered \in BOOLEAN
    /\ appHoldsLock \in BOOLEAN /\ iterated \in BOOLEAN /\ clientAlive \in BOOLEAN
    /\ raced \in BOOLEAN
    /\ closeRequested \in {"no", "early", "late"}
    /\ sentAges \in Seq(Age) /\ Len(sentAges) <= K
    /\ unconfirmedReceivedIMessages \in 0..W /\ unacked \in 0..ClientK
    /\ t2Age \in 0..(T2 + 1) /\ unackedAge \in 0..(T2 + 1) /\ t3Age \in 0..(T3 + 1)
    /\ outstandingTestFRConMessages \in 0..3
    /\ high \in 0..MaxHigh /\ low \in 0..MaxLow
BY DEF TypeOK, Age

(* What a step leaves of the ages and of the counters. *)
LEMMA AgesKept ==
  ASSUME AgesOK, sentAges' = sentAges, isRunning' => isRunning, iterated' => iterated
  PROVE  AgesOK'
BY DEF AgesOK

LEMMA AgesStored ==
  ASSUME TypeOK, AgesOK, sentAges' = Append(sentAges, 0), ~Full,
         isRunning' => isRunning, iterated' => iterated
  PROVE  AgesOK' /\ sentAges' \in Seq(Age) /\ Len(sentAges') <= K
<1>1. sentAges \in Seq(Age) /\ Len(sentAges) <= K /\ Len(sentAges) \in Nat
      BY Types, LenProperties
<1>2. /\ sentAges' \in Seq(Age) /\ Len(sentAges') = Len(sentAges) + 1
      /\ Descending(sentAges') /\ (Below(sentAges) => Below(sentAges'))
      BY <1>1, Stored DEF AgesOK
<1>3. Len(sentAges') <= K
      BY <1>1, <1>2 DEF Full
<1>4. AgesOK'
      BY <1>2 DEF AgesOK
<1> QED BY <1>2, <1>3, <1>4

LEMMA AgesConfirmed ==
  ASSUME TypeOK, AgesOK,
         \E d \in 0..Len(sentAges) : sentAges' = SubSeq(sentAges, d + 1, Len(sentAges)),
         isRunning' => isRunning, iterated' => iterated
  PROVE  AgesOK' /\ sentAges' \in Seq(Age) /\ Len(sentAges') <= K
<1>1. sentAges \in Seq(Age) /\ Len(sentAges) <= K /\ Len(sentAges) \in Nat
      BY Types, LenProperties
<1>2. PICK d \in 0..Len(sentAges) : sentAges' = SubSeq(sentAges, d + 1, Len(sentAges))
      OBVIOUS
<1>3. /\ sentAges' \in Seq(Age) /\ Len(sentAges') = Len(sentAges) - d
      /\ Descending(sentAges') /\ (Below(sentAges) => Below(sentAges'))
      BY <1>1, <1>2, Confirmed DEF AgesOK
<1>4. AgesOK'
      BY <1>3 DEF AgesOK
<1> QED BY <1>1, <1>2, <1>3, <1>4

LEMMA AckKept ==
  ASSUME AckOK, UNCHANGED <<ack, t2Age, appHoldsLock>>, raced' = raced,
         isRunning' => isRunning, iterated' => iterated,
         pc' \notin {"check", "count"}, pc # "count",
         pc \in {"handler", "wcheck"} => pc' \in {"handler", "wcheck"}
  PROVE  AckOK'
<1>1. UNCHANGED <<unconfirmedReceivedIMessages, timeoutT2Triggered, unacked, unackedAge, t2Age,
                  appHoldsLock, raced>>
      BY DEF ack
<1>2. Bounded'
      BY <1>1 DEF AckOK, Bounded
<1>3. UnderLock' /\ T2Runs'
      BY <1>1 DEF AckOK, UnderLock, T2Runs
<1>4. Exact'
      BY <1>1 DEF AckOK, Exact, Counted, Timed
<1> QED BY <1>2, <1>3, <1>4 DEF AckOK

(* Everything is acknowledged and the counter reset. *)
LEMMA AckReset ==
  ASSUME AckOK, unconfirmedReceivedIMessages' = 0, unacked' = 0,
         appHoldsLock' => appHoldsLock, raced' = raced, pc' \notin {"check", "count"}
  PROVE  AckOK'
<1>1. Bounded'
      BY DEF Bounded
<1>2. UnderLock' /\ T2Runs'
      BY DEF UnderLock, T2Runs
<1>3. Exact'
      BY DEF Exact, Counted, Timed
<1> QED BY <1>1, <1>2, <1>3 DEF AckOK

(* The counter is reset, but the write has failed: the connection ends. *)
LEMMA AckBroken ==
  ASSUME AckOK, unconfirmedReceivedIMessages' = 0, unacked' = unacked, ~isRunning',
         appHoldsLock' => appHoldsLock, raced' = raced, pc' \notin {"check", "count"}
  PROVE  AckOK'
<1>1. Bounded'
      BY DEF Bounded
<1>2. UnderLock' /\ T2Runs'
      BY DEF AckOK, UnderLock, T2Runs
<1>3. Exact'
      BY DEF Exact
<1> QED BY <1>1, <1>2, <1>3 DEF AckOK

-----------------------------------------------------------------------------
(* The steps of the connection thread. *)
LEMMA SendIKeeps ==
  ASSUME IInv, NEW ok \in BOOLEAN, SendI(ok), UNCHANGED <<appHoldsLock, raced, iterated>>,
         pc' \notin {"check", "count"}
  PROVE  /\ AgesOK' /\ AckOK'
         /\ sentAges' \in Seq(Age) /\ Len(sentAges') <= K /\ isRunning' \in BOOLEAN
         /\ timeoutT2Triggered' \in BOOLEAN /\ unconfirmedReceivedIMessages' \in 0..W
         /\ unacked' \in 0..ClientK /\ unackedAge' \in 0..(T2 + 1)
<1>1. /\ ~Full /\ sentAges' = Append(sentAges, 0) /\ unconfirmedReceivedIMessages' = 0
      /\ isRunning' \in BOOLEAN /\ (isRunning' => isRunning /\ ok)
      BY DEF SendI
<1>2. TypeOK /\ AgesOK /\ AckOK
      BY DEF IInv
<1>3. AgesOK' /\ sentAges' \in Seq(Age) /\ Len(sentAges') <= K
      BY <1>1, <1>2, AgesStored
<1>4. CASE ok /\ Acknowledged /\ timeoutT2Triggered' = FALSE
  <2>1. unacked' = 0 /\ unackedAge' = 0
        BY <1>4 DEF Acknowledged
  <2>2. AckOK'
        BY <1>1, <1>2, <2>1, AckReset
  <2>3. timeoutT2Triggered' \in BOOLEAN
        BY <1>4
  <2>4. 0 \in 0..W /\ 0 \in 0..ClientK /\ 0 \in 0..(T2 + 1)
        OBVIOUS
  <2> QED BY <1>1, <1>3, <2>1, <2>2, <2>3, <2>4
<1>5. CASE ~ok /\ UNCHANGED <<unacked, unackedAge, timeoutT2Triggered>>
  <2>1. AckOK'
        BY <1>1, <1>2, <1>5, AckBroken
  <2>2. /\ timeoutT2Triggered \in BOOLEAN /\ unacked \in 0..ClientK
        /\ unackedAge \in 0..(T2 + 1)
        BY <1>2, Types
  <2> QED BY <1>1, <1>3, <1>5, <2>1, <2>2
<1> QED BY <1>4, <1>5 DEF SendI

LEMMA StartStep ==
  ASSUME IInv, Start
  PROVE  IInv'
<1>1. /\ pc = "start" /\ pc' = "wait" /\ isRunning' = TRUE /\ t3Age' = 0
      /\ UNCHANGED <<isActive, sentAges, ack, t2Age, outstandingTestFRConMessages, iterated,
                     queues, appHoldsLock, env>>
      BY DEF Start
<1>2. /\ sentAges = <<>> /\ unconfirmedReceivedIMessages = 0 /\ unacked = 0
      /\ ~appHoldsLock /\ ~iterated
      BY <1>1 DEF IInv, Starting
<1>3. TypeOK'
      BY <1>1, Types DEF IInv, TypeOK, ack, queues, env
<1>4. AgesOK'
      BY <1>1, <1>2 DEF IInv, AgesOK
<1>5. AckOK'
      BY <1>1, <1>2 DEF AckOK, ack, Bounded, UnderLock, T2Runs, Exact, Counted, Timed
<1>6. Starting'
      BY <1>1 DEF Starting
<1> QED BY <1>3, <1>4, <1>5, <1>6 DEF IInv

LEMMA LeaveStep ==
  ASSUME IInv, Leave \/ ReceiveNothing \/ ReceiveError
  PROVE  IInv'
<1>1. /\ pc = "wait" /\ pc' \in {"done", "timeouts"}
      /\ isRunning' = isRunning \/ isRunning' = FALSE
      /\ UNCHANGED <<isActive, sentAges, ack, timers, queues, appHoldsLock, env>>
      BY DEF Leave, ReceiveNothing, ReceiveError
<1>2. TypeOK'
      BY <1>1 DEF IInv, TypeOK, ack, timers, queues, env
<1>3. AgesOK'
      BY <1>1, AgesKept DEF IInv, timers
<1>4. AckOK'
      BY <1>1, AckKept DEF IInv, timers, env
<1> QED BY <1>1, <1>2, <1>3, <1>4 DEF IInv, Starting

LEMMA ReceiveIStep ==
  ASSUME IInv, ReceiveI
  PROVE  IInv'
<1>1. /\ pc = "wait" /\ pc' = "check" /\ unacked < ClientK
      /\ timeoutT2Triggered' = TRUE
      /\ t2Age' = IF timeoutT2Triggered THEN t2Age ELSE 0
      /\ UNCHANGED <<isActive, isRunning, sentAges, unconfirmedReceivedIMessages, unacked,
                     unackedAge, t3Age, outstandingTestFRConMessages, iterated, queues,
                     appHoldsLock, env>>
      BY DEF ReceiveI, Receives
<1>2. TypeOK'
  <2>1. t2Age' \in 0..(T2 + 1)
        BY <1>1 DEF IInv, TypeOK
  <2> QED BY <1>1, <2>1 DEF IInv, TypeOK, queues, env
<1>3. AgesOK'
      BY <1>1, AgesKept DEF IInv
<1>4. AckOK'
  <2>1. /\ unconfirmedReceivedIMessages' = unconfirmedReceivedIMessages /\ unacked' = unacked
        /\ unackedAge' = unackedAge /\ isRunning' = isRunning /\ iterated' = iterated
        /\ appHoldsLock' = appHoldsLock /\ raced' = raced
        BY <1>1 DEF env
  <2>2. Bounded' /\ UnderLock' /\ T2Runs'
        BY <1>1, <2>1 DEF IInv, AckOK, Bounded, UnderLock, T2Runs
  <2>3. ASSUME isRunning, ~raced, ~appHoldsLock PROVE Counted' /\ Timed'
    <3>1. Counted /\ Timed
          BY <2>3 DEF IInv, AckOK, Exact
    <3>2. Counted'
          BY <1>1, <2>1, <3>1 DEF Counted
    <3>3. unacked > 0 => t2Age' = t2Age
          BY <1>1, <3>1 DEF Timed
    <3> QED BY <1>1, <2>1, <3>1, <3>2, <3>3 DEF Timed
  <2> QED BY <2>1, <2>2, <2>3 DEF AckOK, Exact
<1> QED BY <1>1, <1>2, <1>3, <1>4 DEF IInv, Starting

LEMMA CheckFailsStep ==
  ASSUME IInv, CheckFails
  PROVE  IInv'
<1>1. /\ pc = "check" /\ pc' = "wcheck" /\ isRunning' = FALSE
      /\ UNCHANGED <<isActive, sentAges, ack, timers, queues, appHoldsLock, env>>
      BY DEF CheckFails
<1>2. TypeOK'
      BY <1>1 DEF IInv, TypeOK, ack, timers, queues, env
<1>3. AgesOK'
      BY <1>1, AgesKept DEF IInv, timers
<1>4. AckOK'
      BY <1>1 DEF IInv, AckOK, ack, env, timers, Bounded, UnderLock, T2Runs, Exact
<1> QED BY <1>1, <1>2, <1>3, <1>4 DEF IInv, Starting

LEMMA CheckPassesStep ==
  ASSUME IInv, CheckPasses
  PROVE  IInv'
<1>1. /\ pc = "check" /\ ~appHoldsLock /\ pc' = "count"
      /\ \E d \in 0..Len(sentAges) : sentAges' = SubSeq(sentAges, d + 1, Len(sentAges))
      /\ unacked' = unacked + 1 /\ unackedAge' = IF unacked = 0 THEN 0 ELSE unackedAge
      /\ UNCHANGED <<isActive, isRunning, unconfirmedReceivedIMessages, timeoutT2Triggered,
                     timers, queues, appHoldsLock, env>>
      BY DEF CheckPasses
<1>2. AgesOK' /\ sentAges' \in Seq(Age) /\ Len(sentAges') <= K
      BY <1>1, AgesConfirmed DEF IInv, timers
<1>3. unacked \in 0..(ClientK - 1)
      BY <1>1, Types, SMTT(20) DEF IInv, AckOK, Bounded
<1>4. TypeOK'
  <2>1. unackedAge' \in 0..(T2 + 1) /\ unacked' \in 0..ClientK
        BY <1>1, <1>3, Types, SMTT(20) DEF IInv
  <2> QED BY <1>1, <1>2, <2>1 DEF IInv, TypeOK, Age, timers, queues, env
<1>5. AckOK'
  <2>1. /\ unconfirmedReceivedIMessages' = unconfirmedReceivedIMessages
        /\ timeoutT2Triggered' = timeoutT2Triggered /\ t2Age' = t2Age
        /\ isRunning' = isRunning /\ iterated' = iterated /\ ~appHoldsLock' /\ raced' = raced
        BY <1>1 DEF env, timers
  <2>2. Bounded' /\ UnderLock' /\ T2Runs'
        BY <1>1, <2>1 DEF IInv, AckOK, Bounded, UnderLock, T2Runs
  <2>3. ASSUME isRunning, ~raced PROVE Counted' /\ Timed'
    <3>1. Counted /\ Timed /\ timeoutT2Triggered
          BY <1>1, <2>3 DEF IInv, AckOK, Exact, T2Runs
    <3>2. Counted'
          BY <1>1, <2>1, <3>1 DEF Counted
    <3>3. timeoutT2Triggered'
          BY <2>1, <3>1
    <3>4. unackedAge' <= t2Age' /\ (iterated => unackedAge' < T2)
      <4>1. t2Age \in Nat
            BY Types DEF IInv
      <4>2. CASE unacked = 0
            BY <1>1, <2>1, <4>1, <4>2
      <4>3. CASE unacked # 0
            BY <1>1, <1>3, <2>1, <3>1, <4>3 DEF Timed
      <4> QED BY <4>2, <4>3
    <3> QED BY <2>1, <3>2, <3>3, <3>4 DEF Timed
  <2> QED BY <2>1, <2>2, <2>3 DEF AckOK, Exact
<1> QED BY <1>1, <1>2, <1>4, <1>5 DEF IInv, Starting

LEMMA CountReceivedStep ==
  ASSUME IInv, CountReceived
  PROVE  IInv'
<1>1. /\ pc = "count" /\ pc' \in {"handler", "wcheck"}
      /\ unconfirmedReceivedIMessages' = unconfirmedReceivedIMessages + 1
      /\ t3Age' = t3Age \/ t3Age' = 0
      /\ UNCHANGED <<isActive, isRunning, sentAges, timeoutT2Triggered, unacked, unackedAge,
                     t2Age, outstandingTestFRConMessages, iterated, queues, appHoldsLock, env>>
      BY DEF CountReceived
<1>2. unconfirmedReceivedIMessages \in 0..(W - 1)
      BY <1>1, Types DEF IInv, AckOK, Bounded
<1>3. TypeOK'
  <2>1. unconfirmedReceivedIMessages' \in 0..W /\ t3Age' \in 0..(T3 + 1)
        BY <1>1, <1>2, Types, SMTT(20) DEF IInv
  <2> QED BY <1>1, <2>1 DEF IInv, TypeOK, queues, env
<1>4. AgesOK'
      BY <1>1, AgesKept DEF IInv
<1>5. AckOK'
  <2>1. /\ timeoutT2Triggered' = timeoutT2Triggered /\ t2Age' = t2Age /\ unacked' = unacked
        /\ unackedAge' = unackedAge /\ isRunning' = isRunning /\ iterated' = iterated
        /\ appHoldsLock' = appHoldsLock /\ raced' = raced
        BY <1>1 DEF env
  <2>2. Bounded' /\ UnderLock' /\ T2Runs'
        BY <1>1, <2>1 DEF IInv, AckOK, Bounded, UnderLock, T2Runs
  <2>3. ASSUME isRunning, ~raced, ~appHoldsLock PROVE Counted' /\ Timed'
    <3>1. Counted /\ Timed
          BY <2>3 DEF IInv, AckOK, Exact
    <3>2. Counted'
          BY <1>1, <2>1, <3>1 DEF Counted
    <3>3. Timed'
          BY <2>1, <3>1 DEF Timed
    <3> QED BY <3>2, <3>3
  <2> QED BY <2>1, <2>2, <2>3 DEF AckOK, Exact
<1> QED BY <1>1, <1>3, <1>4, <1>5 DEF IInv, Starting

LEMMA HandlerReturnsStep ==
  ASSUME IInv, HandlerReturns
  PROVE  IInv'
<1>1. /\ pc = "handler" /\ pc' = "wcheck" /\ t3Age' = 0
      /\ UNCHANGED <<isActive, isRunning, sentAges, ack, t2Age, outstandingTestFRConMessages,
                     iterated, queues, appHoldsLock, env>>
      BY DEF HandlerReturns
<1>2. TypeOK'
      BY <1>1 DEF IInv, TypeOK, ack, queues, env
<1>3. AgesOK'
      BY <1>1, AgesKept DEF IInv
<1>4. AckOK'
      BY <1>1, AckKept DEF IInv, env
<1> QED BY <1>1, <1>2, <1>3, <1>4 DEF IInv, Starting

LEMMA HandlerSendsStep ==
  ASSUME IInv, HandlerSends
  PROVE  IInv'
<1>1. /\ pc = "handler" /\ UNCHANGED <<pc, isActive, timers, low, appHoldsLock, env>>
      BY DEF HandlerSends
<1>2. CASE (\E ok \in BOOLEAN : SendI(ok)) /\ UNCHANGED high
  <2>1. PICK ok \in BOOLEAN : SendI(ok)
        BY <1>2
  <2>2. /\ AgesOK' /\ AckOK'
        /\ sentAges' \in Seq(Age) /\ Len(sentAges') <= K /\ isRunning' \in BOOLEAN
        /\ timeoutT2Triggered' \in BOOLEAN /\ unconfirmedReceivedIMessages' \in 0..W
        /\ unacked' \in 0..ClientK /\ unackedAge' \in 0..(T2 + 1)
        BY <1>1, <2>1, SendIKeeps DEF timers, env
  <2>3. TypeOK'
        BY <1>1, <1>2, <2>2 DEF IInv, TypeOK, Age, timers, env
  <2> QED BY <1>1, <2>2, <2>3 DEF IInv, Starting
<1>3. CASE /\ high' = IF high < MaxHigh THEN high + 1 ELSE high
           /\ UNCHANGED <<isRunning, sentAges, ack>>
  <2>1. high' \in 0..MaxHigh
        BY <1>3, Types, SMTT(20) DEF IInv
  <2>2. TypeOK'
        BY <1>1, <1>3, <2>1 DEF IInv, TypeOK, timers, env, ack
  <2>3. AgesOK'
        BY <1>1, <1>3, AgesKept DEF IInv, timers
  <2>4. AckOK'
        BY <1>1, <1>3, AckKept DEF IInv, timers, env
  <2> QED BY <1>1, <2>2, <2>3, <2>4 DEF IInv, Starting
<1> QED BY <1>2, <1>3 DEF HandlerSends

LEMMA ReceiveSStep ==
  ASSUME IInv, ReceiveS
  PROVE  IInv'
<1>1. /\ pc = "wait" /\ pc' = "wcheck"
      /\ UNCHANGED <<isActive, ack, t2Age, outstandingTestFRConMessages, iterated, queues,
                     appHoldsLock, env>>
      BY DEF ReceiveS, Receives
<1>2. /\ AgesOK' /\ sentAges' \in Seq(Age) /\ Len(sentAges') <= K
      /\ t3Age' \in 0..(T3 + 1) /\ isRunning' \in BOOLEAN /\ (isRunning' => isRunning)
  <2>1. CASE /\ \E d \in 0..Len(sentAges) : sentAges' = SubSeq(sentAges, d + 1, Len(sentAges))
             /\ t3Age' = 0 /\ UNCHANGED isRunning
    <3>1. AgesOK' /\ sentAges' \in Seq(Age) /\ Len(sentAges') <= K
          BY <1>1, <2>1, AgesConfirmed DEF IInv
    <3>2. isRunning' \in BOOLEAN
          BY <2>1, Types DEF IInv
    <3>3. t3Age' \in 0..(T3 + 1)
          BY <2>1
    <3> QED BY <2>1, <3>1, <3>2, <3>3
  <2>2. CASE isRunning' = FALSE /\ UNCHANGED <<sentAges, t3Age>>
    <3>1. AgesOK'
          BY <1>1, <2>2, AgesKept DEF IInv
    <3> QED BY <2>2, <3>1, Types DEF IInv
  <2> QED BY <2>1, <2>2 DEF ReceiveS
<1>3. TypeOK'
      BY <1>1, <1>2 DEF IInv, TypeOK, Age, ack, queues, env
<1>4. AckOK'
      BY <1>1, <1>2, AckKept DEF IInv, env
<1> QED BY <1>1, <1>2, <1>3, <1>4 DEF IInv, Starting

LEMMA ReceiveUStep ==
  ASSUME IInv, ReceiveU
  PROVE  IInv'
<1>1. /\ pc = "wait" /\ pc' = "wcheck"
      /\ UNCHANGED <<sentAges, ack, t2Age, outstandingTestFRConMessages, iterated, low,
                     appHoldsLock, env>>
      BY DEF ReceiveU, Receives
<1>2. isActive' \in BOOLEAN /\ high' \in 0..MaxHigh
  <2>1. isActive \in BOOLEAN /\ high \in 0..MaxHigh /\ 0 \in 0..MaxHigh
        BY Types DEF IInv
  <2>2. \/ isActive' = TRUE /\ high' = 0
        \/ isActive' = FALSE /\ high' = high
        \/ isActive' = isActive /\ high' = high
        BY DEF ReceiveU
  <2> QED BY <2>1, <2>2
<1>3. isRunning' \in BOOLEAN /\ (isRunning' => isRunning) /\ t3Age' \in 0..(T3 + 1)
  <2>1. isRunning \in BOOLEAN /\ t3Age \in 0..(T3 + 1) /\ 0 \in 0..(T3 + 1)
        BY Types DEF IInv
  <2>2. \/ t3Age' = 0 /\ isRunning' = isRunning
        \/ isRunning' = FALSE /\ t3Age' = t3Age
        BY DEF ReceiveU
  <2>3. isRunning' \in BOOLEAN
        BY <2>1, <2>2
  <2>4. t3Age' \in 0..(T3 + 1)
        BY <2>1, <2>2
  <2> QED BY <2>2, <2>3, <2>4
<1>4. TypeOK'
      BY <1>1, <1>2, <1>3 DEF IInv, TypeOK, ack, env
<1>5. AgesOK'
      BY <1>1, <1>3, AgesKept DEF IInv
<1>6. AckOK'
      BY <1>1, <1>3, AckKept DEF IInv, env
<1> QED BY <1>1, <1>4, <1>5, <1>6 DEF IInv, Starting

LEMMA ReceiveTestFRConStep ==
  ASSUME IInv, ReceiveTestFRCon
  PROVE  IInv'
<1>1. /\ pc = "wait" /\ pc' = "wcheck" /\ outstandingTestFRConMessages' = 0 /\ t3Age' = 0
      /\ UNCHANGED <<isActive, isRunning, sentAges, ack, t2Age, iterated, queues,
                     appHoldsLock, env>>
      BY DEF ReceiveTestFRCon, Receives
<1>2. TypeOK'
      BY <1>1 DEF IInv, TypeOK, ack, queues, env
<1>3. AgesOK'
      BY <1>1, AgesKept DEF IInv
<1>4. AckOK'
      BY <1>1, AckKept DEF IInv, env
<1> QED BY <1>1, <1>2, <1>3, <1>4 DEF IInv, Starting

LEMMA CheckWStep ==
  ASSUME IInv, CheckW
  PROVE  IInv'
<1>1. /\ pc = "wcheck" /\ pc' = "timeouts"
      /\ UNCHANGED <<isActive, sentAges, t3Age, outstandingTestFRConMessages, iterated,
                     queues, appHoldsLock, env>>
      BY DEF CheckW
<1>2. CASE unconfirmedReceivedIMessages >= W
  <2>1. /\ unconfirmedReceivedIMessages' = 0 /\ timeoutT2Triggered' = FALSE /\ t2Age' = 0
        BY <1>2 DEF CheckW
  <2>2. /\ AckOK' /\ isRunning' \in BOOLEAN /\ (isRunning' => isRunning)
        /\ unacked' \in 0..ClientK /\ unackedAge' \in 0..(T2 + 1)
    <3>1. CASE Acknowledged /\ UNCHANGED isRunning
      <4>1. unacked' = 0 /\ unackedAge' = 0
            BY <3>1 DEF Acknowledged
      <4>2. AckOK'
            BY <1>1, <2>1, <4>1, AckReset DEF IInv, env
      <4>3. isRunning' \in BOOLEAN
            BY <3>1, Types DEF IInv
      <4>4. unacked' \in 0..ClientK /\ unackedAge' \in 0..(T2 + 1)
            BY <4>1
      <4> QED BY <3>1, <4>2, <4>3, <4>4
    <3>2. CASE isRunning' = FALSE /\ UNCHANGED <<unacked, unackedAge>>
      <4>1. AckOK'
            BY <1>1, <2>1, <3>2, AckBroken DEF IInv, env
      <4> QED BY <3>2, <4>1, Types DEF IInv
    <3> QED BY <1>2, <3>1, <3>2 DEF CheckW
  <2>3. timeoutT2Triggered' \in BOOLEAN
        BY <2>1
  <2>4. TypeOK'
        BY <1>1, <2>1, <2>2, <2>3 DEF IInv, TypeOK, queues, env
  <2>5. AgesOK'
        BY <1>1, <2>2, AgesKept DEF IInv
  <2> QED BY <1>1, <2>2, <2>4, <2>5 DEF IInv, Starting
<1>3. CASE unconfirmedReceivedIMessages < W
  <2>1. UNCHANGED <<ack, t2Age, isRunning>>
        BY <1>3, Types DEF IInv, CheckW
  <2>2. TypeOK'
        BY <1>1, <2>1 DEF IInv, TypeOK, ack, queues, env
  <2>3. AgesOK'
        BY <1>1, <2>1, AgesKept DEF IInv
  <2>4. /\ unconfirmedReceivedIMessages' = unconfirmedReceivedIMessages /\ unacked' = unacked
        /\ timeoutT2Triggered' = timeoutT2Triggered /\ t2Age' = t2Age
        /\ unackedAge' = unackedAge /\ isRunning' = isRunning /\ iterated' = iterated
        /\ appHoldsLock' = appHoldsLock /\ raced' = raced
        BY <1>1, <2>1 DEF ack, env
  <2>5. Bounded' /\ UnderLock' /\ T2Runs'
        BY <1>1, <1>3, <2>4 DEF IInv, AckOK, Bounded, UnderLock, T2Runs
  <2>6. Exact'
        BY <1>1, <2>4 DEF IInv, AckOK, Exact, Counted, Timed
  <2> QED BY <1>1, <2>2, <2>3, <2>5, <2>6 DEF IInv, AckOK, Starting
<1>4. W \in Nat /\ unconfirmedReceivedIMessages \in Nat
      BY Types DEF IInv
<1> QED BY <1>2, <1>3, <1>4

(* T1 is tested on the oldest frame only; T2 is due before a frame has       *)
(* waited for t2.                                                            *)
LEMMA HandleTimeoutsStep ==
  ASSUME IInv, HandleTimeouts
  PROVE  IInv'
<1>1. /\ pc = "timeouts" /\ ~appHoldsLock /\ iterated' = TRUE
      /\ pc' \in {"done", "send", "wait"}
      /\ UNCHANGED <<isActive, sentAges, queues, appHoldsLock, env>>
      BY DEF HandleTimeouts
<1>2. t3Age' \in 0..(T3 + 1) /\ outstandingTestFRConMessages' \in 0..3
  <2>1. t3Age \in 0..(T3 + 1) /\ outstandingTestFRConMessages \in 0..3
        BY Types DEF IInv
  <2>2. CASE TestFRDue /\ ~TestFRLost
        BY <2>1, <2>2 DEF HandleTimeouts, TestFRLost
  <2>3. CASE ~(TestFRDue /\ ~TestFRLost)
        BY <2>1, <2>3 DEF HandleTimeouts
  <2> QED BY <2>2, <2>3
<1>3. PICK broken \in BOOLEAN :
        /\ IF T2Due
           THEN /\ unconfirmedReceivedIMessages' = 0 /\ timeoutT2Triggered' = FALSE
                /\ t2Age' = 0
                /\ IF broken THEN UNCHANGED <<unacked, unackedAge>> ELSE Acknowledged
           ELSE UNCHANGED <<ack, t2Age>>
        /\ isRunning' = /\ isRunning
                        /\ ~(broken /\ (TestFRDue \/ T2Due))
                        /\ ~TestFRLost
                        /\ ~OldestDue
      BY DEF HandleTimeouts
<1>4. /\ isRunning' \in BOOLEAN
      /\ isRunning' => isRunning /\ ~OldestDue /\ (T2Due => ~broken)
      BY <1>3
<1>5. AgesOK'
  <2>1. sentAges \in Seq(Age) /\ Descending(sentAges) /\ sentAges' = sentAges
        BY <1>1, Types DEF IInv, AgesOK
  <2>2. ASSUME ~OldestDue PROVE Below(sentAges)
    <3>1. sentAges # <<>> => Head(sentAges) < T1
      <4>1. sentAges # <<>> => Head(sentAges) \in Age
            BY <2>1, HeadTailProperties
      <4> QED BY <2>2, <4>1 DEF OldestDue, Age
    <3> QED BY <2>1, <3>1, OldestCounts
  <2> QED BY <1>4, <2>1, <2>2 DEF AgesOK
<1>6. CASE T2Due
  <2>1. /\ unconfirmedReceivedIMessages' = 0 /\ timeoutT2Triggered' = FALSE /\ t2Age' = 0
        BY <1>3, <1>6
  <2>2. AckOK' /\ unacked' \in 0..ClientK /\ unackedAge' \in 0..(T2 + 1)
    <3>1. CASE broken
      <4>1. unacked' = unacked /\ unackedAge' = unackedAge /\ ~isRunning'
            BY <1>3, <1>4, <1>6, <3>1
      <4>2. AckOK'
            BY <1>1, <2>1, <4>1, AckBroken DEF IInv, env
      <4> QED BY <4>1, <4>2, Types DEF IInv
    <3>2. CASE ~broken
      <4>1. unacked' = 0 /\ unackedAge' = 0
            BY <1>3, <1>6, <3>2 DEF Acknowledged
      <4>2. AckOK'
            BY <1>1, <2>1, <4>1, AckReset DEF IInv, env
      <4>3. unacked' \in 0..ClientK /\ unackedAge' \in 0..(T2 + 1)
            BY <4>1
      <4> QED BY <4>2, <4>3
    <3> QED BY <3>1, <3>2
  <2>3. timeoutT2Triggered' \in BOOLEAN
        BY <2>1
  <2>4. TypeOK'
        BY <1>1, <1>2, <1>4, <2>1, <2>2, <2>3, SMTT(20) DEF IInv, TypeOK, queues, env
  <2> QED BY <1>1, <1>5, <2>2, <2>4 DEF IInv, Starting
<1>7. CASE ~T2Due
  <2>1. /\ unconfirmedReceivedIMessages' = unconfirmedReceivedIMessages /\ unacked' = unacked
        /\ timeoutT2Triggered' = timeoutT2Triggered /\ t2Age' = t2Age
        /\ unackedAge' = unackedAge /\ raced' = raced /\ ~appHoldsLock'
        BY <1>1, <1>3, <1>7 DEF ack, env
  <2>2. TypeOK'
        BY <1>1, <1>2, <1>4, <2>1 DEF IInv, TypeOK, queues, env
  <2>3. Bounded' /\ UnderLock' /\ T2Runs'
        BY <1>1, <2>1 DEF IInv, AckOK, Bounded, UnderLock, T2Runs
  <2>4. ASSUME isRunning', ~raced PROVE Counted' /\ Timed'
    <3>1. Counted /\ Timed
          BY <1>1, <1>4, <2>4 DEF IInv, AckOK, Exact
    <3>2. Counted'
          BY <1>1, <2>1, <3>1 DEF Counted
    <3>3. unacked > 0 => unackedAge < T2
      <4>1. /\ unacked \in Nat /\ unconfirmedReceivedIMessages \in Nat
            /\ t2Age \in Nat /\ unackedAge \in Nat
            BY Types DEF IInv
      <4>2. unacked = unconfirmedReceivedIMessages
            BY <1>1, <3>1 DEF Counted
      <4> QED BY <1>7, <3>1, <4>1, <4>2 DEF T2Due, Timed
    <3>4. Timed'
          BY <2>1, <3>1, <3>3 DEF Timed
    <3> QED BY <3>2, <3>4
  <2> QED BY <1>1, <1>5, <2>1, <2>2, <2>3, <2>4 DEF IInv, AckOK, Exact, Starting
<1> QED BY <1>6, <1>7

LEMMA SendHighStep ==
  ASSUME IInv, SendHigh
  PROVE  IInv'
<1>1. /\ pc = "send" /\ high > 0 /\ UNCHANGED <<isActive, timers, low, appHoldsLock, env>>
      BY DEF SendHigh
<1>2. CASE pc' = "wait" /\ UNCHANGED <<isRunning, sentAges, ack, high>>
  <2>1. TypeOK'
        BY <1>1, <1>2 DEF IInv, TypeOK, ack, timers, env
  <2>2. AgesOK'
        BY <1>1, <1>2, AgesKept DEF IInv, timers
  <2>3. AckOK'
        BY <1>1, <1>2, AckKept DEF IInv, timers, env
  <2> QED BY <1>2, <2>1, <2>2, <2>3 DEF IInv, Starting
<1>3. CASE /\ \E ok \in BOOLEAN : SendI(ok)
           /\ high' = high - 1
           /\ pc' = IF isRunning' THEN "send" ELSE "wait"
  <2>1. PICK ok \in BOOLEAN : SendI(ok)
        BY <1>3
  <2>2. pc' \in {"send", "wait"}
        BY <1>3
  <2>3. /\ AgesOK' /\ AckOK'
        /\ sentAges' \in Seq(Age) /\ Len(sentAges') <= K /\ isRunning' \in BOOLEAN
        /\ timeoutT2Triggered' \in BOOLEAN /\ unconfirmedReceivedIMessages' \in 0..W
        /\ unacked' \in 0..ClientK /\ unackedAge' \in 0..(T2 + 1)
        BY <1>1, <2>1, <2>2, SendIKeeps DEF timers, env
  <2>4. high' \in 0..MaxHigh
        BY <1>1, <1>3, Types, SMTT(20) DEF IInv
  <2>5. TypeOK'
        BY <1>1, <2>2, <2>3, <2>4 DEF IInv, TypeOK, Age, timers, env
  <2> QED BY <2>2, <2>3, <2>5 DEF IInv, Starting
<1> QED BY <1>2, <1>3 DEF SendHigh

LEMMA SendLowStep ==
  ASSUME IInv, SendLow
  PROVE  IInv'
<1>1. /\ pc = "send" /\ pc' = "wait"
      /\ UNCHANGED <<isActive, timers, high, appHoldsLock, env>>
      BY DEF SendLow
<1>2. CASE UNCHANGED <<isRunning, sentAges, ack, low>>
  <2>1. TypeOK'
        BY <1>1, <1>2 DEF IInv, TypeOK, ack, timers, env
  <2>2. AgesOK'
        BY <1>1, <1>2, AgesKept DEF IInv, timers
  <2>3. AckOK'
        BY <1>1, <1>2, AckKept DEF IInv, timers, env
  <2> QED BY <1>1, <2>1, <2>2, <2>3 DEF IInv, Starting
<1>3. CASE low > 0 /\ (\E ok \in BOOLEAN : SendI(ok)) /\ low' = low - 1
  <2>1. PICK ok \in BOOLEAN : SendI(ok)
        BY <1>3
  <2>2. /\ AgesOK' /\ AckOK'
        /\ sentAges' \in Seq(Age) /\ Len(sentAges') <= K /\ isRunning' \in BOOLEAN
        /\ timeoutT2Triggered' \in BOOLEAN /\ unconfirmedReceivedIMessages' \in 0..W
        /\ unacked' \in 0..ClientK /\ unackedAge' \in 0..(T2 + 1)
        BY <1>1, <2>1, SendIKeeps DEF timers, env
  <2>3. low' \in 0..MaxLow
        BY <1>3, Types, SMTT(20) DEF IInv
  <2>4. TypeOK'
        BY <1>1, <2>2, <2>3 DEF IInv, TypeOK, Age, timers, env
  <2> QED BY <1>1, <2>2, <2>4 DEF IInv, Starting
<1> QED BY <1>2, <1>3 DEF SendLow

-----------------------------------------------------------------------------
(* The steps of the other threads, and of time. *)
LEMMA AppWritesStep ==
  ASSUME IInv, AppWrites
  PROVE  IInv'
<1>1. /\ pc # "start" /\ ~appHoldsLock /\ ~Full /\ sentAges' = Append(sentAges, 0)
      /\ unacked' = 0 /\ unackedAge' = 0 /\ appHoldsLock' = TRUE
      /\ raced' = (raced \/ ReceivingI)
      /\ UNCHANGED <<pc, isActive, isRunning, unconfirmedReceivedIMessages, timeoutT2Triggered,
                     timers, queues, clientAlive, closeRequested>>
      BY DEF AppWrites, Acknowledged, Alive
<1>2. AgesOK' /\ sentAges' \in Seq(Age) /\ Len(sentAges') <= K
      BY <1>1, AgesStored DEF IInv, timers
<1>3. raced' \in BOOLEAN /\ (~raced' => ~raced /\ pc # "check" /\ pc # "count")
      BY <1>1 DEF ReceivingI
<1>4. TypeOK'
  <2>1. unacked' \in 0..ClientK /\ unackedAge' \in 0..(T2 + 1)
        BY <1>1
  <2>2. appHoldsLock' \in BOOLEAN
        BY <1>1
  <2> QED BY <1>1, <1>2, <1>3, <2>1, <2>2 DEF IInv, TypeOK, Age, timers, queues
<1>5. AckOK'
  <2>1. Bounded'
        BY <1>1 DEF IInv, AckOK, Bounded
  <2>2. UnderLock' /\ T2Runs'
        BY <1>1, <1>3 DEF UnderLock, T2Runs
  <2>3. Exact'
        BY <1>1 DEF Exact
  <2> QED BY <2>1, <2>2, <2>3 DEF AckOK
<1> QED BY <1>1, <1>2, <1>4, <1>5 DEF IInv, Starting

LEMMA AppWriteFailsStep ==
  ASSUME IInv, AppWriteFails
  PROVE  IInv'
<1>1. /\ pc # "start" /\ ~appHoldsLock /\ ~Full /\ sentAges' = Append(sentAges, 0)
      /\ unconfirmedReceivedIMessages' = 0 /\ ~isRunning' /\ isRunning' = FALSE
      /\ UNCHANGED <<unacked, unackedAge, timeoutT2Triggered>>
      /\ raced' = (raced \/ ReceivingI)
      /\ UNCHANGED <<pc, isActive, timers, queues, appHoldsLock, clientAlive, closeRequested>>
      BY DEF AppWriteFails, SendI, Alive
<1>2. AgesOK' /\ sentAges' \in Seq(Age) /\ Len(sentAges') <= K
      BY <1>1, AgesStored DEF IInv, timers
<1>3. raced' \in BOOLEAN /\ (~raced' => ~raced /\ pc # "check" /\ pc # "count")
      BY <1>1 DEF ReceivingI
<1>4. TypeOK'
  <2>1. isRunning' \in BOOLEAN
        BY <1>1
  <2>2. unconfirmedReceivedIMessages' \in 0..W
        BY <1>1
  <2>3. UNCHANGED <<unacked, unackedAge, timeoutT2Triggered, pc, isActive, timers, queues,
                    appHoldsLock, clientAlive, closeRequested>>
        BY <1>1
  <2> QED BY <1>2, <1>3, <2>1, <2>2, <2>3 DEF IInv, TypeOK, Age, timers, queues
<1>5. AckOK'
  <2>1. Bounded'
        BY <1>1 DEF IInv, AckOK, Bounded
  <2>2. UnderLock' /\ T2Runs'
        BY <1>1, <1>3 DEF IInv, AckOK, UnderLock, T2Runs
  <2>3. Exact'
        BY <1>1 DEF Exact
  <2> QED BY <2>1, <2>2, <2>3 DEF AckOK
<1> QED BY <1>1, <1>2, <1>4, <1>5 DEF IInv, Starting

LEMMA AppResetsCounterStep ==
  ASSUME IInv, AppResetsCounter
  PROVE  IInv'
<1>1. /\ appHoldsLock /\ unconfirmedReceivedIMessages' = 0 /\ timeoutT2Triggered' = FALSE
      /\ appHoldsLock' = FALSE /\ raced' = (raced \/ ReceivingI)
      /\ UNCHANGED <<pc, isActive, isRunning, sentAges, unacked, unackedAge, timers, queues,
                     clientAlive, closeRequested>>
      BY DEF AppResetsCounter
<1>2. raced' \in BOOLEAN /\ (~raced' => ~raced /\ pc # "check" /\ pc # "count")
      BY <1>1 DEF ReceivingI
<1>3. TypeOK'
  <2>1. timeoutT2Triggered' \in BOOLEAN /\ appHoldsLock' \in BOOLEAN
        BY <1>1
  <2>2. unconfirmedReceivedIMessages' \in 0..W
        BY <1>1
  <2> QED BY <1>1, <1>2, <2>1, <2>2 DEF IInv, TypeOK, timers, queues
<1>4. AgesOK'
      BY <1>1, AgesKept DEF IInv, timers
<1>5. AckOK'
  <2>1. unacked' = 0
        BY <1>1 DEF IInv, AckOK, UnderLock
  <2>2. Bounded'
        BY <1>1, <2>1 DEF Bounded
  <2>3. UnderLock' /\ T2Runs'
        BY <1>1, <1>2 DEF UnderLock, T2Runs
  <2>4. Exact'
        BY <1>1, <1>2, <2>1 DEF Exact, Counted, Timed
  <2> QED BY <2>2, <2>3, <2>4 DEF AckOK
<1>6. Starting'
      BY <1>1 DEF IInv, Starting
<1> QED BY <1>3, <1>4, <1>5, <1>6 DEF IInv

(* Nothing of this is about what is counted, or how old it is. *)
LEMMA OtherStep ==
  ASSUME IInv,
         UNCHANGED <<pc, sentAges, ack, timers, appHoldsLock, raced>>,
         isActive' \in BOOLEAN, isRunning' \in BOOLEAN, isRunning' => isRunning,
         high' \in 0..MaxHigh, low' \in 0..MaxLow, clientAlive' \in BOOLEAN,
         closeRequested' \in {"no", "early", "late"}
  PROVE  IInv'
<1>1. TypeOK'
      BY DEF IInv, TypeOK, ack, timers
<1>2. AgesOK'
      BY AgesKept DEF IInv, timers
<1>3. Bounded' /\ UnderLock' /\ T2Runs'
      BY DEF IInv, AckOK, Bounded, UnderLock, T2Runs, ack
<1>4. Exact'
      BY DEF IInv, AckOK, Exact, Counted, Timed, ack, timers
<1>5. Starting'
      BY DEF IInv, Starting, ack, timers
<1> QED BY <1>1, <1>2, <1>3, <1>4, <1>5 DEF IInv, AckOK

LEMMA EnvironmentStep ==
  ASSUME IInv, EnqueueEvent \/ OtherActivates \/ Close \/ ClientFallsSilent \/ UNCHANGED vars
  PROVE  IInv'
<1>1. /\ isActive \in BOOLEAN /\ isRunning \in BOOLEAN /\ high \in 0..MaxHigh
      /\ low \in 0..MaxLow /\ clientAlive \in BOOLEAN
      /\ closeRequested \in {"no", "early", "late"}
      BY Types DEF IInv
<1>2. CASE EnqueueEvent
  <2>1. low' \in 0..MaxLow
        BY <1>1, <1>2 DEF EnqueueEvent
  <2> QED BY <1>1, <1>2, <2>1, OtherStep DEF EnqueueEvent, env
<1>3. CASE OtherActivates
      BY <1>1, <1>3, OtherStep DEF OtherActivates, env, queues
<1>4. CASE Close
      BY <1>1, <1>4, OtherStep DEF Close, queues
<1>5. CASE ClientFallsSilent
      BY <1>1, <1>5, OtherStep DEF ClientFallsSilent, queues
<1>6. CASE UNCHANGED vars
      BY <1>1, <1>6, OtherStep DEF vars, queues, env
<1> QED BY <1>2, <1>3, <1>4, <1>5, <1>6

LEMMA TickStep ==
  ASSUME IInv, Tick
  PROVE  IInv'
<1>1. /\ pc = "wait" /\ iterated' = FALSE
      /\ t2Age' = Older(t2Age, T2) /\ t3Age' = Older(t3Age, T3)
      /\ unackedAge' = IF unacked = 0 THEN 0 ELSE Older(unackedAge, T2)
      /\ sentAges' = [i \in DOMAIN sentAges |-> Older(sentAges[i], T1)]
      /\ UNCHANGED <<pc, isActive, isRunning, unconfirmedReceivedIMessages, timeoutT2Triggered,
                     outstandingTestFRConMessages, unacked, queues, appHoldsLock, env>>
      BY DEF Tick
<1>2. /\ t2Age \in 0..(T2 + 1) /\ t3Age \in 0..(T3 + 1) /\ unackedAge \in 0..(T2 + 1)
      /\ sentAges \in Seq(Age) /\ Len(sentAges) <= K /\ Descending(sentAges)
      BY Types DEF IInv, AgesOK
<1>3. t2Age' \in 0..(T2 + 1) /\ t3Age' \in 0..(T3 + 1) /\ unackedAge' \in 0..(T2 + 1)
      BY <1>1, <1>2 DEF Older
<1>4. sentAges' \in Seq(Age) /\ Len(sentAges') <= K /\ Descending(sentAges')
      BY <1>1, <1>2, Aged
<1>5. TypeOK'
      BY <1>1, <1>3, <1>4 DEF IInv, TypeOK, Age, queues, env
<1>6. AgesOK'
      BY <1>1, <1>4 DEF AgesOK
<1>7. AckOK'
  <2>1. Bounded' /\ UnderLock' /\ T2Runs'
        BY <1>1 DEF IInv, AckOK, Bounded, UnderLock, T2Runs, env
  <2>2. ASSUME isRunning, ~raced, ~appHoldsLock PROVE Counted' /\ Timed'
    <3>1. Counted /\ Timed
          BY <2>2 DEF IInv, AckOK, Exact
    <3>2. Counted'
          BY <1>1, <3>1 DEF Counted
    <3>3. unacked > 0 => unackedAge' <= t2Age'
          BY <1>1, <1>2, <3>1 DEF Timed, Older
    <3>4. Timed'
          BY <1>1, <3>1, <3>3 DEF Timed
    <3> QED BY <3>2, <3>4
  <2>3. isRunning' = isRunning /\ raced' = raced /\ appHoldsLock' = appHoldsLock
        BY <1>1 DEF env
  <2> QED BY <2>1, <2>2, <2>3 DEF AckOK, Exact
<1> QED BY <1>1, <1>5, <1>6, <1>7 DEF IInv, Starting

LEMMA NextStep ==
  ASSUME IInv, [Next]_vars
  PROVE  IInv'
BY StartStep, LeaveStep, ReceiveIStep, ReceiveSStep, ReceiveUStep, ReceiveTestFRConStep,
   CheckFailsStep, CheckPassesStep, CountReceivedStep, HandlerReturnsStep, HandlerSendsStep,
   CheckWStep, HandleTimeoutsStep, SendHighStep, SendLowStep, AppWritesStep,
   AppWriteFailsStep, AppResetsCounterStep, EnvironmentStep, TickStep
DEF Next, ConnectionThread

LEMMA Initially == Init => IInv
<1> SUFFICES ASSUME Init PROVE IInv
    OBVIOUS
<1>1. <<>> \in Seq(Age) /\ Len(<<>>) = 0
      OBVIOUS
<1>2. TypeOK
  <2>1. /\ isActive \in BOOLEAN /\ isRunning \in BOOLEAN /\ timeoutT2Triggered \in BOOLEAN
        /\ appHoldsLock \in BOOLEAN /\ iterated \in BOOLEAN /\ clientAlive \in BOOLEAN
        /\ raced \in BOOLEAN
        BY DEF Init
  <2>2. /\ 0 \in 0..W /\ 0 \in 0..ClientK /\ 0 \in 0..(T2 + 1) /\ 0 \in 0..(T3 + 1)
        /\ 0 \in 0..3 /\ 0 \in 0..MaxHigh /\ 0 \in 0..MaxLow /\ 0 <= K
        OBVIOUS
  <2> QED BY <1>1, <2>1, <2>2, Types DEF Init
<1>3. AgesOK
      BY <1>1 DEF Init, AgesOK, Descending, Below
<1>4. AckOK
      BY DEF Init, AckOK, Bounded, UnderLock, T2Runs, Exact
<1> QED BY <1>2, <1>3, <1>4 DEF Init, IInv, Starting

THEOREM Invariance == Spec => []IInv
BY Initially, NextStep, PTL DEF Spec

-----------------------------------------------------------------------------
(* The variables keep their types, and the k-buffer never holds more than k  *)
(* frames (isSentBufferFull before every sendIMessage).                      *)
THEOREM TypeCorrect == Spec => []TypeOK
BY Invariance, PTL DEF IInv

(* unconfirmedReceivedIMessages is the number of received frames that are    *)
(* not acknowledged, unless an application thread has sent while an I frame  *)
(* was received (handleMessage, sendIMessage).                               *)
THEOREM CountCorrect == Spec => []CountsUnconfirmedInOrder
<1>1. IInv => CountsUnconfirmedInOrder
      BY DEF IInv, AckOK, Exact, Counted, CountsUnconfirmedInOrder, CountsUnconfirmed, AtRest
<1> QED BY <1>1, Invariance, PTL

(* No w received frames, and none for t2, wait for their acknowledgement     *)
(* (connectionHandlingThread, handleTimeouts).                               *)
THEOREM AcknowledgedInTime == Spec => []Acknowledges
<1>1. ASSUME IInv PROVE Acknowledges
  <2> SUFFICES ASSUME AtRest, ~raced
               PROVE  unacked < W /\ (iterated /\ unacked > 0 => unackedAge < T2)
      BY DEF Acknowledges
  <2>1. Counted /\ Timed /\ pc = "wait"
        BY <1>1 DEF IInv, AckOK, Exact, AtRest
  <2>2. unconfirmedReceivedIMessages < W
        BY <1>1, <2>1 DEF IInv, AckOK, Bounded
  <2> QED BY <2>1, <2>2 DEF Counted, Timed
<1> QED BY <1>1, Invariance, PTL

(* No frame stays unconfirmed for t1 in a running connection, although only  *)
(* the oldest one is tested (handleTimeouts).                                *)
THEOREM ConfirmationInTime == Spec => []ConfirmedInT1
<1>1. ASSUME IInv PROVE ConfirmedInT1
  <2>1. sentAges \in Seq(Age)
        BY <1>1, Types DEF IInv
  <2>2. DOMAIN sentAges = 1..Len(sentAges)
        BY <2>1, LenProperties
  <2> QED BY <1>1, <2>2 DEF IInv, AgesOK, Below, ConfirmedInT1, AtRest
<1> QED BY <1>1, Invariance, PTL
=============================================================================
