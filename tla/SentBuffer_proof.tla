-------------------------- MODULE SentBuffer_proof --------------------------
(* Proofs about the k-buffer, for every k and every modulus above k: the     *)
(* window of sequence numbers survives the wrap-around of both rings.        *)
EXTENDS SentBuffer, TLAPS

IInv == TypeOK /\ WindowOK

USE SentBufferAssumption DEF Slots, SeqNo

-----------------------------------------------------------------------------
(* Count is the length of the block from the oldest to the newest slot. *)
LEMMA CountFacts ==
  ASSUME TypeOK
  PROVE  /\ Count \in 0..K /\ (Empty <=> Count = 0)
         /\ ~Empty => /\ oldestSentASDU \in Slots /\ newestSentASDU \in Slots
                      /\ newestSentASDU = Up(oldestSentASDU, Count - 1)
                      /\ (Full <=> Count = K)
BY DEF TypeOK, Count, Empty, Full, Up

LEMMA EntryType ==
  ASSUME TypeOK, ~Empty, NEW d \in 0..(K - 1)
  PROVE  /\ Up(oldestSentASDU, d) \in Slots
         /\ SeqNoAt(d) \in SeqNo /\ EntryAt(d).queueIndex \in -1..(K - 1)
<1>1. Up(oldestSentASDU, d) \in Slots
      BY CountFacts DEF Up
<1> QED BY <1>1 DEF TypeOK, EntryAt, SeqNoAt

(* In a running connection the oldest and newest numbers and the one that    *)
(* was confirmed last are fixed by each other.                               *)
LEMMA WindowEnds ==
  ASSUME IInv, isRunning, ~Empty
  PROVE  /\ LastConfirmed \in SeqNo /\ LastConfirmed = oldestValidSeqNo
         /\ Oldest = Plus(LastConfirmed, 1) /\ Oldest \in SeqNo
         /\ Newest = Plus(LastConfirmed, Count) /\ Newest \in SeqNo
         /\ Count \in 1..K
<1>1. Count \in 1..K
      BY CountFacts DEF IInv
<1>2. Oldest \in SeqNo
      BY EntryType DEF IInv, Oldest
<1>3. Oldest = Plus(LastConfirmed, 1) /\ LastConfirmed \in SeqNo
      BY <1>2 DEF LastConfirmed, oldestValidSeqNo, Plus
<1>4. Newest = SeqNoAt(Count - 1)
      BY CountFacts DEF IInv, Newest, SeqNoAt, EntryAt
<1>5. Newest = Plus(LastConfirmed, Count)
  <2>1. PICK d \in 0..(Count - 1) : d = Count - 1 /\ d + 1 = Count
        BY <1>1
  <2>2. SeqNoAt(d) = Plus(LastConfirmed, d + 1)
        BY <2>1 DEF IInv, WindowOK
  <2> QED BY <1>4, <2>1, <2>2
<1>6. Newest \in SeqNo
      BY <1>1, <1>3, <1>5 DEF Plus
<1> QED BY <1>1, <1>2, <1>3, <1>5, <1>6 DEF LastConfirmed

(* The acceptance test knows exactly the numbers of the window. *)
LEMMA AcceptedNumbers ==
  ASSUME IInv, isRunning, NEW n \in SeqNo
  PROVE  SeqNoIsValid(n) <=> \E d \in 0..Count : n = Plus(LastConfirmed, d)
<1>1. CASE Empty
  <2>1. Count = 0 /\ LastConfirmed = sendCount /\ sendCount \in SeqNo
        BY <1>1, CountFacts DEF IInv, TypeOK, LastConfirmed
  <2>2. Plus(LastConfirmed, 0) = sendCount
        BY <2>1 DEF Plus
  <2> QED BY <1>1, <2>1, <2>2 DEF SeqNoIsValid
<1>2. CASE ~Empty
  <2>1. PICK lc \in SeqNo, c \in 1..K : lc = LastConfirmed /\ c = Count
        BY <1>2, WindowEnds
  <2>2. SeqNoIsValid(n) <=>
           \/ Plus(lc, 1) <= Plus(lc, c) /\ Plus(lc, 1) <= n /\ n <= Plus(lc, c)
           \/ Plus(lc, 1) > Plus(lc, c) /\ (Plus(lc, 1) <= n \/ n <= Plus(lc, c))
           \/ n = lc
    <3>1. /\ Oldest = Plus(lc, 1) /\ Newest = Plus(lc, c) /\ oldestValidSeqNo = lc
          /\ Oldest \in SeqNo /\ Newest \in SeqNo
          BY <1>2, <2>1, WindowEnds
    <3> QED BY <1>2, <3>1 DEF SeqNoIsValid, counterOverflowDetected
  <2>3. ASSUME SeqNoIsValid(n) PROVE \E d \in 0..c : n = Plus(lc, d)
    <3>1. PICK d \in SeqNo : d = IF n >= lc THEN n - lc ELSE n - lc + Modulus
      <4>1. (IF n >= lc THEN n - lc ELSE n - lc + Modulus) \in SeqNo
            BY <2>1
      <4> QED BY <4>1
    <3>2. n = Plus(lc, d)
          BY <2>1, <3>1 DEF Plus
    <3>3. d <= c
          BY <2>1, <2>2, <2>3, <3>1 DEF Plus
    <3> QED BY <3>2, <3>3
  <2>4. ASSUME NEW d \in 0..c, n = Plus(lc, d) PROVE SeqNoIsValid(n)
        BY <2>2, <2>4 DEF Plus
  <2> QED BY <2>1, <2>3, <2>4
<1> QED BY <1>1, <1>2

(* The removal loop takes the d oldest frames when the d-th is confirmed. *)
LEMMA RemovedFrames ==
  ASSUME IInv, isRunning, ~Empty, NEW d \in 0..Count
  PROVE  Removed(Plus(LastConfirmed, d)) = d
<1>1. PICK lc \in SeqNo, c \in 1..K : lc = LastConfirmed /\ c = Count
      BY WindowEnds
<1>2. PICK n \in SeqNo : n = Plus(lc, d)
  <2>1. Plus(lc, d) \in SeqNo
        BY <1>1 DEF Plus
  <2> QED BY <2>1
<1>3. /\ Oldest = Plus(lc, 1) /\ Newest = Plus(lc, c) /\ oldestValidSeqNo = lc
      BY <1>1, WindowEnds
<1>4. \A e \in 0..(c - 1) : SeqNoAt(e) = Plus(lc, e + 1)
      BY <1>1 DEF IInv, WindowOK
<1>5. \A e \in 0..(c - 1) : StopsBefore(n, e) <=>
         (Plus(lc, 1) <= Plus(lc, c) /\ n < Plus(lc, e + 1)) \/ n = lc
  <2>1. counterOverflowDetected <=> Plus(lc, 1) > Plus(lc, c)
        BY <1>3 DEF counterOverflowDetected
  <2> QED BY <1>1, <1>3, <1>4, <2>1 DEF StopsBefore, Plus
<1>6. \A e \in 0..(d - 1) : ~StopsBefore(n, e)
      BY <1>1, <1>2, <1>5 DEF Plus
<1>7. \A e \in 0..(c - 1) : SeqNoAt(e) = n <=> e = d - 1
      BY <1>1, <1>2, <1>4 DEF Plus
<1>8. d = 0 => StopsBefore(n, 0)
      BY <1>1, <1>2, <1>5 DEF Plus
<1> DEFINE P(r) == /\ \A e \in 0..(r - 1) : ~StopsBefore(n, e)
                   /\ \A e \in 0..(r - 2) : SeqNoAt(e) # n
                   /\ r = Count \/ StopsBefore(n, r) \/ (r > 0 /\ SeqNoAt(r - 1) = n)
<1>9. P(d)
      BY <1>1, <1>6, <1>7, <1>8
<1>10. ASSUME NEW r \in 0..Count, P(r) PROVE r = d
  <2>1. ~(r < d)
        BY <1>1, <1>6, <1>7, <1>10
  <2>2. ~(r > d)
        BY <1>1, <1>7, <1>8, <1>10
  <2> QED BY <1>1, <2>1, <2>2
<1>11. Removed(n) = d
       BY <1>9, <1>10 DEF Removed
<1> QED BY <1>1, <1>2, <1>11

-----------------------------------------------------------------------------
(* A frame is stored behind the newest one, ... *)
LEMMA SendWithRoom ==
  ASSUME IInv, ~Full, NEW index \in -1..(K - 1), NEW written \in BOOLEAN,
         SendASDU(index, written)
  PROVE  IInv'
<1>1. PICK i \in Slots : i = IF Empty THEN 0 ELSE Up(newestSentASDU, 1)
  <2>1. (IF Empty THEN 0 ELSE Up(newestSentASDU, 1)) \in Slots
        BY CountFacts DEF IInv, Up
  <2> QED BY <2>1
<1>2. /\ ~Full /\ oldestSentASDU' = IF Empty THEN 0 ELSE oldestSentASDU
      /\ newestSentASDU' = i /\ markedAsdus' = markedAsdus
      /\ sendCount' = IF written THEN Plus(sendCount, 1) ELSE sendCount
      /\ sentASDUs' = [sentASDUs EXCEPT ![i] = [seqNo |-> sendCount', queueIndex |-> index]]
      BY <1>1 DEF SendASDU
<1>3. isRunning' \in BOOLEAN /\ (isRunning' => isRunning /\ written)
      BY DEF SendASDU, IInv, TypeOK
<1>4. sendCount \in SeqNo /\ sendCount' \in SeqNo
      BY <1>2 DEF IInv, TypeOK, Plus
<1>5. oldestSentASDU' \in Slots /\ newestSentASDU' \in Slots /\ ~Empty'
  <2>1. oldestSentASDU' = (IF Empty THEN 0 ELSE oldestSentASDU) /\ newestSentASDU' = i
        BY <1>2
  <2>2. oldestSentASDU' \in Slots
    <3>1. CASE Empty
          BY <2>1, <3>1
    <3>2. CASE ~Empty
          BY <2>1, <3>2, CountFacts DEF IInv
    <3> QED BY <3>1, <3>2
  <2>3. oldestSentASDU' # -1
        BY <2>2
  <2> QED BY <1>1, <2>1, <2>2, <2>3 DEF Empty
<1>6. sentASDUs' \in [Slots -> [seqNo : SeqNo, queueIndex : -1..(K - 1)]]
      BY <1>2, <1>4 DEF IInv, TypeOK
<1>7. TypeOK'
      BY <1>2, <1>3, <1>4, <1>5, <1>6 DEF IInv, TypeOK
<1>8. PICK c \in 0..(K - 1) : c = Count /\ Count' = c + 1
  <2>1. CASE Empty
    <3>1. Count = 0 /\ Count' = 1
          BY <1>1, <1>2, <1>5, <2>1 DEF Count
    <3> QED BY <3>1
  <2>2. CASE ~Empty
    <3>1. /\ Count \in 1..(K - 1) /\ oldestSentASDU \in Slots
          /\ newestSentASDU = Up(oldestSentASDU, Count - 1)
          BY <1>2, <2>2, CountFacts DEF IInv
    <3>2. Count' = Count + 1
          BY <1>1, <1>2, <1>5, <2>2, <3>1 DEF Count, Up
    <3> QED BY <3>1, <3>2
  <2> QED BY <2>1, <2>2
<1>9. \A d \in 0..c : Up(oldestSentASDU, d)' \in Slots /\ (Up(oldestSentASDU, d)' = i <=> d = c)
  <2>1. CASE Empty
        BY <1>1, <1>2, <1>8, <2>1, CountFacts DEF IInv, Up
  <2>2. CASE ~Empty
    <3>1. /\ oldestSentASDU \in Slots /\ oldestSentASDU' = oldestSentASDU /\ c \in 1..(K - 1)
          /\ i = Up(Up(oldestSentASDU, c - 1), 1)
          BY <1>1, <1>2, <1>8, <2>2, CountFacts DEF IInv
    <3> QED BY <3>1 DEF Up
  <2> QED BY <2>1, <2>2
<1>10. \A d \in 0..c : SeqNoAt(d)' = IF d = c THEN sendCount' ELSE SeqNoAt(d)
  <2> SUFFICES ASSUME NEW d \in 0..c
               PROVE  SeqNoAt(d)' = IF d = c THEN sendCount' ELSE SeqNoAt(d)
      OBVIOUS
  <2>1. CASE d = c
        BY <1>1, <1>2, <1>9, <2>1 DEF SeqNoAt, EntryAt, IInv, TypeOK
  <2>2. CASE d # c
    <3>1. Up(oldestSentASDU, d)' = Up(oldestSentASDU, d)
          BY <1>2, <1>8, <2>2, CountFacts DEF IInv, Up
    <3> QED BY <1>1, <1>2, <1>9, <2>2, <3>1 DEF SeqNoAt, EntryAt, IInv, TypeOK
  <2> QED BY <2>1, <2>2
<1>11. ASSUME isRunning'
       PROVE  /\ \A d \in 0..c : SeqNoAt(d)' = Plus(LastConfirmed', d + 1)
              /\ sendCount' = Plus(LastConfirmed', c + 1)
  <2>1. PICK lc \in SeqNo : lc = LastConfirmed
    <3>1. LastConfirmed \in SeqNo
          BY <1>3, <1>4, <1>11, WindowEnds DEF LastConfirmed
    <3> QED BY <3>1
  <2>2. /\ \A d \in 0..(c - 1) : SeqNoAt(d) = Plus(lc, d + 1)
        /\ sendCount = Plus(lc, c)
        BY <1>3, <1>8, <1>11, <2>1 DEF IInv, WindowOK
  <2>3. sendCount' = Plus(lc, c + 1)
        BY <1>2, <1>3, <1>8, <1>11, <2>2 DEF Plus
  <2>4. LastConfirmed' = lc
    <3>1. LastConfirmed' = IF Oldest' = 0 THEN Modulus - 1 ELSE Oldest' - 1
          BY <1>5 DEF LastConfirmed, oldestValidSeqNo
    <3>2. Oldest' = Plus(lc, 1)
          BY <1>8, <1>10, <2>2, <2>3 DEF Oldest
    <3> QED BY <3>1, <3>2 DEF Plus
  <2>5. \A d \in 0..c : SeqNoAt(d)' = Plus(lc, d + 1)
        BY <1>8, <1>10, <2>2, <2>3
  <2> QED BY <2>3, <2>4, <2>5
<1>12. WindowOK'
       BY <1>8, <1>11 DEF WindowOK
<1> QED BY <1>7, <1>12 DEF IInv

(* ... or, in a full ring, over the oldest one: it is all the ring holds.    *)
LEMMA SendWithoutRoom ==
  ASSUME IInv, Full, NEW index \in -1..(K - 1), NEW written \in BOOLEAN,
         SendASDU(index, written)
  PROVE  IInv'
<1>1. oldestSentASDU \in Slots /\ ~Empty /\ Up(newestSentASDU, 1) = oldestSentASDU
      BY CountFacts DEF IInv, Full
<1>2. /\ oldestSentASDU' = oldestSentASDU /\ newestSentASDU' = oldestSentASDU
      /\ markedAsdus' = markedAsdus
      /\ sendCount' = IF written THEN Plus(sendCount, 1) ELSE sendCount
      /\ isRunning' = (isRunning /\ written)
      /\ sentASDUs' = [sentASDUs EXCEPT ![oldestSentASDU] =
                         [seqNo |-> sendCount', queueIndex |-> index]]
      BY <1>1 DEF SendASDU
<1>3. sendCount' \in SeqNo
      BY <1>2 DEF IInv, TypeOK, Plus
<1>4. TypeOK' /\ ~Empty'
      BY <1>1, <1>2, <1>3 DEF IInv, TypeOK, Empty
<1>5. Count' = 1
      BY <1>1, <1>2, <1>4 DEF Count
<1>6. Oldest' = sendCount' /\ SeqNoAt(0)' = sendCount'
  <2>1. Up(oldestSentASDU, 0)' = oldestSentASDU
        BY <1>1, <1>2 DEF Up
  <2> QED BY <1>1, <1>2, <2>1 DEF Oldest, SeqNoAt, EntryAt, IInv, TypeOK
<1>7. PICK n \in SeqNo : n = sendCount'
      BY <1>3
<1>8. PICK lc \in SeqNo : lc = IF n = 0 THEN Modulus - 1 ELSE n - 1
      OBVIOUS
<1>9. LastConfirmed' = lc
  <2>1. Oldest' = n
        BY <1>6, <1>7
  <2>2. oldestValidSeqNo' = lc
        BY <1>8, <2>1 DEF oldestValidSeqNo
  <2> QED BY <1>4, <2>2 DEF LastConfirmed
<1>10. Plus(lc, 1) = n
       BY <1>8 DEF Plus
<1>11. WindowOK'
  <2>1. \A d \in 0..(Count' - 1) : SeqNoAt(d)' = Plus(LastConfirmed', d + 1)
        BY <1>5, <1>6, <1>7, <1>9, <1>10
  <2>2. sendCount' = Plus(LastConfirmed', Count')
        BY <1>5, <1>7, <1>9, <1>10
  <2> QED BY <2>1, <2>2 DEF WindowOK
<1> QED BY <1>4, <1>11 DEF IInv

LEMMA SendStep ==
  ASSUME IInv, NEW index \in -1..(K - 1), NEW written \in BOOLEAN, SendASDU(index, written)
  PROVE  IInv'
BY SendWithRoom, SendWithoutRoom

LEMMA LastConfirmedType == IInv /\ isRunning => LastConfirmed \in SeqNo
BY WindowEnds DEF LastConfirmed, IInv, TypeOK

(* A frame that was written extends the window by one number. *)
LEMMA SendExtends ==
  ASSUME IInv, isRunning, ~Full, NEW index \in -1..(K - 1), SendASDU(index, TRUE)
  PROVE  /\ isRunning' /\ Count' = Count + 1 /\ Count \in 0..(K - 1)
         /\ LastConfirmed' = LastConfirmed /\ sendCount' = Plus(sendCount, 1)
<1>1. IInv'
      BY SendStep
<1>2. /\ isRunning' /\ sendCount' = Plus(sendCount, 1) /\ ~Full
      /\ oldestSentASDU' = IF Empty THEN 0 ELSE oldestSentASDU
      /\ newestSentASDU' = IF Empty THEN 0 ELSE Up(newestSentASDU, 1)
      BY DEF SendASDU
<1>3. Count' = Count + 1 /\ Count \in 0..(K - 1)
  <2>1. CASE Empty
    <3>1. Count = 0
          BY <2>1, CountFacts DEF IInv
    <3>2. Count' = 1
          BY <1>2, <2>1 DEF Count, Empty
    <3> QED BY <3>1, <3>2
  <2>2. CASE ~Empty
    <3>1. /\ Count \in 1..(K - 1) /\ oldestSentASDU \in Slots
          /\ newestSentASDU = Up(oldestSentASDU, Count - 1)
          BY <1>2, <2>2, CountFacts DEF IInv
    <3>2. ~Empty' /\ oldestSentASDU' = oldestSentASDU /\ newestSentASDU' = Up(newestSentASDU, 1)
          BY <1>2, <2>2, <3>1 DEF Empty
    <3>3. Count' = Count + 1
          BY <3>1, <3>2 DEF Count, Up
    <3> QED BY <3>1, <3>3
  <2> QED BY <2>1, <2>2
<1>4. PICK c \in 0..(K - 1) : c = Count
      BY <1>3
<1>5. PICK lc \in SeqNo : lc = LastConfirmed
  <2>1. LastConfirmed \in SeqNo
        BY LastConfirmedType
  <2> QED BY <2>1
<1>6. PICK lcp \in SeqNo : lcp = LastConfirmed'
  <2>1. (IInv /\ isRunning => LastConfirmed \in SeqNo)'
        BY LastConfirmedType, PTL
  <2> QED BY <1>1, <1>2, <2>1
<1>7. sendCount = Plus(lc, c) /\ sendCount' = Plus(lcp, c + 1)
      BY <1>1, <1>2, <1>3, <1>4, <1>5, <1>6 DEF IInv, WindowOK
<1>8. lcp = lc
      BY <1>2, <1>7 DEF Plus
<1> QED BY <1>2, <1>3, <1>5, <1>6, <1>8

(* An accepted number: what the buffer holds afterwards. *)
LEMMA CheckKeepsRest ==
  ASSUME IInv, isRunning, NEW n \in SeqNo, SeqNoIsValid(n), CheckSequenceNumber(n)
  PROVE  \E d \in 0..Count :
           /\ n = Plus(LastConfirmed, d)
           /\ LastConfirmed' = n
           /\ Count' = Count - d
           /\ \A e \in 0..(Count - d - 1) : EntryAt(e)' = EntryAt(e + d)
           /\ markedAsdus' = {EntryAt(e).queueIndex : e \in 0..(d - 1)} \ {-1}
           /\ TypeOK' /\ WindowOK'
<1>1. PICK d \in 0..Count : n = Plus(LastConfirmed, d)
      BY AcceptedNumbers
<1>2. PICK c \in 0..K : c = Count
      BY CountFacts DEF IInv
<1>3. PICK lc \in SeqNo : lc = LastConfirmed
  <2>1. LastConfirmed \in SeqNo
        BY WindowEnds DEF LastConfirmed, IInv, TypeOK
  <2> QED BY <2>1
<1>4. (IF Empty THEN 0 ELSE Removed(n)) = d
      BY <1>1, RemovedFrames, CountFacts DEF IInv
<1>5. /\ oldestSentASDU' = IF d = c THEN -1 ELSE Up(oldestSentASDU, d)
      /\ markedAsdus' = {EntryAt(e).queueIndex : e \in 0..(d - 1)} \ {-1}
      /\ UNCHANGED <<sentASDUs, newestSentASDU, sendCount, isRunning>>
      BY <1>2, <1>4 DEF CheckSequenceNumber
<1>6. markedAsdus' \subseteq Slots
  <2> SUFFICES ASSUME NEW e \in 0..(d - 1)
               PROVE  EntryAt(e).queueIndex \in -1..(K - 1)
      BY <1>5
  <2> QED BY <1>2, CountFacts, EntryType DEF IInv
<1>7. CASE d = c
  <2>1. Empty' /\ Count' = 0
        BY <1>5, <1>7 DEF Empty, Count
  <2>2. LastConfirmed' = n
    <3>1. sendCount = Plus(lc, c)
          BY <1>2, <1>3 DEF IInv, WindowOK
    <3> QED BY <1>1, <1>3, <1>5, <1>7, <2>1, <3>1 DEF LastConfirmed
  <2>3. TypeOK'
        BY <1>5, <1>6, <1>7, <2>1 DEF IInv, TypeOK
  <2>4. sendCount' \in SeqNo /\ LastConfirmed' = sendCount'
        BY <2>1, <2>3 DEF TypeOK, LastConfirmed
  <2>5. WindowOK'
    <3>1. sendCount' = Plus(LastConfirmed', Count')
      <4>1. \A x \in SeqNo : x = Plus(x, 0)
            BY DEF Plus
      <4> QED BY <2>1, <2>4, <4>1
    <3>2. ~ \E e \in 0..(Count' - 1) : TRUE
          BY <2>1
    <3> QED BY <3>1, <3>2 DEF WindowOK
  <2> QED BY <1>1, <1>2, <1>5, <1>7, <2>1, <2>2, <2>3, <2>5
<1>8. CASE d # c
  <2>1. /\ c \in 1..K /\ d < c /\ oldestSentASDU \in Slots /\ ~Empty
        /\ newestSentASDU = Up(oldestSentASDU, c - 1)
        BY <1>2, <1>8, CountFacts DEF IInv
  <2>2. oldestSentASDU' = Up(oldestSentASDU, d) /\ oldestSentASDU' \in Slots /\ ~Empty'
        BY <1>5, <1>8, <2>1 DEF Up, Empty
  <2>3. Count' = c - d
        BY <1>5, <2>1, <2>2 DEF Count, Up
  <2>4. \A e \in 0..(c - d - 1) : EntryAt(e)' = EntryAt(e + d)
    <3>1. \A e \in 0..(c - d - 1) : Up(oldestSentASDU, e)' = Up(oldestSentASDU, e + d)
          BY <2>1, <2>2 DEF Up
    <3> QED BY <1>5, <3>1 DEF EntryAt
  <2>5. \A e \in 0..(c - 1) : SeqNoAt(e) = Plus(lc, e + 1)
        BY <1>2, <1>3 DEF IInv, WindowOK
  <2>6. \A e \in 0..(c - d - 1) : SeqNoAt(e)' = Plus(lc, e + d + 1)
    <3> SUFFICES ASSUME NEW e \in 0..(c - d - 1)
                 PROVE  SeqNoAt(e)' = Plus(lc, e + d + 1)
        OBVIOUS
    <3>1. SeqNoAt(e)' = SeqNoAt(e + d)
          BY <2>4 DEF SeqNoAt
    <3>2. e + d \in 0..(c - 1)
          BY <2>1
    <3> QED BY <2>5, <3>1, <3>2
  <2>7. LastConfirmed' = n
    <3>1. LastConfirmed' = IF Oldest' = 0 THEN Modulus - 1 ELSE Oldest' - 1
          BY <2>2 DEF LastConfirmed, oldestValidSeqNo
    <3>2. Oldest' = Plus(lc, d + 1)
          BY <2>1, <2>6 DEF Oldest
    <3>3. n = Plus(lc, d)
          BY <1>1, <1>3
    <3> QED BY <2>1, <3>1, <3>2, <3>3 DEF Plus
  <2>8. TypeOK'
    <3>1. UNCHANGED <<sentASDUs, newestSentASDU, sendCount, isRunning>>
          BY <1>5
    <3>2. /\ sentASDUs \in [Slots -> [seqNo : SeqNo, queueIndex : -1..(K - 1)]]
          /\ newestSentASDU \in -1..(K - 1) /\ newestSentASDU \in Slots
          /\ sendCount \in SeqNo /\ isRunning \in BOOLEAN
          BY <2>1 DEF IInv, TypeOK
    <3>3. oldestSentASDU' \in -1..(K - 1)
          BY <2>2
    <3> QED BY <1>6, <3>1, <3>2, <3>3 DEF TypeOK
  <2>9. WindowOK'
    <3>1. n = Plus(lc, d) /\ sendCount' = Plus(lc, c)
          BY <1>1, <1>2, <1>3, <1>5 DEF IInv, WindowOK
    <3>2. \A e \in 0..(c - d - 1) : Plus(lc, e + d + 1) = Plus(n, e + 1)
          BY <2>1, <3>1 DEF Plus
    <3>3. Plus(lc, c) = Plus(n, c - d)
          BY <2>1, <3>1 DEF Plus
    <3> QED BY <2>1, <2>3, <2>6, <2>7, <3>1, <3>2, <3>3 DEF WindowOK
  <2> QED BY <1>1, <1>2, <1>5, <2>3, <2>4, <2>7, <2>8, <2>9
<1> QED BY <1>2, <1>7, <1>8

LEMMA CheckStep ==
  ASSUME IInv, isRunning, NEW n \in SeqNo, CheckSequenceNumber(n)
  PROVE  IInv'
<1>1. CASE SeqNoIsValid(n)
      BY <1>1, CheckKeepsRest DEF IInv
<1>2. CASE ~SeqNoIsValid(n)
      BY <1>2 DEF CheckSequenceNumber, IInv, TypeOK, WindowOK, Empty
<1> QED BY <1>1, <1>2

LEMMA NextStep ==
  ASSUME IInv, [Next]_vars
  PROVE  IInv'
<1>1. CASE UNCHANGED vars
      BY <1>1 DEF vars, IInv, TypeOK, WindowOK, Count, Empty, SeqNoAt, EntryAt, Up,
                  LastConfirmed, oldestValidSeqNo, Oldest
<1>2. CASE Send
  <2>1. (IF Empty THEN 0 ELSE Up(newestSentASDU, 1)) \in Slots
        BY CountFacts DEF IInv, Up
  <2> QED BY <1>2, <2>1, SendStep DEF Send
<1> QED BY <1>1, <1>2, CheckStep DEF Next

(* The inductive invariant holds in every reachable state. *)
THEOREM Invariance == Spec => []IInv
<1>1. Init => IInv
      BY DEF Init, IInv, TypeOK, WindowOK, Count, Empty, LastConfirmed, Plus
<1> QED BY <1>1, NextStep, PTL DEF Spec

(* While the connection runs, its unconfirmed frames carry consecutive       *)
(* numbers up to sendCount: for every k, modulus and position of the window. *)
THEOREM WindowCorrect == Spec => [](TypeOK /\ WindowOK)
BY Invariance, PTL DEF IInv

(* checkSequenceNumber accepts exactly the numbers of the window.            *)
THEOREM AcceptanceCorrect == Spec => []AcceptsExactlyWindow
<1>1. IInv => AcceptsExactlyWindow
      BY AcceptedNumbers DEF AcceptsExactlyWindow
<1> QED BY <1>1, Invariance, PTL

(* An accepted number removes exactly the frames it confirms.                *)
THEOREM RemovalCorrect == Spec => RemovesExactlyConfirmed
<1>1. IInv => [UNCHANGED vars \/ \A n \in SeqNo :
                 isRunning /\ SeqNoIsValid(n) /\ CheckSequenceNumber(n) =>
                 \E d \in 0..Count :
                   /\ n = Plus(LastConfirmed, d)
                   /\ LastConfirmed' = n
                   /\ Count' = Count - d
                   /\ \A e \in 0..(Count - d - 1) : EntryAt(e)' = EntryAt(e + d)
                   /\ markedAsdus' = {EntryAt(e).queueIndex : e \in 0..(d - 1)} \ {-1}]_vars
      BY CheckKeepsRest
<1> QED BY <1>1, Invariance, PTL DEF RemovesExactlyConfirmed
=============================================================================
