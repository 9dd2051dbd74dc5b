------------------------------ MODULE Link_proof -----------------------------
(* Proofs about a connection between two ends of the library, for any k, w   *)
(* and modulus at either end and streams of any length: the ends agree, and  *)
(* neither refuses what the other sends.                                     *)
EXTENDS Link, SentBuffer_proof, SequenceTheorems

CP == INSTANCE SentBuffer_proof WITH
  K <- ClientK, sentASDUs <- clientSentASDUs, oldestSentASDU <- clientOldest,
  newestSentASDU <- clientNewest, sendCount <- clientSendCount,
  isRunning <- loopRunning, markedAsdus <- {}

USE SentBufferAssumption, LinkAssumption DEF Slots, SeqNo, Ends

-----------------------------------------------------------------------------
(* Numbers, counted from one of them. *)
LEMMA PlusType ==
  ASSUME NEW l \in SeqNo, NEW d \in 0..Modulus
  PROVE  Plus(l, d) \in SeqNo
BY DEF Plus

LEMMA DistanceType ==
  ASSUME NEW l \in SeqNo, NEW n \in SeqNo
  PROVE  Distance(l, n) \in SeqNo /\ Plus(l, Distance(l, n)) = n
BY DEF Plus, Distance

LEMMA DistancePlus ==
  ASSUME NEW l \in SeqNo, NEW d \in SeqNo
  PROVE  Distance(l, Plus(l, d)) = d
BY DEF Plus, Distance

(* Counting from a later number. *)
LEMMA DistanceShift ==
  ASSUME NEW l \in SeqNo, NEW d \in SeqNo, NEW n \in SeqNo, d <= Distance(l, n)
  PROVE  Distance(Plus(l, d), n) = Distance(l, n) - d
BY DEF Plus, Distance

LEMMA PlusPlus ==
  ASSUME NEW l \in SeqNo, NEW d \in SeqNo, NEW e \in SeqNo, d + e < Modulus
  PROVE  Plus(Plus(l, d), e) = Plus(l, d + e)
BY DEF Plus

-----------------------------------------------------------------------------
(* What a stream carries: its I frames have the numbers l + lo to l + hi - 1 *)
(* in order, and the N(R) of its frames go from l to l + r at most.          *)
Frame == [kind : {"I", "S"}, ns : SeqNo, nr : SeqNo]

Carries(l, lo, hi, s) ==
  /\ \A i, j \in 1..Len(s) :
       /\ i < j
       /\ s[i].kind = "I"
       /\ s[j].kind = "I"
       => Distance(l, s[i].ns) < Distance(l, s[j].ns)
  /\ \A i \in 1..Len(s) : s[i].kind = "I" => Distance(l, s[i].ns) \in lo..(hi - 1)
  /\ \A y \in lo..(hi - 1) : \E i \in 1..Len(s) : s[i].kind = "I" /\ Distance(l, s[i].ns) = y

Confirms(l, r, s) ==
  /\ \A i \in 1..Len(s) : Distance(l, s[i].nr) <= r
  /\ \A i, j \in 1..Len(s) : i < j => Distance(l, s[i].nr) <= Distance(l, s[j].nr)

LEMMA Appended ==
  ASSUME NEW s \in Seq(Frame), NEW f \in Frame
  PROVE  /\ Append(s, f) \in Seq(Frame) /\ Len(Append(s, f)) = Len(s) + 1 /\ Len(s) \in Nat
         /\ \A i \in 1..(Len(s) + 1) : Append(s, f)[i] = IF i <= Len(s) THEN s[i] ELSE f
         /\ \A i \in 1..Len(s) : s[i] \in Frame
<1>1. \A i \in 1..Len(s) : s[i] \in Frame
      BY ElementOfSeq
<1> QED BY <1>1, AppendProperties, LenProperties

LEMMA Taken ==
  ASSUME NEW s \in Seq(Frame), s # <<>>
  PROVE  /\ Tail(s) \in Seq(Frame) /\ Len(Tail(s)) = Len(s) - 1 /\ Len(s) \in Nat \ {0}
         /\ Head(s) = s[1]
         /\ \A i \in 1..(Len(s) - 1) : Tail(s)[i] = s[i + 1]
         /\ \A i \in 1..Len(s) : s[i] \in Frame
<1>1. \A i \in 1..Len(s) : s[i] \in Frame
      BY ElementOfSeq
<1>2. Len(s) \in Nat \ {0}
      BY LenProperties, EmptySeq
<1> QED BY <1>1, <1>2, HeadTailProperties

LEMMA CarriesNext ==
  ASSUME NEW s \in Seq(Frame), NEW f \in Frame, NEW l \in SeqNo, NEW lo \in Nat, NEW hi \in SeqNo,
         lo <= hi, Carries(l, lo, hi, s), f.kind = "I", f.ns = Plus(l, hi)
  PROVE  Carries(l, lo, hi + 1, Append(s, f))
<1> DEFINE t == Append(s, f)
<1>1. /\ Len(t) = Len(s) + 1 /\ Len(s) \in Nat
      /\ \A i \in 1..(Len(s) + 1) : t[i] = IF i <= Len(s) THEN s[i] ELSE f
      BY Appended
<1>2. Distance(l, f.ns) = hi
      BY DistancePlus
<1> HIDE DEF t
<1>3. ASSUME NEW i \in 1..Len(t), NEW j \in 1..Len(t), i < j, t[i].kind = "I", t[j].kind = "I"
      PROVE  Distance(l, t[i].ns) < Distance(l, t[j].ns)
  <2>1. i \in 1..Len(s) /\ t[i] = s[i]
        BY <1>1, <1>3
  <2>2. CASE j \in 1..Len(s)
        BY <1>1, <1>3, <2>1, <2>2, SMTT(40) DEF Carries
  <2>3. CASE j = Len(s) + 1
    <3>1. Distance(l, t[i].ns) \in lo..(hi - 1)
          BY <1>3, <2>1 DEF Carries
    <3> QED BY <1>1, <1>2, <2>3, <3>1
  <2> QED BY <1>1, <2>2, <2>3
<1>4. ASSUME NEW i \in 1..Len(t), t[i].kind = "I"
      PROVE  Distance(l, t[i].ns) \in lo..hi
  <2>1. CASE i \in 1..Len(s)
        BY <1>1, <1>4, <2>1 DEF Carries
  <2>2. CASE i = Len(s) + 1
        BY <1>1, <1>2, <2>2
  <2> QED BY <1>1, <2>1, <2>2
<1>5. ASSUME NEW y \in lo..hi
      PROVE  \E i \in 1..Len(t) : t[i].kind = "I" /\ Distance(l, t[i].ns) = y
  <2>1. CASE y = hi
        BY <1>1, <1>2, <2>1
  <2>2. CASE y # hi
    <3>1. PICK i \in 1..Len(s) : s[i].kind = "I" /\ Distance(l, s[i].ns) = y
          BY <1>5, <2>2 DEF Carries
    <3> QED BY <1>1, <3>1
  <2> QED BY <2>1, <2>2
<1>6. Carries(l, lo, hi + 1, t)
      BY <1>3, <1>4, <1>5 DEF Carries
<1> QED BY <1>6 DEF t

LEMMA CarriesSame ==
  ASSUME NEW s \in Seq(Frame), NEW f \in Frame, NEW l \in SeqNo, NEW lo \in Nat, NEW hi \in Nat,
         Carries(l, lo, hi, s), f.kind = "S"
  PROVE  Carries(l, lo, hi, Append(s, f))
<1> DEFINE t == Append(s, f)
<1>1. /\ Len(t) = Len(s) + 1 /\ Len(s) \in Nat
      /\ \A i \in 1..(Len(s) + 1) : t[i] = IF i <= Len(s) THEN s[i] ELSE f
      BY Appended
<1> HIDE DEF t
<1>2. ASSUME NEW i \in 1..Len(t), t[i].kind = "I"
      PROVE  i \in 1..Len(s) /\ t[i] = s[i]
      BY <1>1, <1>2
<1>3. \A i \in 1..Len(s) : i \in 1..Len(t) /\ t[i] = s[i]
      BY <1>1
<1>4. Carries(l, lo, hi, t)
      BY <1>2, <1>3 DEF Carries
<1> QED BY <1>4 DEF t

(* The first I frame has the lowest number. *)
LEMMA CarriesRest ==
  ASSUME NEW s \in Seq(Frame), s # <<>>, NEW l \in SeqNo, NEW lo \in Nat, NEW hi \in Nat,
         Carries(l, lo, hi, s), Head(s).kind = "I"
  PROVE  /\ lo < hi /\ Distance(l, Head(s).ns) = lo
         /\ Carries(l, lo + 1, hi, Tail(s))
<1> DEFINE t == Tail(s)
<1>1. /\ Len(t) = Len(s) - 1 /\ Len(s) \in Nat \ {0} /\ Head(s) = s[1]
      /\ \A i \in 1..(Len(s) - 1) : t[i] = s[i + 1]
      BY Taken
<1> HIDE DEF t
<1>2. Distance(l, s[1].ns) \in lo..(hi - 1) /\ 1 \in 1..Len(s) /\ s[1].kind = "I"
      BY <1>1 DEF Carries
<1>3. lo < hi
      BY <1>2
<1>4. PICK k \in 1..Len(s) : s[k].kind = "I" /\ Distance(l, s[k].ns) = lo
      BY <1>3 DEF Carries
<1>5. Distance(l, s[1].ns) = lo
  <2>1. CASE k = 1
        BY <1>4, <2>1
  <2>2. CASE k # 1
    <3>1. Distance(l, s[1].ns) < Distance(l, s[k].ns)
          BY <1>1, <1>2, <1>4, <2>2 DEF Carries
    <3> QED BY <1>2, <1>4, <3>1
  <2> QED BY <2>1, <2>2
<1>6. \A i \in 1..Len(t) : i + 1 \in 1..Len(s) /\ 1 < i + 1 /\ t[i] = s[i + 1]
      BY <1>1
<1>7. ASSUME NEW i \in 1..Len(t), t[i].kind = "I"
      PROVE  Distance(l, t[i].ns) \in (lo + 1)..(hi - 1)
  <2>1. i + 1 \in 1..Len(s) /\ 1 < i + 1 /\ t[i] = s[i + 1]
        BY <1>6
  <2>2. /\ Distance(l, s[1].ns) < Distance(l, s[i + 1].ns)
        /\ Distance(l, s[i + 1].ns) \in lo..(hi - 1)
        BY <1>2, <1>7, <2>1 DEF Carries
  <2> QED BY <1>5, <2>1, <2>2
<1>8. ASSUME NEW y \in (lo + 1)..(hi - 1)
      PROVE  \E i \in 1..Len(t) : t[i].kind = "I" /\ Distance(l, t[i].ns) = y
  <2>1. PICK i \in 1..Len(s) : s[i].kind = "I" /\ Distance(l, s[i].ns) = y
        BY <1>8 DEF Carries
  <2>2. i # 1
        BY <1>5, <1>8, <2>1
  <2>3. i - 1 \in 1..Len(t) /\ t[i - 1] = s[i]
        BY <1>1, <2>2
  <2> QED BY <2>1, <2>3
<1>9. ASSUME NEW i \in 1..Len(t), NEW j \in 1..Len(t), i < j, t[i].kind = "I", t[j].kind = "I"
      PROVE  Distance(l, t[i].ns) < Distance(l, t[j].ns)
  <2>1. /\ i + 1 \in 1..Len(s) /\ t[i] = s[i + 1]
        /\ j + 1 \in 1..Len(s) /\ t[j] = s[j + 1]
        BY <1>6
  <2>2. i + 1 < j + 1 /\ s[i + 1].kind = "I" /\ s[j + 1].kind = "I"
        BY <1>1, <1>9, <2>1
  <2>3. Distance(l, s[i + 1].ns) < Distance(l, s[j + 1].ns)
        BY <2>1, <2>2 DEF Carries
  <2> QED BY <2>1, <2>3
<1>10. Carries(l, lo + 1, hi, t)
       BY <1>7, <1>8, <1>9 DEF Carries
<1> QED BY <1>1, <1>3, <1>5, <1>10 DEF t

LEMMA CarriesRestS ==
  ASSUME NEW s \in Seq(Frame), s # <<>>, NEW l \in SeqNo, NEW lo \in Nat, NEW hi \in Nat,
         Carries(l, lo, hi, s), Head(s).kind = "S"
  PROVE  Carries(l, lo, hi, Tail(s))
<1> DEFINE t == Tail(s)
<1>1. /\ Len(t) = Len(s) - 1 /\ Len(s) \in Nat \ {0} /\ Head(s) = s[1]
      /\ \A i \in 1..(Len(s) - 1) : t[i] = s[i + 1]
      BY Taken
<1> HIDE DEF t
<1>2. \A i \in 1..Len(t) : i + 1 \in 1..Len(s) /\ t[i] = s[i + 1]
      BY <1>1
<1>3. ASSUME NEW i \in 1..Len(s), s[i].kind = "I"
      PROVE  i - 1 \in 1..Len(t) /\ t[i - 1] = s[i]
      BY <1>1, <1>3
<1>4. ASSUME NEW i \in 1..Len(t), NEW j \in 1..Len(t), i < j, t[i].kind = "I", t[j].kind = "I"
      PROVE  Distance(l, t[i].ns) < Distance(l, t[j].ns)
  <2>1. /\ i + 1 \in 1..Len(s) /\ t[i] = s[i + 1]
        /\ j + 1 \in 1..Len(s) /\ t[j] = s[j + 1]
        BY <1>2
  <2>2. i + 1 < j + 1 /\ s[i + 1].kind = "I" /\ s[j + 1].kind = "I"
        BY <1>1, <1>4, <2>1
  <2>3. Distance(l, s[i + 1].ns) < Distance(l, s[j + 1].ns)
        BY <2>1, <2>2 DEF Carries
  <2> QED BY <2>1, <2>3
<1>5. ASSUME NEW i \in 1..Len(t), t[i].kind = "I"
      PROVE  Distance(l, t[i].ns) \in lo..(hi - 1)
      BY <1>2, <1>5 DEF Carries
<1>6. ASSUME NEW y \in lo..(hi - 1)
      PROVE  \E i \in 1..Len(t) : t[i].kind = "I" /\ Distance(l, t[i].ns) = y
      BY <1>3, <1>6 DEF Carries
<1>7. Carries(l, lo, hi, t)
      BY <1>4, <1>5, <1>6 DEF Carries
<1> QED BY <1>7 DEF t

(* Counted from a later number that no frame lies before. *)
LEMMA CarriesShift ==
  ASSUME NEW s \in Seq(Frame), NEW l \in SeqNo, NEW lo \in Nat, NEW hi \in SeqNo,
         NEW d \in 0..lo, lo <= hi, Carries(l, lo, hi, s)
  PROVE  Carries(Plus(l, d), lo - d, hi - d, s)
<1>1. \A i \in 1..Len(s) : s[i] \in Frame
      BY ElementOfSeq
<1>2. d \in SeqNo
      OBVIOUS
<1>3. ASSUME NEW i \in 1..Len(s), s[i].kind = "I"
      PROVE  /\ Distance(l, s[i].ns) \in lo..(hi - 1)
             /\ Distance(Plus(l, d), s[i].ns) = Distance(l, s[i].ns) - d
  <2>1. s[i].ns \in SeqNo
        BY <1>1 DEF Frame
  <2>2. Distance(l, s[i].ns) \in lo..(hi - 1)
        BY <1>3 DEF Carries
  <2> QED BY <1>2, <2>1, <2>2, DistanceShift
<1>4. ASSUME NEW y \in (lo - d)..(hi - d - 1)
      PROVE  \E i \in 1..Len(s) : s[i].kind = "I" /\ Distance(Plus(l, d), s[i].ns) = y
  <2>1. PICK i \in 1..Len(s) : s[i].kind = "I" /\ Distance(l, s[i].ns) = y + d
    <3>1. y + d \in lo..(hi - 1)
          BY <1>4
    <3> QED BY <3>1 DEF Carries
  <2> QED BY <1>3, <1>4, <2>1
<1>5. ASSUME NEW i \in 1..Len(s), NEW j \in 1..Len(s), i < j, s[i].kind = "I", s[j].kind = "I"
      PROVE  Distance(Plus(l, d), s[i].ns) < Distance(Plus(l, d), s[j].ns)
  <2>1. Distance(l, s[i].ns) < Distance(l, s[j].ns)
        BY <1>5 DEF Carries
  <2> QED BY <1>3, <1>5, <2>1
<1>6. ASSUME NEW i \in 1..Len(s), s[i].kind = "I"
      PROVE  Distance(Plus(l, d), s[i].ns) \in (lo - d)..(hi - d - 1)
  <2>1. PICK y \in lo..(hi - 1) : y = Distance(l, s[i].ns)
        BY <1>3, <1>6
  <2>2. Distance(Plus(l, d), s[i].ns) = y - d
        BY <1>3, <1>6, <2>1
  <2> QED BY <2>2
<1> DEFINE p == Plus(l, d)
           a == lo - d
           b == hi - d
<1>7. /\ \A i \in 1..Len(s) : s[i].kind = "I" => Distance(p, s[i].ns) \in a..(b - 1)
      /\ \A y \in a..(b - 1) : \E i \in 1..Len(s) : s[i].kind = "I" /\ Distance(p, s[i].ns) = y
      BY <1>4, <1>6
<1>8. \A i, j \in 1..Len(s) : i < j /\ s[i].kind = "I" /\ s[j].kind = "I"
                             => Distance(p, s[i].ns) < Distance(p, s[j].ns)
      BY <1>5
<1> HIDE DEF p, a, b
<1>9. Carries(p, a, b, s)
      BY <1>7, <1>8 DEF Carries
<1> QED BY <1>9 DEF p, a, b

LEMMA ConfirmsNext ==
  ASSUME NEW s \in Seq(Frame), NEW f \in Frame, NEW l \in SeqNo, NEW r \in SeqNo,
         Confirms(l, r, s), f.nr = Plus(l, r)
  PROVE  Confirms(l, r, Append(s, f))
<1> DEFINE t == Append(s, f)
<1>1. /\ Len(t) = Len(s) + 1 /\ Len(s) \in Nat
      /\ \A i \in 1..(Len(s) + 1) : t[i] = IF i <= Len(s) THEN s[i] ELSE f
      BY Appended
<1>2. Distance(l, f.nr) = r
      BY DistancePlus
<1> HIDE DEF t
<1>3. ASSUME NEW i \in 1..Len(t)
      PROVE  Distance(l, t[i].nr) <= r
      BY <1>1, <1>2, <1>3 DEF Confirms
<1>4. ASSUME NEW i \in 1..Len(t), NEW j \in 1..Len(t), i < j
      PROVE  Distance(l, t[i].nr) <= Distance(l, t[j].nr)
  <2>1. i \in 1..Len(s) /\ t[i] = s[i]
        BY <1>1, <1>4
  <2>2. CASE j \in 1..Len(s)
        BY <1>1, <1>4, <2>1, <2>2 DEF Confirms
  <2>3. CASE j = Len(s) + 1
        BY <1>1, <1>2, <1>3, <2>3
  <2> QED BY <1>1, <2>2, <2>3
<1>5. Confirms(l, r, t)
      BY <1>3, <1>4 DEF Confirms
<1> QED BY <1>5 DEF t

(* The first frame confirms d frames: the later ones confirm them, too. *)
LEMMA ConfirmsRest ==
  ASSUME NEW s \in Seq(Frame), s # <<>>, NEW l \in SeqNo, NEW r \in SeqNo, Confirms(l, r, s)
  PROVE  \E d \in 0..r : /\ Head(s).nr = Plus(l, d)
                         /\ Confirms(Plus(l, d), r - d, Tail(s))
<1> DEFINE t == Tail(s)
<1>1. /\ Len(t) = Len(s) - 1 /\ Len(s) \in Nat \ {0} /\ Head(s) = s[1]
      /\ \A i \in 1..(Len(s) - 1) : t[i] = s[i + 1]
      /\ \A i \in 1..Len(s) : s[i] \in Frame /\ s[i].nr \in SeqNo
      BY Taken DEF Frame
<1> HIDE DEF t
<1>2. PICK d \in 0..r : Head(s).nr = Plus(l, d) /\ d = Distance(l, s[1].nr)
  <2>1. 1 \in 1..Len(s) /\ s[1].nr \in SeqNo
        BY <1>1
  <2>2. Distance(l, s[1].nr) \in SeqNo /\ s[1].nr = Plus(l, Distance(l, s[1].nr))
        BY <2>1, DistanceType
  <2>3. Distance(l, s[1].nr) <= r
        BY <2>1 DEF Confirms
  <2> QED BY <1>1, <2>2, <2>3
<1>3. ASSUME NEW i \in 1..Len(t)
      PROVE  /\ i + 1 \in 1..Len(s) /\ t[i] = s[i + 1] /\ Distance(l, t[i].nr) \in SeqNo
             /\ d <= Distance(l, t[i].nr) /\ Distance(l, t[i].nr) <= r
             /\ Distance(Plus(l, d), t[i].nr) = Distance(l, t[i].nr) - d
  <2>1. i + 1 \in 1..Len(s) /\ t[i] = s[i + 1] /\ 1 < i + 1 /\ 1 \in 1..Len(s)
        BY <1>1, <1>3
  <2>2. t[i].nr \in SeqNo /\ Distance(l, t[i].nr) \in SeqNo
        BY <1>1, <2>1, DistanceType
  <2>3. d <= Distance(l, t[i].nr) /\ Distance(l, t[i].nr) <= r
        BY <1>2, <2>1 DEF Confirms
  <2>4. d \in SeqNo
        OBVIOUS
  <2> QED BY <2>1, <2>2, <2>3, <2>4, DistanceShift
<1>4. ASSUME NEW i \in 1..Len(t), NEW j \in 1..Len(t), i < j
      PROVE  Distance(Plus(l, d), t[i].nr) <= Distance(Plus(l, d), t[j].nr)
  <2>1. /\ i + 1 \in 1..Len(s) /\ t[i] = s[i + 1]
        /\ j + 1 \in 1..Len(s) /\ t[j] = s[j + 1]
        BY <1>3
  <2>2. i + 1 < j + 1
        BY <1>1, <1>4
  <2>3. Distance(l, s[i + 1].nr) <= Distance(l, s[j + 1].nr)
        BY <2>1, <2>2 DEF Confirms
  <2>4. /\ Distance(Plus(l, d), t[i].nr) = Distance(l, t[i].nr) - d
        /\ Distance(Plus(l, d), t[j].nr) = Distance(l, t[j].nr) - d
        /\ Distance(l, t[i].nr) \in SeqNo /\ Distance(l, t[j].nr) \in SeqNo
        BY <1>3
  <2> QED BY <2>1, <2>3, <2>4
<1>5. Confirms(Plus(l, d), r - d, t)
      BY <1>3, <1>4 DEF Confirms
<1> QED BY <1>2, <1>5 DEF t

-----------------------------------------------------------------------------
(* One direction: of u frames from l on that the sender keeps, r have been   *)
(* counted, c is the next number, p frames are taken but not counted, and    *)
(* the rest is on its way in; the numbers on their way back confirm at most  *)
(* what has been counted.                                                    *)
Agree(l, u, c, p, in, back) ==
  \E r \in 0..u : /\ c = Plus(l, r) /\ r + p <= u
                  /\ Carries(l, r + p, u, in)
                  /\ Confirms(l, r, back)

(* The sender writes an I frame: it has one more to be confirmed. *)
LEMMA AgreeIn ==
  ASSUME NEW l \in SeqNo, NEW u \in SeqNo, NEW c \in SeqNo, NEW p \in 0..1,
         NEW in \in Seq(Frame), NEW back \in Seq(Frame), Agree(l, u, c, p, in, back),
         NEW f \in Frame, f.kind = "I", f.ns = Plus(l, u)
  PROVE  Agree(l, u + 1, c, p, Append(in, f), back)
<1>1. PICK r \in 0..u : /\ c = Plus(l, r) /\ r + p <= u
                        /\ Carries(l, r + p, u, in) /\ Confirms(l, r, back)
      BY DEF Agree
<1>2. Carries(l, r + p, u + 1, Append(in, f))
  <2>1. r + p \in Nat
        OBVIOUS
  <2> QED BY <1>1, <2>1, CarriesNext
<1>3. r \in 0..(u + 1) /\ r + p <= u + 1
      BY <1>1
<1> QED BY <1>1, <1>2, <1>3 DEF Agree

(* It writes an S frame. *)
LEMMA AgreeInS ==
  ASSUME NEW l \in SeqNo, NEW u \in SeqNo, NEW c \in SeqNo, NEW p \in 0..1,
         NEW in \in Seq(Frame), NEW back \in Seq(Frame), Agree(l, u, c, p, in, back),
         NEW f \in Frame, f.kind = "S"
  PROVE  Agree(l, u, c, p, Append(in, f), back)
<1>1. PICK r \in 0..u : /\ c = Plus(l, r) /\ r + p <= u
                        /\ Carries(l, r + p, u, in) /\ Confirms(l, r, back)
      BY DEF Agree
<1>2. Carries(l, r + p, u, Append(in, f))
  <2>1. r + p \in Nat /\ u \in Nat
        OBVIOUS
  <2> QED BY <1>1, <2>1, CarriesSame
<1> QED BY <1>1, <1>2 DEF Agree

(* The receiver writes a frame, whose N(R) is the next number. *)
LEMMA AgreeBack ==
  ASSUME NEW l \in SeqNo, NEW u \in SeqNo, NEW c \in SeqNo, NEW p \in 0..1,
         NEW in \in Seq(Frame), NEW back \in Seq(Frame), Agree(l, u, c, p, in, back),
         NEW f \in Frame, f.nr = c
  PROVE  Agree(l, u, c, p, in, Append(back, f))
<1>1. PICK r \in 0..u : /\ c = Plus(l, r) /\ r + p <= u
                        /\ Carries(l, r + p, u, in) /\ Confirms(l, r, back)
      BY DEF Agree
<1>2. Confirms(l, r, Append(back, f))
  <2>1. r \in SeqNo /\ f.nr = Plus(l, r)
        BY <1>1
  <2> QED BY <1>1, <2>1, ConfirmsNext
<1> QED BY <1>1, <1>2 DEF Agree

(* The receiver takes an I frame: it has the next number. *)
LEMMA AgreeTakeI ==
  ASSUME NEW l \in SeqNo, NEW u \in SeqNo, NEW c \in SeqNo,
         NEW in \in Seq(Frame), NEW back \in Seq(Frame), Agree(l, u, c, 0, in, back),
         in # <<>>, Head(in).kind = "I"
  PROVE  Head(in).ns = c /\ Agree(l, u, c, 1, Tail(in), back)
<1>1. PICK r \in 0..u : /\ c = Plus(l, r) /\ r + 0 <= u
                        /\ Carries(l, r + 0, u, in) /\ Confirms(l, r, back)
      BY DEF Agree
<1>2. r + 0 = r /\ r \in Nat /\ u \in Nat
      OBVIOUS
<1>3. Carries(l, r, u, in)
      BY <1>1, <1>2
<1>4. r < u /\ Distance(l, Head(in).ns) = r /\ Carries(l, r + 1, u, Tail(in))
      BY <1>2, <1>3, CarriesRest
<1>5. Head(in).ns \in SeqNo
  <2>1. Head(in) \in Frame
        BY Taken
  <2> QED BY <2>1 DEF Frame
<1>6. Head(in).ns = c
      BY <1>1, <1>4, <1>5, DistanceType
<1>7. r + 1 <= u
      BY <1>4
<1> QED BY <1>1, <1>4, <1>6, <1>7 DEF Agree

LEMMA AgreeTakeS ==
  ASSUME NEW l \in SeqNo, NEW u \in SeqNo, NEW c \in SeqNo, NEW p \in 0..1,
         NEW in \in Seq(Frame), NEW back \in Seq(Frame), Agree(l, u, c, p, in, back),
         in # <<>>, Head(in).kind = "S"
  PROVE  Agree(l, u, c, p, Tail(in), back)
<1>1. PICK r \in 0..u : /\ c = Plus(l, r) /\ r + p <= u
                        /\ Carries(l, r + p, u, in) /\ Confirms(l, r, back)
      BY DEF Agree
<1>2. Carries(l, r + p, u, Tail(in))
  <2>1. r + p \in Nat /\ u \in Nat
        OBVIOUS
  <2> QED BY <1>1, <2>1, CarriesRestS
<1> QED BY <1>1, <1>2 DEF Agree

(* The frame taken is counted. *)
LEMMA AgreeCounted ==
  ASSUME NEW l \in SeqNo, NEW u \in SeqNo, NEW c \in SeqNo,
         NEW in \in Seq(Frame), NEW back \in Seq(Frame), Agree(l, u, c, 1, in, back)
  PROVE  Agree(l, u, Plus(c, 1), 0, in, back)
<1>1. PICK r \in 0..u : /\ c = Plus(l, r) /\ r + 1 <= u
                        /\ Carries(l, r + 1, u, in) /\ Confirms(l, r, back)
      BY DEF Agree
<1>2. PICK q \in 0..u : q = r + 1 /\ q + 0 = q
  <2>1. r + 1 \in 0..u /\ (r + 1) + 0 = r + 1
        BY <1>1
  <2> QED BY <2>1
<1>3. Plus(c, 1) = Plus(l, q)
      BY <1>1, <1>2 DEF Plus
<1>4. Confirms(l, q, back)
  <2>1. ASSUME NEW i \in 1..Len(back) PROVE Distance(l, back[i].nr) <= q
    <3>1. back[i] \in Frame /\ Distance(l, back[i].nr) <= r
          BY <1>1, <2>1, ElementOfSeq DEF Confirms
    <3>2. Distance(l, back[i].nr) \in SeqNo
          BY <3>1, DistanceType DEF Frame
    <3> QED BY <1>2, <3>1, <3>2
  <2> QED BY <1>1, <2>1 DEF Confirms
<1>5. q + 0 <= u /\ Carries(l, q + 0, u, in)
      BY <1>1, <1>2
<1> QED BY <1>3, <1>4, <1>5 DEF Agree

(* The sender takes a frame: its N(R) confirms d of the frames kept. *)
LEMMA AgreeTakeBack ==
  ASSUME NEW l \in SeqNo, NEW u \in SeqNo, NEW c \in SeqNo, NEW p \in 0..1,
         NEW in \in Seq(Frame), NEW back \in Seq(Frame), Agree(l, u, c, p, in, back),
         back # <<>>
  PROVE  \E d \in 0..u : /\ Head(back).nr = Plus(l, d)
                         /\ Agree(Plus(l, d), u - d, c, p, in, Tail(back))
<1>1. PICK r \in 0..u : /\ c = Plus(l, r) /\ r + p <= u
                        /\ Carries(l, r + p, u, in) /\ Confirms(l, r, back)
      BY DEF Agree
<1>2. PICK d \in 0..r : /\ Head(back).nr = Plus(l, d)
                        /\ Confirms(Plus(l, d), r - d, Tail(back))
  <2>1. r \in SeqNo
        OBVIOUS
  <2> QED BY <1>1, <2>1, ConfirmsRest
<1>3. Carries(Plus(l, d), r + p - d, u - d, in)
  <2>1. r + p \in Nat /\ d \in 0..(r + p) /\ r + p <= u
        BY <1>1
  <2> QED BY <1>1, <2>1, CarriesShift
<1>4. PICK q \in 0..(u - d) : q = r - d /\ q + p = r + p - d /\ q + p <= u - d
  <2>1. r - d \in 0..(u - d) /\ (r - d) + p = r + p - d /\ (r - d) + p <= u - d
        BY <1>1
  <2> QED BY <2>1
<1>5. c = Plus(Plus(l, d), q)
  <2>1. d \in SeqNo /\ q \in SeqNo /\ d + q = r /\ d + q < Modulus
        BY <1>4
  <2>2. Plus(Plus(l, d), q) = Plus(l, d + q)
        BY <2>1, PlusPlus, Zenon
  <2> QED BY <1>1, <2>1, <2>2, Zenon
<1>6. Agree(Plus(l, d), u - d, c, p, in, Tail(back))
      BY <1>2, <1>3, <1>4, <1>5 DEF Agree
<1>7. d \in 0..u
      OBVIOUS
<1> QED BY <1>2, <1>6, <1>7

-----------------------------------------------------------------------------
(* The two k-buffers. *)
Buffers == IInv /\ CP!IInv

LEMMA SameClient ==
  /\ Client!Full = CP!Full /\ Client!Count = CP!Count
  /\ Client!LastConfirmed = CP!LastConfirmed
  /\ \A n : Client!SeqNoIsValid(n) = CP!SeqNoIsValid(n)
  /\ Client!SendASDU(-1, TRUE) = CP!SendASDU(-1, TRUE)
  /\ \A n : Client!CheckSequenceNumber(n) = CP!CheckSequenceNumber(n)
BY DEF Client!Full, CP!Full, Client!Count, CP!Count, Client!LastConfirmed, CP!LastConfirmed,
       Client!SeqNoIsValid, CP!SeqNoIsValid, Client!SendASDU, CP!SendASDU,
       Client!CheckSequenceNumber, CP!CheckSequenceNumber, Client!Empty, CP!Empty,
       Client!Up, CP!Up, Client!oldestValidSeqNo, CP!oldestValidSeqNo, Client!Oldest, CP!Oldest,
       Client!Newest, CP!Newest, Client!counterOverflowDetected, CP!counterOverflowDetected,
       Client!SeqNoAt, CP!SeqNoAt, Client!EntryAt, CP!EntryAt, Client!Plus, CP!Plus,
       Client!Removed, CP!Removed, Client!StopsBefore, CP!StopsBefore

LEMMA BufferFacts ==
  ASSUME Buffers, BothRunning, NEW e \in Ends
  PROVE  /\ Confirmed(e) \in SeqNo /\ Unconfirmed(e) \in SeqNo
         /\ NextNumber(e) = Plus(Confirmed(e), Unconfirmed(e))
         /\ \A n \in SeqNo : NumberIsValid(e, n) <=>
                               \E d \in 0..Unconfirmed(e) : n = Plus(Confirmed(e), d)
<1>1. CASE e = "server"
  <2>1. IInv /\ isRunning
        BY DEF Buffers, BothRunning
  <2>2. LastConfirmed \in SeqNo /\ Count \in 0..K /\ sendCount = Plus(LastConfirmed, Count)
        BY <2>1, LastConfirmedType, CountFacts DEF IInv, WindowOK
  <2>3. \A n \in SeqNo : SeqNoIsValid(n) <=> \E d \in 0..Count : n = Plus(LastConfirmed, d)
        BY <2>1, AcceptedNumbers
  <2> QED BY <1>1, <2>2, <2>3 DEF Confirmed, Unconfirmed, NextNumber, NumberIsValid
<1>2. CASE e = "client"
  <2>1. CP!IInv /\ loopRunning
        BY DEF Buffers, BothRunning
  <2>2. /\ CP!LastConfirmed \in SeqNo /\ CP!Count \in 0..ClientK
        /\ clientSendCount = Plus(CP!LastConfirmed, CP!Count)
        BY <2>1, CP!LastConfirmedType, CP!CountFacts DEF CP!IInv, CP!WindowOK, CP!SeqNo, CP!Plus, Plus
  <2>3. \A n \in SeqNo : CP!SeqNoIsValid(n) <=>
                           \E d \in 0..CP!Count : n = Plus(CP!LastConfirmed, d)
        BY <2>1, CP!AcceptedNumbers DEF CP!SeqNo, CP!Plus, Plus
  <2> QED BY <1>2, <2>2, <2>3, SameClient DEF Confirmed, Unconfirmed, NextNumber, NumberIsValid
<1> QED BY <1>1, <1>2

(* An end's k-buffer is as it was. *)
SameAt(e) == Confirmed(e)' = Confirmed(e) /\ Unconfirmed(e)' = Unconfirmed(e)

LEMMA ServerSame ==
  ASSUME UNCHANGED <<sentASDUs, oldestSentASDU, newestSentASDU, sendCount, markedAsdus>>
  PROVE  SameAt("server")
BY DEF SameAt, Confirmed, Unconfirmed, LastConfirmed, Count, Empty, oldestValidSeqNo, Oldest,
       SeqNoAt, EntryAt, Up

LEMMA ClientSame ==
  ASSUME UNCHANGED <<clientSentASDUs, clientOldest, clientNewest, clientSendCount>>
  PROVE  SameAt("client")
BY DEF SameAt, Confirmed, Unconfirmed, Client!LastConfirmed, Client!Count, Client!Empty,
       Client!oldestValidSeqNo, Client!Oldest, Client!SeqNoAt, Client!EntryAt, Client!Up

(* A loop that ends, or goes on, leaves its k-buffer alone. *)
LEMMA ServerStays ==
  ASSUME IInv, UNCHANGED <<sentASDUs, oldestSentASDU, newestSentASDU, sendCount, markedAsdus>>,
         isRunning' \in BOOLEAN, isRunning' => isRunning
  PROVE  IInv'
BY DEF IInv, TypeOK, WindowOK, Count, Empty, SeqNoAt, EntryAt, Up, LastConfirmed,
       oldestValidSeqNo, Oldest

LEMMA ClientStays ==
  ASSUME CP!IInv, UNCHANGED <<clientSentASDUs, clientOldest, clientNewest, clientSendCount>>,
         loopRunning' \in BOOLEAN, loopRunning' => loopRunning
  PROVE  (CP!IInv)'
BY DEF CP!IInv, CP!TypeOK, CP!WindowOK, CP!Count, CP!Empty, CP!SeqNoAt, CP!EntryAt, CP!Up,
       CP!LastConfirmed, CP!oldestValidSeqNo, CP!Oldest, CP!Slots, CP!SeqNo, CP!Plus

LEMMA BuffersSame ==
  ASSUME Buffers, UNCHANGED <<vars, clientBuffer>>
  PROVE  /\ Buffers' /\ BothRunning' = BothRunning
         /\ \A e \in Ends : SameAt(e)
<1>1. /\ UNCHANGED <<sentASDUs, oldestSentASDU, newestSentASDU, sendCount, markedAsdus>>
      /\ UNCHANGED <<clientSentASDUs, clientOldest, clientNewest, clientSendCount>>
      /\ isRunning' = isRunning /\ loopRunning' = loopRunning
      BY DEF vars, clientBuffer
<1>2. isRunning \in BOOLEAN /\ loopRunning \in BOOLEAN
      BY DEF Buffers, IInv, TypeOK, CP!IInv, CP!TypeOK
<1>3. Buffers'
      BY <1>1, <1>2, ServerStays, ClientStays DEF Buffers
<1> QED BY <1>1, <1>3, ServerSame, ClientSame DEF BothRunning

LEMMA CloseKeeps ==
  ASSUME Buffers, NEW e \in Ends, CloseEnd(e)
  PROVE  Buffers'
<1>1. isRunning \in BOOLEAN /\ loopRunning \in BOOLEAN
      BY DEF Buffers, IInv, TypeOK, CP!IInv, CP!TypeOK
<1>2. CASE e = "server"
  <2>1. /\ UNCHANGED <<sentASDUs, oldestSentASDU, newestSentASDU, sendCount, markedAsdus>>
        /\ isRunning' = FALSE
        /\ UNCHANGED <<clientSentASDUs, clientOldest, clientNewest, clientSendCount, loopRunning>>
        BY <1>2 DEF CloseEnd, clientBuffer
  <2> QED BY <1>1, <2>1, ServerStays, ClientStays DEF Buffers
<1>3. CASE e = "client"
  <2>1. /\ UNCHANGED <<sentASDUs, oldestSentASDU, newestSentASDU, sendCount, markedAsdus>>
        /\ UNCHANGED isRunning /\ loopRunning' = FALSE
        /\ UNCHANGED <<clientSentASDUs, clientOldest, clientNewest, clientSendCount>>
        BY <1>3 DEF CloseEnd, vars
  <2> QED BY <1>1, <2>1, ServerStays, ClientStays DEF Buffers
<1> QED BY <1>2, <1>3

LEMMA StoreKeeps ==
  ASSUME Buffers, NEW e \in Ends, NEW written \in BOOLEAN, Store(e, written)
  PROVE  Buffers'
<1>1. isRunning \in BOOLEAN /\ loopRunning \in BOOLEAN
      BY DEF Buffers, IInv, TypeOK, CP!IInv, CP!TypeOK
<1>2. CASE e = "server"
  <2>1. PICK i \in -1..(K - 1) : SendASDU(i, written)
    <3>1. (IF Empty THEN 0 ELSE Up(newestSentASDU, 1)) \in Slots
          BY CountFacts DEF Buffers, IInv, Up
    <3> QED BY <1>2, <3>1 DEF Store
  <2>2. /\ UNCHANGED <<clientSentASDUs, clientOldest, clientNewest, clientSendCount>>
        /\ UNCHANGED loopRunning
        BY <1>2 DEF Store, clientBuffer
  <2>3. IInv'
        BY <2>1, SendStep DEF Buffers
  <2> QED BY <1>1, <2>2, <2>3, ClientStays DEF Buffers
<1>3. CASE e = "client"
  <2>1. CP!SendASDU(-1, TRUE) /\ UNCHANGED vars
        BY <1>3, SameClient DEF Store
  <2>2. (CP!IInv)'
    <3>1. -1 \in -1..(ClientK - 1)
          OBVIOUS
    <3> QED BY <2>1, <3>1, CP!SendStep DEF Buffers
  <2>3. IInv'
    <3>1. /\ UNCHANGED <<sentASDUs, oldestSentASDU, newestSentASDU, sendCount, markedAsdus>>
          /\ UNCHANGED isRunning
          BY <2>1 DEF vars
    <3> QED BY <1>1, <3>1, ServerStays DEF Buffers
  <2> QED BY <2>2, <2>3 DEF Buffers
<1> QED BY <1>2, <1>3

LEMMA StoreExtends ==
  ASSUME Buffers, BothRunning, NEW e \in Ends, ~BufferFull(e), Store(e, TRUE)
  PROVE  /\ BothRunning' /\ Unconfirmed(e)' = Unconfirmed(e) + 1
         /\ Unconfirmed(e) + 1 \in SeqNo
         /\ Confirmed(e)' = Confirmed(e) /\ SameAt(Other(e))
<1>1. CASE e = "server"
  <2>1. PICK i \in -1..(K - 1) : SendASDU(i, TRUE)
    <3>1. PICK i \in Slots : i = IF Empty THEN 0 ELSE Up(newestSentASDU, 1)
      <4>1. (IF Empty THEN 0 ELSE Up(newestSentASDU, 1)) \in Slots
            BY CountFacts DEF Buffers, IInv, Up
      <4> QED BY <4>1
    <3>2. SendASDU(i, TRUE)
          BY <1>1, <3>1, Zenon DEF Store
    <3>3. i \in -1..(K - 1)
          OBVIOUS
    <3> QED BY <3>2, <3>3
  <2>2. /\ isRunning' /\ Count' = Count + 1 /\ Count \in 0..(K - 1)
        /\ LastConfirmed' = LastConfirmed
        BY <1>1, <2>1, SendExtends DEF Buffers, BothRunning, BufferFull
  <2>3. /\ UNCHANGED <<clientSentASDUs, clientOldest, clientNewest, clientSendCount>>
        /\ UNCHANGED loopRunning
        BY <1>1 DEF Store, clientBuffer
  <2>4. SameAt(Other(e))
        BY <1>1, <2>3, ClientSame DEF Other
  <2> QED BY <1>1, <2>2, <2>3, <2>4 DEF BothRunning, Unconfirmed, Confirmed
<1>2. CASE e = "client"
  <2>1. CP!SendASDU(-1, TRUE) /\ UNCHANGED vars
        BY <1>2, SameClient DEF Store
  <2>2. -1 \in -1..(ClientK - 1)
        OBVIOUS
  <2>3. /\ loopRunning' /\ (CP!Count)' = CP!Count + 1 /\ CP!Count \in 0..(ClientK - 1)
        /\ (CP!LastConfirmed)' = CP!LastConfirmed
    <3>1. ~CP!Full
          BY <1>2, SameClient DEF BufferFull
    <3> QED BY <2>1, <2>2, <3>1, CP!SendExtends DEF Buffers, BothRunning
  <2>4. /\ UNCHANGED <<sentASDUs, oldestSentASDU, newestSentASDU, sendCount, markedAsdus>>
        /\ UNCHANGED isRunning
        BY <2>1 DEF vars
  <2>5. SameAt(Other(e))
        BY <1>2, <2>4, ServerSame DEF Other
  <2>6. (Client!Count)' = (CP!Count)' /\ (Client!LastConfirmed)' = (CP!LastConfirmed)'
        BY DEF Client!Count, CP!Count, Client!LastConfirmed, CP!LastConfirmed, Client!Empty,
               CP!Empty, Client!oldestValidSeqNo, CP!oldestValidSeqNo, Client!Oldest, CP!Oldest,
               Client!SeqNoAt, CP!SeqNoAt, Client!EntryAt, CP!EntryAt, Client!Up, CP!Up
  <2> QED BY <1>2, <2>3, <2>4, <2>5, <2>6, SameClient DEF BothRunning, Unconfirmed, Confirmed
<1> QED BY <1>1, <1>2

LEMMA CheckKeeps ==
  ASSUME Buffers, BothRunning, NEW e \in Ends, NEW n \in SeqNo, Check(e, n)
  PROVE  /\ Buffers'
         /\ NumberIsValid(e, n) =>
              /\ BothRunning' /\ SameAt(Other(e))
              /\ \E d \in 0..Unconfirmed(e) :
                   /\ n = Plus(Confirmed(e), d) /\ Confirmed(e)' = n
                   /\ Unconfirmed(e)' = Unconfirmed(e) - d
<1>1. isRunning \in BOOLEAN /\ loopRunning \in BOOLEAN
      BY DEF Buffers, IInv, TypeOK, CP!IInv, CP!TypeOK
<1>2. CASE e = "server"
  <2>1. /\ CheckSequenceNumber(n) /\ UNCHANGED loopRunning
        /\ UNCHANGED <<clientSentASDUs, clientOldest, clientNewest, clientSendCount>>
        BY <1>2 DEF Check, clientBuffer
  <2>2. Buffers'
        BY <1>1, <2>1, CheckStep, ClientStays DEF Buffers, BothRunning
  <2>3. ASSUME NumberIsValid(e, n)
        PROVE  /\ BothRunning' /\ SameAt(Other(e))
               /\ \E d \in 0..Unconfirmed(e) :
                    /\ n = Plus(Confirmed(e), d) /\ Confirmed(e)' = n
                    /\ Unconfirmed(e)' = Unconfirmed(e) - d
    <3>1. SeqNoIsValid(n)
          BY <1>2, <2>3 DEF NumberIsValid
    <3>2. PICK d \in 0..Count : /\ n = Plus(LastConfirmed, d) /\ LastConfirmed' = n
                                /\ Count' = Count - d
          BY <2>1, <3>1, CheckKeepsRest DEF Buffers, BothRunning
    <3>3. isRunning'
          BY <2>1, <3>1 DEF CheckSequenceNumber, BothRunning
    <3>4. SameAt(Other(e))
          BY <1>2, <2>1, ClientSame DEF Other
    <3> QED BY <1>2, <2>1, <3>2, <3>3, <3>4 DEF BothRunning, Unconfirmed, Confirmed
  <2> QED BY <2>2, <2>3
<1>3. CASE e = "client"
  <2>1. CP!CheckSequenceNumber(n) /\ UNCHANGED vars
        BY <1>3, SameClient DEF Check
  <2>2. /\ UNCHANGED <<sentASDUs, oldestSentASDU, newestSentASDU, sendCount, markedAsdus>>
        /\ UNCHANGED isRunning /\ n \in CP!SeqNo
        BY <2>1 DEF vars, CP!SeqNo
  <2>3. Buffers'
        BY <1>1, <2>1, <2>2, CP!CheckStep, ServerStays DEF Buffers, BothRunning
  <2>4. ASSUME NumberIsValid(e, n)
        PROVE  /\ BothRunning' /\ SameAt(Other(e))
               /\ \E d \in 0..Unconfirmed(e) :
                    /\ n = Plus(Confirmed(e), d) /\ Confirmed(e)' = n
                    /\ Unconfirmed(e)' = Unconfirmed(e) - d
    <3>1. CP!SeqNoIsValid(n)
          BY <1>3, <2>4, SameClient DEF NumberIsValid
    <3>2. PICK d \in 0..CP!Count : /\ n = CP!Plus(CP!LastConfirmed, d)
                                   /\ (CP!LastConfirmed)' = n
                                   /\ (CP!Count)' = CP!Count - d
          BY <2>1, <2>2, <3>1, CP!CheckKeepsRest DEF Buffers, BothRunning
    <3>3. loopRunning'
          BY <2>1, <3>1 DEF CP!CheckSequenceNumber, BothRunning
    <3>4. SameAt(Other(e))
          BY <1>3, <2>2, ServerSame DEF Other
    <3>5. (Client!Count)' = (CP!Count)' /\ (Client!LastConfirmed)' = (CP!LastConfirmed)'
          BY DEF Client!Count, CP!Count, Client!LastConfirmed, CP!LastConfirmed, Client!Empty,
                 CP!Empty, Client!oldestValidSeqNo, CP!oldestValidSeqNo, Client!Oldest, CP!Oldest,
                 Client!SeqNoAt, CP!SeqNoAt, Client!EntryAt, CP!EntryAt, Client!Up, CP!Up
    <3>6. n = Plus(CP!LastConfirmed, d)
          BY <3>2 DEF CP!Plus, Plus
    <3> QED BY <1>3, <2>2, <3>2, <3>3, <3>4, <3>5, <3>6, SameClient
            DEF BothRunning, Unconfirmed, Confirmed
  <2> QED BY <2>3, <2>4
<1> QED BY <1>2, <1>3

-----------------------------------------------------------------------------
(* The inductive invariant. As long as nothing has disturbed the connection, *)
(* both ends run, the two directions agree, and what the second thread is    *)
(* about to acknowledge is what has been counted.                            *)
Pending(e) == IF thread[e] = "count" THEN 1 ELSE 0

Direction(e) ==
  Agree(Confirmed(Other(e)), Unconfirmed(Other(e)), receiveCount[e], Pending(e),
        stream[e], stream[Other(e)])

LinkTyped ==
  /\ receiveCount \in [Ends -> SeqNo]
  /\ thread \in [Ends -> {"wait", "count", "wcheck"}]
  /\ sender \in [Ends -> SeqNo \union {Off}]
  /\ stream \in [Ends -> Seq(Frame)]

Undisturbed ==
  /\ BothRunning
  /\ \A e \in Ends : Direction(e) /\ (Locked(e) => sender[e] = receiveCount[e])

LinkInv == Buffers /\ LinkTyped /\ (Linked => Undisturbed)

(* At the server, the room a thread has found is there until it has written. *)
RoomInv == Linked /\ Locked("server") => ~Full

LEMMA TwoEnds ==
  ASSUME NEW e \in Ends
  PROVE  /\ Other(e) \in Ends /\ Other(e) # e /\ Other(Other(e)) = e
         /\ \A f \in Ends : f = e \/ f = Other(e)
BY DEF Other

(* Both directions again, from what the step leaves of them. *)
LEMMA StillUndisturbed ==
  ASSUME NEW e \in Ends, BothRunning',
         NEW l \in SeqNo, NEW u \in SeqNo, NEW lo \in SeqNo, NEW uo \in SeqNo,
         Confirmed(e)' = l, Unconfirmed(e)' = u,
         Confirmed(Other(e))' = lo, Unconfirmed(Other(e))' = uo,
         Agree(lo, uo, receiveCount'[e], Pending(e)', stream'[e], stream'[Other(e)]),
         Agree(l, u, receiveCount'[Other(e)], Pending(Other(e))', stream'[Other(e)], stream'[e]),
         sender'[e] # Off => sender'[e] = receiveCount'[e],
         sender'[Other(e)] # Off => sender'[Other(e)] = receiveCount'[Other(e)]
  PROVE  Undisturbed'
<1>1. Other(e) \in Ends /\ Other(Other(e)) = e /\ \A f \in Ends : f = e \/ f = Other(e)
      BY TwoEnds
<1>2. Direction(e)'
      BY DEF Direction
<1>3. Direction(Other(e))'
      BY <1>1 DEF Direction
<1>4. \A f \in Ends : Direction(f)' /\ (sender'[f] # Off => sender'[f] = receiveCount'[f])
      BY <1>1, <1>2, <1>3
<1> QED BY <1>4 DEF Undisturbed, Locked

(* What the invariant says of one end and the other, in an undisturbed       *)
(* connection.                                                               *)
LEMMA AtBothEnds ==
  ASSUME LinkInv, Linked, NEW e \in Ends
  PROVE  /\ BothRunning /\ Buffers /\ LinkTyped
         /\ Other(e) \in Ends /\ Other(e) # e /\ Other(Other(e)) = e
         /\ Confirmed(e) \in SeqNo /\ Unconfirmed(e) \in SeqNo
         /\ Confirmed(Other(e)) \in SeqNo /\ Unconfirmed(Other(e)) \in SeqNo
         /\ receiveCount[e] \in SeqNo /\ receiveCount[Other(e)] \in SeqNo
         /\ stream[e] \in Seq(Frame) /\ stream[Other(e)] \in Seq(Frame)
         /\ Pending(e) \in 0..1 /\ Pending(Other(e)) \in 0..1
         /\ Agree(Confirmed(Other(e)), Unconfirmed(Other(e)), receiveCount[e], Pending(e),
                  stream[e], stream[Other(e)])
         /\ Agree(Confirmed(e), Unconfirmed(e), receiveCount[Other(e)], Pending(Other(e)),
                  stream[Other(e)], stream[e])
         /\ sender[e] # Off => sender[e] = receiveCount[e]
         /\ sender[Other(e)] # Off => sender[Other(e)] = receiveCount[Other(e)]
<1>1. Other(e) \in Ends /\ Other(e) # e /\ Other(Other(e)) = e
      BY TwoEnds
<1>2. Undisturbed /\ Buffers /\ LinkTyped
      BY DEF LinkInv
<1>3. /\ Confirmed(e) \in SeqNo /\ Unconfirmed(e) \in SeqNo
      /\ Confirmed(Other(e)) \in SeqNo /\ Unconfirmed(Other(e)) \in SeqNo
      BY <1>1, <1>2, BufferFacts DEF Undisturbed
<1>4. Direction(e) /\ Direction(Other(e))
      BY <1>1, <1>2 DEF Undisturbed
<1>5. /\ receiveCount[e] \in SeqNo /\ receiveCount[Other(e)] \in SeqNo
      /\ stream[e] \in Seq(Frame) /\ stream[Other(e)] \in Seq(Frame)
      BY <1>1, <1>2 DEF LinkTyped
<1>6. Pending(e) \in 0..1 /\ Pending(Other(e)) \in 0..1
      BY DEF Pending
<1> QED BY <1>1, <1>2, <1>3, <1>4, <1>5, <1>6 DEF Undisturbed, Direction, Locked

LEMMA PrepareStep ==
  ASSUME LinkInv, NEW e \in Ends, Prepare(e)
  PROVE  LinkInv'
<1>1. /\ Linked /\ sender' = [sender EXCEPT ![e] = receiveCount[e]]
      /\ UNCHANGED <<vars, clientBuffer>>
      /\ UNCHANGED <<peer, receiveCount, unconfirmedReceivedIMessages, thread, stream, faults>>
      BY DEF Prepare
<1>2. /\ BothRunning /\ Buffers /\ LinkTyped /\ Other(e) \in Ends /\ Other(e) # e
      /\ receiveCount[e] \in SeqNo
      /\ sender[Other(e)] # Off => sender[Other(e)] = receiveCount[Other(e)]
      BY <1>1, AtBothEnds
<1>3. Buffers' /\ BothRunning' /\ SameAt(e) /\ SameAt(Other(e))
      BY <1>1, <1>2, BuffersSame
<1>4. LinkTyped'
      BY <1>1, <1>2 DEF LinkTyped
<1>5. sender'[e] = receiveCount'[e] /\ sender'[Other(e)] = sender[Other(e)]
      BY <1>1, <1>2 DEF LinkTyped
<1>6. Undisturbed'
  <2>1. /\ Pending(e)' = Pending(e) /\ Pending(Other(e))' = Pending(Other(e))
        /\ receiveCount' = receiveCount /\ stream' = stream
        BY <1>1 DEF Pending
  <2>2. PICK l \in SeqNo, u \in SeqNo, lo \in SeqNo, uo \in SeqNo :
          /\ l = Confirmed(e) /\ u = Unconfirmed(e)
          /\ lo = Confirmed(Other(e)) /\ uo = Unconfirmed(Other(e))
        BY <1>1, AtBothEnds
  <2>3. /\ Agree(lo, uo, receiveCount[e], Pending(e), stream[e], stream[Other(e)])
        /\ Agree(l, u, receiveCount[Other(e)], Pending(Other(e)), stream[Other(e)], stream[e])
        BY <1>1, <2>2, AtBothEnds
  <2>4. /\ Confirmed(e)' = l /\ Unconfirmed(e)' = u
        /\ Confirmed(Other(e))' = lo /\ Unconfirmed(Other(e))' = uo
        BY <1>3, <2>2 DEF SameAt
  <2>5. /\ Agree(lo, uo, receiveCount'[e], Pending(e)', stream'[e], stream'[Other(e)])
        /\ Agree(l, u, receiveCount'[Other(e)], Pending(Other(e))', stream'[Other(e)], stream'[e])
        BY <2>1, <2>3
  <2>6. /\ sender'[e] # Off => sender'[e] = receiveCount'[e]
        /\ sender'[Other(e)] # Off => sender'[Other(e)] = receiveCount'[Other(e)]
        BY <1>2, <1>5, <2>1
  <2> QED BY <1>3, <2>4, <2>5, <2>6, StillUndisturbed, SMTT(30)
<1> QED BY <1>3, <1>4, <1>6 DEF LinkInv

LEMMA Faulty ==
  ASSUME Buffers', LinkTyped', NEW f, NEW others, faults' = others \union {f}
  PROVE  LinkInv'
<1>1. ~Linked'
      BY DEF Linked
<1> QED BY <1>1 DEF LinkInv

LEMMA WriteStep ==
  ASSUME LinkInv, RoomInv, NEW e \in Ends, Write(e)
  PROVE  LinkInv'
<1>1. /\ Linked /\ sender[e] # Off /\ sender' = [sender EXCEPT ![e] = Off]
      /\ UNCHANGED <<peer, receiveCount, thread>>
      BY DEF Write, Locked
<1>2. /\ BothRunning /\ Buffers /\ LinkTyped /\ Other(e) \in Ends /\ Other(e) # e
      /\ Other(Other(e)) = e
      BY <1>1, AtBothEnds
<1>3. CASE /\ Store(e, FALSE) /\ UNCHANGED stream
           /\ faults' = (faults \union Overflow(e)) \union {"write"}
  <2>1. Buffers'
        BY <1>2, <1>3, StoreKeeps
  <2>2. LinkTyped'
        BY <1>1, <1>2, <1>3 DEF LinkTyped
  <2> QED BY <1>3, <2>1, <2>2, Faulty
<1>4. CASE /\ Store(e, TRUE) /\ faults' = faults \union Overflow(e)
           /\ Transmit(e, [kind |-> "I", ns |-> NextNumber(e), nr |-> sender[e]])
  <2>1. PICK l \in SeqNo, u \in SeqNo, lo \in SeqNo, uo \in SeqNo :
          /\ l = Confirmed(e) /\ u = Unconfirmed(e)
          /\ lo = Confirmed(Other(e)) /\ uo = Unconfirmed(Other(e))
        BY <1>1, AtBothEnds
  <2>2. PICK f \in Frame : f = [kind |-> "I", ns |-> NextNumber(e), nr |-> sender[e]]
    <3>1. NextNumber(e) = Plus(l, u) /\ sender[e] \in SeqNo
          BY <1>1, <1>2, <2>1, BufferFacts DEF LinkTyped
    <3>2. NextNumber(e) \in SeqNo
          BY <3>1, PlusType
    <3>3. [kind |-> "I", ns |-> NextNumber(e), nr |-> sender[e]] \in Frame
          BY <3>1, <3>2 DEF Frame
    <3> QED BY <3>3
  <2>3. f.kind = "I" /\ f.ns = Plus(l, u) /\ f.nr = receiveCount[e]
    <3>1. NextNumber(e) = Plus(l, u)
          BY <1>2, <2>1, BufferFacts
    <3>2. sender[e] = receiveCount[e]
          BY <1>1, AtBothEnds
    <3> QED BY <2>2, <3>1, <3>2
  <2>4. stream' = [stream EXCEPT ![Other(e)] = Append(stream[Other(e)], f)]
        BY <1>4, <2>2 DEF Transmit
  <2>5. /\ stream'[Other(e)] = Append(stream[Other(e)], f) /\ stream'[e] = stream[e]
        /\ stream' \in [Ends -> Seq(Frame)]
    <3>1. stream \in [Ends -> Seq(Frame)] /\ Append(stream[Other(e)], f) \in Seq(Frame)
          BY <1>2, AppendProperties DEF LinkTyped
    <3> QED BY <1>2, <2>4, <3>1
  <2>6. Buffers'
        BY <1>2, <1>4, StoreKeeps
  <2>7. LinkTyped'
        BY <1>1, <1>2, <2>5 DEF LinkTyped
  <2>8. CASE Overflow(e) # {}
    <3>1. faults' = faults \union {"overflow"}
          BY <1>4, <2>8 DEF Overflow
    <3> QED BY <2>6, <2>7, <3>1, Faulty
  <2>9. ASSUME Overflow(e) = {}
        PROVE  ~BufferFull(e) /\ faults' = faults
    <3>1. CASE e = "server"
      <4>1. Locked("server")
            BY <1>1, <3>1 DEF Locked
      <4> QED BY <1>1, <1>4, <2>9, <3>1, <4>1 DEF RoomInv, BufferFull
    <3>2. CASE e = "client"
          BY <1>4, <2>9, <3>2 DEF Overflow, BufferFull
    <3> QED BY <3>1, <3>2
  <2>10. CASE Overflow(e) = {}
    <3>1. PICK v \in SeqNo : v = u + 1
      <4>1. u + 1 \in SeqNo
            BY <1>2, <1>4, <2>1, <2>9, <2>10, StoreExtends
      <4> QED BY <4>1
    <3>2. /\ BothRunning' /\ Confirmed(e)' = l /\ Unconfirmed(e)' = v
          /\ Confirmed(Other(e))' = lo /\ Unconfirmed(Other(e))' = uo
          BY <1>2, <1>4, <2>1, <2>9, <2>10, <3>1, StoreExtends DEF SameAt
    <3>3. /\ Pending(e)' = Pending(e) /\ Pending(Other(e))' = Pending(Other(e))
          /\ receiveCount' = receiveCount
          BY <1>1 DEF Pending
    <3>4. Agree(lo, uo, receiveCount[e], Pending(e), stream[e], Append(stream[Other(e)], f))
      <4>1. /\ Agree(lo, uo, receiveCount[e], Pending(e), stream[e], stream[Other(e)])
            /\ receiveCount[e] \in SeqNo /\ Pending(e) \in 0..1
            /\ stream[e] \in Seq(Frame) /\ stream[Other(e)] \in Seq(Frame)
            BY <1>1, <2>1, AtBothEnds
      <4> QED BY <2>3, <4>1, AgreeBack
    <3>5. Agree(l, v, receiveCount[Other(e)], Pending(Other(e)),
                Append(stream[Other(e)], f), stream[e])
      <4>1. /\ Agree(l, u, receiveCount[Other(e)], Pending(Other(e)), stream[Other(e)], stream[e])
            /\ receiveCount[Other(e)] \in SeqNo /\ Pending(Other(e)) \in 0..1
            /\ stream[e] \in Seq(Frame) /\ stream[Other(e)] \in Seq(Frame)
            BY <1>1, <2>1, AtBothEnds
      <4> QED BY <2>3, <3>1, <4>1, AgreeIn
    <3>6. /\ Agree(lo, uo, receiveCount'[e], Pending(e)', stream'[e], stream'[Other(e)])
          /\ Agree(l, v, receiveCount'[Other(e)], Pending(Other(e))', stream'[Other(e)], stream'[e])
          BY <2>5, <3>3, <3>4, <3>5
    <3>7. /\ sender'[e] # Off => sender'[e] = receiveCount'[e]
          /\ sender'[Other(e)] # Off => sender'[Other(e)] = receiveCount'[Other(e)]
      <4>1. sender[Other(e)] # Off => sender[Other(e)] = receiveCount[Other(e)]
            BY <1>1, AtBothEnds
      <4>2. sender'[e] = Off /\ sender'[Other(e)] = sender[Other(e)]
            BY <1>1, <1>2 DEF LinkTyped
      <4> QED BY <3>3, <4>1, <4>2
    <3>8. Undisturbed'
          BY <3>2, <3>6, <3>7, StillUndisturbed, SMTT(30)
    <3> QED BY <2>6, <2>7, <3>8 DEF LinkInv
  <2> QED BY <2>8, <2>10
<1> QED BY <1>3, <1>4 DEF Write

LEMMA ConsumeTypes ==
  ASSUME LinkTyped, NEW e \in Ends, stream[e] # <<>>, Consume(e)
  PROVE  /\ stream'[e] = Tail(stream[e]) /\ stream'[Other(e)] = stream[Other(e)]
         /\ stream' \in [Ends -> Seq(Frame)] /\ Head(stream[e]) \in Frame
         /\ UNCHANGED <<peer, receiveCount, unconfirmedReceivedIMessages, sender, faults>>
<1>1. /\ stream \in [Ends -> Seq(Frame)] /\ stream[e] \in Seq(Frame)
      /\ stream' = [stream EXCEPT ![e] = Tail(stream[e])]
      /\ UNCHANGED <<peer, receiveCount, unconfirmedReceivedIMessages, sender, faults>>
      BY DEF LinkTyped, Consume
<1>2. Tail(stream[e]) \in Seq(Frame) /\ Head(stream[e]) \in Frame
      BY <1>1, HeadTailProperties
<1> QED BY <1>1, <1>2, TwoEnds

(* A frame is taken from the stream and its N(R) is checked. *)
LEMMA TakeStep ==
  ASSUME LinkInv, Linked, NEW e \in Ends, stream[e] # <<>>, Consume(e), thread[e] = "wait",
         Check(e, Head(stream[e]).nr),
         NEW place \in {"count", "wcheck"}, place = "count" <=> Head(stream[e]).kind = "I",
         NumberIsValid(e, Head(stream[e]).nr) => thread' = [thread EXCEPT ![e] = place]
  PROVE  LinkInv'
<1>1. /\ BothRunning /\ Buffers /\ LinkTyped /\ Other(e) \in Ends /\ Other(e) # e
      /\ Other(Other(e)) = e
      BY AtBothEnds
<1>2. /\ stream'[e] = Tail(stream[e]) /\ stream'[Other(e)] = stream[Other(e)]
      /\ stream' \in [Ends -> Seq(Frame)] /\ Head(stream[e]) \in Frame
      /\ UNCHANGED <<peer, receiveCount, sender, faults>>
      BY <1>1, ConsumeTypes
<1>3. PICK l \in SeqNo, u \in SeqNo, lo \in SeqNo, uo \in SeqNo :
        /\ l = Confirmed(e) /\ u = Unconfirmed(e)
        /\ lo = Confirmed(Other(e)) /\ uo = Unconfirmed(Other(e))
      BY AtBothEnds
<1>4. /\ Agree(lo, uo, receiveCount[e], Pending(e), stream[e], stream[Other(e)])
      /\ Agree(l, u, receiveCount[Other(e)], Pending(Other(e)), stream[Other(e)], stream[e])
      /\ receiveCount[e] \in SeqNo /\ Pending(e) \in 0..1
      /\ receiveCount[Other(e)] \in SeqNo /\ Pending(Other(e)) \in 0..1
      /\ stream[e] \in Seq(Frame) /\ stream[Other(e)] \in Seq(Frame)
      BY <1>3, AtBothEnds
<1>5. PICK d \in 0..u :
        /\ Head(stream[e]).nr = Plus(l, d)
        /\ Agree(Plus(l, d), u - d, receiveCount[Other(e)], Pending(Other(e)),
                 stream[Other(e)], Tail(stream[e]))
      BY <1>4, AgreeTakeBack
<1>6. PICK n \in SeqNo : n = Plus(l, d) /\ n = Head(stream[e]).nr
  <2>1. Plus(l, d) \in SeqNo
        BY PlusType
  <2> QED BY <1>5, <2>1
<1>7. NumberIsValid(e, n)
      BY <1>1, <1>3, <1>6, BufferFacts
<1>8. /\ Buffers' /\ BothRunning' /\ SameAt(Other(e))
      /\ Confirmed(e)' = n /\ Unconfirmed(e)' = u - d
  <2>1. PICK c \in 0..u : /\ n = Plus(l, c) /\ Confirmed(e)' = n
                          /\ Unconfirmed(e)' = u - c
        BY <1>1, <1>3, <1>6, <1>7, CheckKeeps, SMTT(30)
  <2>2. c = d
    <3>1. c \in SeqNo /\ d \in SeqNo
          OBVIOUS
    <3>2. Distance(l, Plus(l, c)) = c
          BY <3>1, DistancePlus
    <3>3. Distance(l, Plus(l, d)) = d
          BY <3>1, DistancePlus
    <3> QED BY <1>6, <2>1, <3>2, <3>3
  <2> QED BY <1>1, <1>6, <1>7, <2>1, <2>2, CheckKeeps
<1>9. thread' = [thread EXCEPT ![e] = place]
      BY <1>6, <1>7
<1>10. /\ Pending(e)' = IF place = "count" THEN 1 ELSE 0
       /\ Pending(Other(e))' = Pending(Other(e)) /\ Pending(e) = 0
       BY <1>1, <1>9 DEF Pending, LinkTyped
<1>11. LinkTyped'
       BY <1>1, <1>2, <1>9 DEF LinkTyped
<1>12. Agree(lo, uo, receiveCount[e], Pending(e)', Tail(stream[e]), stream[Other(e)])
  <2>1. Agree(lo, uo, receiveCount[e], 0, stream[e], stream[Other(e)])
        BY <1>4, <1>10
  <2>2. CASE Head(stream[e]).kind = "I"
        BY <1>4, <1>10, <2>1, <2>2, AgreeTakeI
  <2>3. CASE Head(stream[e]).kind = "S"
    <3>1. 0 \in 0..1 /\ Pending(e)' = 0
          BY <1>10, <2>3
    <3> QED BY <1>4, <2>1, <2>3, <3>1, AgreeTakeS
  <2> QED BY <1>2, <2>2, <2>3 DEF Frame
<1>13. PICK v \in SeqNo : v = u - d
  <2>1. u - d \in SeqNo
        OBVIOUS
  <2> QED BY <2>1
<1>14. /\ Confirmed(e)' = n /\ Unconfirmed(e)' = v
       /\ Confirmed(Other(e))' = lo /\ Unconfirmed(Other(e))' = uo
       BY <1>3, <1>8, <1>13 DEF SameAt
<1>15. /\ Agree(lo, uo, receiveCount'[e], Pending(e)', stream'[e], stream'[Other(e)])
       /\ Agree(n, v, receiveCount'[Other(e)], Pending(Other(e))', stream'[Other(e)], stream'[e])
       BY <1>2, <1>5, <1>6, <1>10, <1>12, <1>13
<1>16. /\ sender'[e] # Off => sender'[e] = receiveCount'[e]
       /\ sender'[Other(e)] # Off => sender'[Other(e)] = receiveCount'[Other(e)]
       BY <1>2, AtBothEnds
<1>17. Undisturbed'
       BY <1>8, <1>14, <1>15, <1>16, StillUndisturbed, SMTT(30)
<1> QED BY <1>8, <1>11, <1>17 DEF LinkInv

LEMMA ReceiveIStep ==
  ASSUME LinkInv, NEW e \in Ends, ReceiveI(e)
  PROVE  LinkInv'
<1>1. /\ Linked /\ thread[e] = "wait" /\ stream[e] # <<>> /\ Head(stream[e]).kind = "I"
      /\ Consume(e)
      BY DEF ReceiveI, Arrived
<1>2. Head(stream[e]).ns = receiveCount[e]
  <2>1. /\ Agree(Confirmed(Other(e)), Unconfirmed(Other(e)), receiveCount[e], Pending(e),
                 stream[e], stream[Other(e)])
        /\ Confirmed(Other(e)) \in SeqNo /\ Unconfirmed(Other(e)) \in SeqNo
        /\ receiveCount[e] \in SeqNo
        /\ stream[e] \in Seq(Frame) /\ stream[Other(e)] \in Seq(Frame)
        BY <1>1, AtBothEnds
  <2>2. Pending(e) = 0
        BY <1>1 DEF Pending
  <2> QED BY <1>1, <2>1, <2>2, AgreeTakeI, SMTT(30)
<1>3. /\ Check(e, Head(stream[e]).nr)
      /\ NumberIsValid(e, Head(stream[e]).nr) => thread' = [thread EXCEPT ![e] = "count"]
      BY <1>2 DEF ReceiveI, Goto
<1> QED BY <1>1, <1>3, TakeStep

LEMMA ReceiveSStep ==
  ASSUME LinkInv, NEW e \in Ends, ReceiveS(e)
  PROVE  LinkInv'
<1>1. /\ Linked /\ thread[e] = "wait" /\ stream[e] # <<>> /\ Head(stream[e]).kind = "S"
      /\ Consume(e) /\ Check(e, Head(stream[e]).nr)
      /\ thread' = [thread EXCEPT ![e] = "wcheck"]
      BY DEF ReceiveS, Arrived, Goto
<1> QED BY <1>1, TakeStep

LEMMA CountFrameStep ==
  ASSUME LinkInv, NEW e \in Ends, CountFrame(e)
  PROVE  LinkInv'
<1>1. /\ Linked /\ thread[e] = "count" /\ thread' = [thread EXCEPT ![e] = "wcheck"]
      /\ receiveCount' = [receiveCount EXCEPT ![e] = Plus(receiveCount[e], 1)]
      /\ faults' = IF sender[e] # Off THEN faults \union {"stale"} ELSE faults
      /\ UNCHANGED <<vars, peer, clientBuffer, sender, stream>>
      BY DEF CountFrame, Goto, Locked
<1>2. /\ BothRunning /\ Buffers /\ LinkTyped /\ Other(e) \in Ends /\ Other(e) # e
      /\ Other(Other(e)) = e /\ receiveCount[e] \in SeqNo
      BY <1>1, AtBothEnds
<1>3. Buffers' /\ BothRunning' /\ SameAt(e) /\ SameAt(Other(e))
  <2>1. UNCHANGED <<vars, clientBuffer>>
        BY <1>1
  <2> QED BY <1>2, <2>1, BuffersSame
<1>4. LinkTyped'
  <2>1. Plus(receiveCount[e], 1) \in SeqNo
    <3>1. 1 \in 0..Modulus
          OBVIOUS
    <3> QED BY <1>2, <3>1, PlusType
  <2> QED BY <1>1, <1>2, <2>1 DEF LinkTyped
<1>5. CASE sender[e] # Off
  <2>1. faults' = faults \union {"stale"}
        BY <1>1, <1>5
  <2> QED BY <1>3, <1>4, <2>1, Faulty
<1>6. CASE sender[e] = Off
  <2>1. PICK l \in SeqNo, u \in SeqNo, lo \in SeqNo, uo \in SeqNo :
          /\ l = Confirmed(e) /\ u = Unconfirmed(e)
          /\ lo = Confirmed(Other(e)) /\ uo = Unconfirmed(Other(e))
        BY <1>1, AtBothEnds
  <2>2. /\ Agree(lo, uo, receiveCount[e], Pending(e), stream[e], stream[Other(e)])
        /\ Agree(l, u, receiveCount[Other(e)], Pending(Other(e)), stream[Other(e)], stream[e])
        /\ stream[e] \in Seq(Frame) /\ stream[Other(e)] \in Seq(Frame)
        BY <1>1, <2>1, AtBothEnds
  <2>3. /\ Pending(e) = 1 /\ Pending(e)' = 0 /\ Pending(Other(e))' = Pending(Other(e))
        /\ receiveCount'[e] = Plus(receiveCount[e], 1)
        /\ receiveCount'[Other(e)] = receiveCount[Other(e)]
        /\ sender' = sender /\ stream' = stream
        BY <1>1, <1>2 DEF Pending, LinkTyped
  <2>4. Agree(lo, uo, Plus(receiveCount[e], 1), 0, stream[e], stream[Other(e)])
    <3>1. Agree(lo, uo, receiveCount[e], 1, stream[e], stream[Other(e)])
          BY <2>2, <2>3
    <3> QED BY <1>2, <2>2, <3>1, AgreeCounted
  <2>5. /\ Agree(lo, uo, receiveCount'[e], Pending(e)', stream'[e], stream'[Other(e)])
        /\ Agree(l, u, receiveCount'[Other(e)], Pending(Other(e))', stream'[Other(e)], stream'[e])
        BY <2>2, <2>3, <2>4
  <2>6. /\ Confirmed(e)' = l /\ Unconfirmed(e)' = u
        /\ Confirmed(Other(e))' = lo /\ Unconfirmed(Other(e))' = uo
        BY <1>3, <2>1 DEF SameAt
  <2>7. /\ sender'[e] # Off => sender'[e] = receiveCount'[e]
        /\ sender'[Other(e)] # Off => sender'[Other(e)] = receiveCount'[Other(e)]
    <3>1. sender[Other(e)] # Off => sender[Other(e)] = receiveCount[Other(e)]
          BY <1>1, AtBothEnds
    <3> QED BY <1>6, <2>3, <3>1
  <2>8. Undisturbed'
        BY <1>3, <2>5, <2>6, <2>7, StillUndisturbed, SMTT(30)
  <2> QED BY <1>3, <1>4, <2>8 DEF LinkInv
<1> QED BY <1>5, <1>6

(* An S frame is written, or the write fails. *)
LEMMA SendSStep ==
  ASSUME LinkInv, Linked, NEW e \in Ends, SendS(e), thread[e] # "count",
         NEW place \in {"wait", "wcheck"}, thread' = [thread EXCEPT ![e] = place],
         UNCHANGED <<peer, receiveCount, sender>>
  PROVE  LinkInv'
<1>1. /\ BothRunning /\ Buffers /\ LinkTyped /\ Other(e) \in Ends /\ Other(e) # e
      /\ Other(Other(e)) = e /\ receiveCount[e] \in SeqNo
      BY AtBothEnds
<1>2. CASE /\ faults' = faults \union {"write"} /\ UNCHANGED stream
           /\ IF e = "server" THEN CloseEnd(e) ELSE UNCHANGED <<vars, clientBuffer>>
  <2>1. Buffers'
        BY <1>1, <1>2, CloseKeeps, BuffersSame
  <2>2. LinkTyped'
        BY <1>1, <1>2 DEF LinkTyped
  <2> QED BY <1>2, <2>1, <2>2, Faulty
<1>3. CASE /\ Transmit(e, [kind |-> "S", ns |-> 0, nr |-> receiveCount[e]])
           /\ UNCHANGED <<vars, clientBuffer, faults>>
  <2>1. PICK l \in SeqNo, u \in SeqNo, lo \in SeqNo, uo \in SeqNo :
          /\ l = Confirmed(e) /\ u = Unconfirmed(e)
          /\ lo = Confirmed(Other(e)) /\ uo = Unconfirmed(Other(e))
        BY AtBothEnds
  <2>2. /\ Agree(lo, uo, receiveCount[e], Pending(e), stream[e], stream[Other(e)])
        /\ Agree(l, u, receiveCount[Other(e)], Pending(Other(e)), stream[Other(e)], stream[e])
        /\ receiveCount[Other(e)] \in SeqNo /\ Pending(e) \in 0..1 /\ Pending(Other(e)) \in 0..1
        /\ stream[e] \in Seq(Frame) /\ stream[Other(e)] \in Seq(Frame)
        BY <2>1, AtBothEnds
  <2>3. PICK f \in Frame : f = [kind |-> "S", ns |-> 0, nr |-> receiveCount[e]]
    <3>1. [kind |-> "S", ns |-> 0, nr |-> receiveCount[e]] \in Frame
          BY <1>1 DEF Frame
    <3> QED BY <3>1
  <2>4. /\ stream'[Other(e)] = Append(stream[Other(e)], f) /\ stream'[e] = stream[e]
        /\ stream' \in [Ends -> Seq(Frame)]
    <3>1. stream \in [Ends -> Seq(Frame)] /\ Append(stream[Other(e)], f) \in Seq(Frame)
          BY <1>1, AppendProperties DEF LinkTyped
    <3>2. stream' = [stream EXCEPT ![Other(e)] = Append(stream[Other(e)], f)]
          BY <1>3, <2>3 DEF Transmit
    <3> QED BY <1>1, <3>1, <3>2
  <2>5. Buffers' /\ BothRunning' /\ SameAt(e) /\ SameAt(Other(e))
    <3>1. UNCHANGED <<vars, clientBuffer>>
          BY <1>3
    <3> QED BY <1>1, <3>1, BuffersSame
  <2>6. LinkTyped'
        BY <1>1, <2>4 DEF LinkTyped
  <2>7. /\ Pending(e)' = Pending(e) /\ Pending(Other(e))' = Pending(Other(e))
        /\ receiveCount' = receiveCount /\ sender' = sender
        BY <1>1 DEF Pending, LinkTyped
  <2>8. Agree(lo, uo, receiveCount[e], Pending(e), stream[e], Append(stream[Other(e)], f))
    <3>1. f.nr = receiveCount[e]
          BY <2>3
    <3> QED BY <1>1, <2>2, <3>1, AgreeBack
  <2>9. Agree(l, u, receiveCount[Other(e)], Pending(Other(e)),
              Append(stream[Other(e)], f), stream[e])
    <3>1. f.kind = "S"
          BY <2>3
    <3> QED BY <2>2, <3>1, AgreeInS
  <2>10. /\ Agree(lo, uo, receiveCount'[e], Pending(e)', stream'[e], stream'[Other(e)])
         /\ Agree(l, u, receiveCount'[Other(e)], Pending(Other(e))', stream'[Other(e)], stream'[e])
         BY <2>4, <2>7, <2>8, <2>9
  <2>11. /\ Confirmed(e)' = l /\ Unconfirmed(e)' = u
         /\ Confirmed(Other(e))' = lo /\ Unconfirmed(Other(e))' = uo
         BY <2>1, <2>5 DEF SameAt
  <2>12. /\ sender'[e] # Off => sender'[e] = receiveCount'[e]
         /\ sender'[Other(e)] # Off => sender'[Other(e)] = receiveCount'[Other(e)]
         BY <2>7, AtBothEnds
  <2>13. Undisturbed'
         BY <2>5, <2>10, <2>11, <2>12, StillUndisturbed, SMTT(30)
  <2> QED BY <2>5, <2>6, <2>13 DEF LinkInv
<1> QED BY <1>2, <1>3 DEF SendS

(* The thread goes on, and leaves or reaches no place where a frame is taken *)
(* but not counted.                                                          *)
LEMMA GotoStep ==
  ASSUME LinkInv, Linked, NEW e \in Ends,
         NEW place \in {"wait", "count", "wcheck"}, place = "count" <=> thread[e] = "count",
         thread' = [thread EXCEPT ![e] = place],
         UNCHANGED <<vars, peer, clientBuffer, receiveCount, sender, stream, faults>>
  PROVE  LinkInv'
<1>1. /\ BothRunning /\ Buffers /\ LinkTyped /\ Other(e) \in Ends /\ Other(e) # e
      /\ Other(Other(e)) = e
      BY AtBothEnds
<1>2. Buffers' /\ BothRunning' /\ SameAt(e) /\ SameAt(Other(e))
  <2>1. UNCHANGED <<vars, clientBuffer>>
        OBVIOUS
  <2> QED BY <1>1, <2>1, BuffersSame
<1>3. LinkTyped'
      BY <1>1 DEF LinkTyped
<1>4. /\ Pending(e)' = Pending(e) /\ Pending(Other(e))' = Pending(Other(e))
      /\ receiveCount' = receiveCount /\ sender' = sender /\ stream' = stream
      BY <1>1 DEF Pending, LinkTyped
<1>5. PICK l \in SeqNo, u \in SeqNo, lo \in SeqNo, uo \in SeqNo :
        /\ l = Confirmed(e) /\ u = Unconfirmed(e)
        /\ lo = Confirmed(Other(e)) /\ uo = Unconfirmed(Other(e))
      BY AtBothEnds
<1>6. /\ Agree(lo, uo, receiveCount[e], Pending(e), stream[e], stream[Other(e)])
      /\ Agree(l, u, receiveCount[Other(e)], Pending(Other(e)), stream[Other(e)], stream[e])
      BY <1>5, AtBothEnds
<1>7. /\ Agree(lo, uo, receiveCount'[e], Pending(e)', stream'[e], stream'[Other(e)])
      /\ Agree(l, u, receiveCount'[Other(e)], Pending(Other(e))', stream'[Other(e)], stream'[e])
      BY <1>4, <1>6
<1>8. /\ Confirmed(e)' = l /\ Unconfirmed(e)' = u
      /\ Confirmed(Other(e))' = lo /\ Unconfirmed(Other(e))' = uo
      BY <1>2, <1>5 DEF SameAt
<1>9. /\ sender'[e] # Off => sender'[e] = receiveCount'[e]
      /\ sender'[Other(e)] # Off => sender'[Other(e)] = receiveCount'[Other(e)]
      BY <1>4, AtBothEnds
<1>10. Undisturbed'
       BY <1>2, <1>7, <1>8, <1>9, StillUndisturbed, SMTT(30)
<1> QED BY <1>2, <1>3, <1>10 DEF LinkInv

LEMMA CheckWStep ==
  ASSUME LinkInv, NEW e \in Ends, CheckW(e)
  PROVE  LinkInv'
<1>1. /\ Linked /\ thread[e] # "count" /\ thread' = [thread EXCEPT ![e] = "wait"]
      /\ UNCHANGED <<peer, receiveCount, sender>>
      BY DEF CheckW, Goto
<1>2. CASE SendS(e)
      BY <1>1, <1>2, SendSStep
<1>3. CASE UNCHANGED <<vars, clientBuffer, unconfirmedReceivedIMessages, stream, faults>>
      BY <1>1, <1>3, GotoStep
<1> QED BY <1>2, <1>3 DEF CheckW

LEMMA TimeoutT2Step ==
  ASSUME LinkInv, NEW e \in Ends, TimeoutT2(e)
  PROVE  LinkInv'
<1>1. /\ Linked /\ thread[e] = "wait" /\ SendS(e)
      /\ UNCHANGED <<peer, receiveCount, thread, sender>>
      BY DEF TimeoutT2
<1>2. thread' = [thread EXCEPT ![e] = "wait"]
  <2>1. thread \in [Ends -> {"wait", "count", "wcheck"}]
        BY DEF LinkInv, LinkTyped
  <2> QED BY <1>1, <2>1
<1> QED BY <1>1, <1>2, SendSStep

LEMMA ReceivePartStep ==
  ASSUME LinkInv, NEW e \in Ends, ReceivePart(e)
  PROVE  LinkInv'
<1>1. /\ CloseEnd(e) /\ faults' = faults \union {"part"}
      /\ UNCHANGED <<receiveCount, sender, thread, stream>>
      BY DEF ReceivePart
<1>2. Buffers'
      BY <1>1, CloseKeeps DEF LinkInv
<1>3. LinkTyped'
      BY <1>1 DEF LinkInv, LinkTyped
<1> QED BY <1>1, <1>2, <1>3, Faulty

(* An arbitrary client: the connection is not between two ends of the        *)
(* library, and the server's k-buffer alone matters.                         *)
LEMMA ArbitraryStep ==
  ASSUME LinkInv, peer = "arbitrary", Next, UNCHANGED <<peer, clientBuffer, link>>
  PROVE  LinkInv'
<1>1. IInv'
      BY NextStep DEF LinkInv, Buffers
<1>2. (CP!IInv)'
  <2>1. CP!IInv
        BY DEF LinkInv, Buffers
  <2>2. loopRunning \in BOOLEAN
        BY <2>1 DEF CP!IInv, CP!TypeOK
  <2>3. UNCHANGED <<clientSentASDUs, clientOldest, clientNewest, clientSendCount, loopRunning>>
        BY DEF clientBuffer
  <2> QED BY <2>1, <2>2, <2>3, ClientStays
<1>3. LinkTyped'
      BY DEF LinkInv, LinkTyped, link
<1>4. ~Linked'
      BY DEF Linked
<1> QED BY <1>1, <1>2, <1>3, <1>4 DEF LinkInv, Buffers

LEMMA TestRoomStep ==
  ASSUME LinkInv, TestRoom
  PROVE  LinkInv'
<1>1. /\ Linked
      /\ UNCHANGED <<vars, peer, clientBuffer, receiveCount, thread, sender, stream, faults>>
      BY DEF TestRoom
<1>2. thread \in [Ends -> {"wait", "count", "wcheck"}] /\ "client" \in Ends
      BY DEF LinkInv, LinkTyped
<1>3. PICK place \in {"wait", "count", "wcheck"} : place = thread["client"]
      BY <1>2
<1>4. thread' = [thread EXCEPT !["client"] = place]
      BY <1>1, <1>2, <1>3
<1> QED BY <1>1, <1>2, <1>3, <1>4, GotoStep

(* A step that leaves the server's ring and the holder of its lock alone. *)
LEMMA RoomStays ==
  ASSUME RoomInv, Linked, UNCHANGED <<oldestSentASDU, newestSentASDU>>,
         sender'["server"] = sender["server"]
  PROVE  RoomInv'
BY DEF RoomInv, Locked, Full, Empty, Up

LEMMA RoomLeft ==
  ASSUME sender'["server"] = Off
  PROVE  RoomInv'
BY DEF RoomInv, Locked

(* Nothing is stored between the test and the write, and a number is checked *)
(* under the same lock.                                                      *)
LEMMA RoomStep ==
  ASSUME LinkTyped, RoomInv, [LinkNext]_linkVars
  PROVE  RoomInv'
<1>1. sender \in [Ends -> SeqNo \union {Off}]
      BY DEF LinkTyped
<1>2. CASE UNCHANGED linkVars
      BY <1>2 DEF linkVars, vars, link, RoomInv, Linked, Locked, Full, Empty, Up
<1>3. CASE TestRoom
      BY <1>3, RoomStays DEF TestRoom, vars
<1>4. CASE peer = "arbitrary" /\ Next /\ UNCHANGED <<peer, clientBuffer, link>>
      BY <1>4 DEF RoomInv, Linked
<1>5. ASSUME NEW e \in Ends, CloseEnd(e) \/ UNCHANGED vars, Linked,
             sender'["server"] = sender["server"]
      PROVE  RoomInv'
  <2>1. UNCHANGED <<oldestSentASDU, newestSentASDU>>
        BY <1>5 DEF CloseEnd, vars
  <2> QED BY <1>5, <2>1, RoomStays
<1>6. ASSUME NEW e \in Ends, Prepare(e) PROVE RoomInv'
  <2>1. CASE e = "server"
        BY <1>6, <2>1 DEF Prepare, vars, RoomInv, Full, Empty, Up
  <2>2. CASE e = "client"
        BY <1>1, <1>6, <2>2, RoomStays DEF Prepare, vars
  <2> QED BY <2>1, <2>2
<1>7. ASSUME NEW e \in Ends, Write(e) PROVE RoomInv'
  <2>1. CASE e = "server"
        BY <1>1, <1>7, <2>1, RoomLeft DEF Write
  <2>2. CASE e = "client"
        BY <1>1, <1>7, <2>2, RoomStays DEF Write, Store, vars
  <2> QED BY <2>1, <2>2
<1>8. ASSUME NEW e \in Ends, NEW n, Check(e, n), ~Locked(e), Linked, UNCHANGED sender
      PROVE  RoomInv'
  <2>1. CASE e = "server"
        BY <1>8, <2>1, RoomLeft DEF Locked
  <2>2. CASE e = "client"
        BY <1>8, <2>2, RoomStays DEF Check, vars
  <2> QED BY <2>1, <2>2
<1>9. ASSUME NEW e \in Ends, Receive(e) PROVE RoomInv'
  <2>1. CASE ReceiveI(e)
        BY <1>5, <1>8, <2>1 DEF ReceiveI, Arrived, Consume
  <2>2. CASE ReceiveS(e)
        BY <1>8, <2>2 DEF ReceiveS, Arrived, Consume
  <2>3. CASE CountFrame(e)
        BY <1>5, <2>3 DEF CountFrame
  <2>4. CASE CheckW(e)
        BY <1>5, <2>4 DEF CheckW, SendS
  <2> QED BY <1>9, <2>1, <2>2, <2>3, <2>4 DEF Receive
<1>10. ASSUME NEW e \in Ends, ReceivePart(e) \/ TimeoutT2(e) PROVE RoomInv'
       BY <1>5, <1>10 DEF ReceivePart, Arrived, TimeoutT2, SendS
<1> QED BY <1>2, <1>3, <1>4, <1>6, <1>7, <1>9, <1>10 DEF LinkNext

LEMMA LinkStep ==
  ASSUME LinkInv, RoomInv, [LinkNext]_linkVars
  PROVE  LinkInv'
<1>1. CASE UNCHANGED linkVars
  <2>1. UNCHANGED <<vars, peer, clientBuffer, receiveCount, thread, sender, stream, faults>>
        BY <1>1 DEF linkVars, link
  <2>2. Buffers /\ LinkTyped
        BY DEF LinkInv
  <2>3. CASE Linked
    <3>1. PICK place \in {"wait", "count", "wcheck"} : place = thread["server"]
          BY <2>2 DEF LinkTyped
    <3>2. thread' = [thread EXCEPT !["server"] = place] /\ "server" \in Ends
          BY <2>1, <2>2, <3>1 DEF LinkTyped
    <3> QED BY <2>1, <2>3, <3>1, <3>2, GotoStep
  <2>4. CASE ~Linked
    <3>1. Buffers'
      <4>1. UNCHANGED <<vars, clientBuffer>>
            BY <2>1
      <4> QED BY <2>2, <4>1, BuffersSame
    <3>2. LinkTyped' /\ ~Linked'
          BY <2>1, <2>2, <2>4 DEF LinkTyped, Linked
    <3> QED BY <3>1, <3>2 DEF LinkInv
  <2> QED BY <2>3, <2>4
<1>2. ASSUME NEW e \in Ends,
             Prepare(e) \/ Write(e) \/ Receive(e) \/ ReceivePart(e) \/ TimeoutT2(e)
      PROVE  LinkInv'
      BY <1>2, PrepareStep, WriteStep, ReceiveIStep, ReceiveSStep, CountFrameStep, CheckWStep,
         ReceivePartStep, TimeoutT2Step DEF Receive
<1>3. CASE peer = "arbitrary" /\ Next /\ UNCHANGED <<peer, clientBuffer, link>>
      BY <1>3, ArbitraryStep
<1>4. CASE TestRoom
      BY <1>4, TestRoomStep
<1> QED BY <1>1, <1>2, <1>3, <1>4 DEF LinkNext

LEMMA LinkInitially == LinkInit => LinkInv /\ RoomInv
<1> SUFFICES ASSUME LinkInit PROVE LinkInv /\ RoomInv
    OBVIOUS
<1>1. IInv /\ isRunning /\ Count = 0 /\ LastConfirmed = 0
      BY DEF LinkInit, Init, IInv, TypeOK, WindowOK, Count, Empty, LastConfirmed, Plus
<1>2. CP!IInv /\ loopRunning /\ Client!Count = 0 /\ Client!LastConfirmed = 0
  <2>1. CP!Init
        BY DEF LinkInit, Client!Init, CP!Init, Client!Slots, CP!Slots
  <2>2. CP!IInv /\ CP!Count = 0 /\ CP!LastConfirmed = 0 /\ loopRunning
        BY <2>1 DEF CP!Init, CP!IInv, CP!TypeOK, CP!WindowOK, CP!Count, CP!Empty,
                    CP!LastConfirmed, CP!Plus, CP!Slots, CP!SeqNo
  <2> QED BY <2>2, SameClient
<1>3. /\ receiveCount = [e \in Ends |-> 0] /\ thread = [e \in Ends |-> "wait"]
      /\ sender = [e \in Ends |-> Off] /\ stream = [e \in Ends |-> <<>>]
      BY DEF LinkInit
<1>4. LinkTyped
      BY <1>3 DEF LinkTyped
<1>5. ASSUME NEW e \in Ends
      PROVE  Direction(e) /\ (Locked(e) => sender[e] = receiveCount[e])
  <2>1. Other(e) \in Ends
        BY TwoEnds
  <2>2. Confirmed(Other(e)) = 0 /\ Unconfirmed(Other(e)) = 0
        BY <1>1, <1>2 DEF Confirmed, Unconfirmed
  <2>3. /\ receiveCount[e] = 0 /\ Pending(e) = 0 /\ ~Locked(e)
        /\ stream[e] = <<>> /\ stream[Other(e)] = <<>>
        BY <1>3, <2>1 DEF Pending, Locked
  <2>4. Agree(0, 0, 0, 0, <<>>, <<>>)
    <3>1. Plus(0, 0) = 0 /\ 0 \in 0..0 /\ 0 + 0 <= 0
          BY DEF Plus
    <3>2. Carries(0, 0 + 0, 0, <<>>)
          BY DEF Carries
    <3>3. Confirms(0, 0, <<>>)
          BY DEF Confirms
    <3> QED BY <3>1, <3>2, <3>3 DEF Agree
  <2> QED BY <2>2, <2>3, <2>4 DEF Direction
<1>6. LinkInv
      BY <1>1, <1>2, <1>4, <1>5 DEF LinkInv, Buffers, Undisturbed, BothRunning
<1>7. RoomInv
      BY <1>3 DEF RoomInv, Locked
<1> QED BY <1>6, <1>7

THEOREM LinkInvariance == LinkSpec => [](LinkInv /\ RoomInv)
<1>1. LinkInv /\ RoomInv /\ [LinkNext]_linkVars => (LinkInv /\ RoomInv)'
      BY LinkStep, RoomStep DEF LinkInv
<1> QED BY <1>1, LinkInitially, PTL DEF LinkSpec

-----------------------------------------------------------------------------
(* Two ends of this library never refuse each other's frames (handleMessage, *)
(* checkMessage, checkSequenceNumber), whatever k, w and the number of the   *)
(* sending threads are, until one of the faults of NeverRefused: a write     *)
(* failed, a frame came in parts, an N(R) was outdated, or two threads of the*)
(* client filled the last place of its k-buffer, which is tested without the *)
(* lock (sendASDUInternal). At the server that cannot happen: RoomInv.       *)
THEOREM FramesNeverRefused == LinkSpec => []NeverRefused
<1>1. LinkInv => NeverRefused
      BY DEF LinkInv, Undisturbed, NeverRefused
<1> QED BY <1>1, LinkInvariance, PTL

(* The I frames between the number counted next and the one to be sent next  *)
(* are all on the way, in order.                                             *)
Complete(counted, next, in) ==
  LET coming   == {i \in DOMAIN in : in[i].kind = "I"}
      Place(i) == Distance(counted, in[i].ns)
  IN  /\ \A i, j \in coming : i < j => Place(i) < Place(j)
      /\ {Place(i) : i \in coming} = 0..(Distance(counted, next) - 1)

LEMMA AgreeComplete ==
  ASSUME NEW l \in SeqNo, NEW u \in SeqNo, NEW c \in SeqNo, NEW p \in 0..1,
         NEW in \in Seq(Frame), NEW back \in Seq(Frame), Agree(l, u, c, p, in, back)
  PROVE  /\ Complete(IF p = 1 THEN Plus(c, 1) ELSE c, Plus(l, u), in)
         /\ \E d \in 0..u : c = Plus(l, d)
<1> DEFINE counted  == IF p = 1 THEN Plus(c, 1) ELSE c
           coming   == {i \in DOMAIN in : in[i].kind = "I"}
           Place(i) == Distance(counted, in[i].ns)
<1>1. PICK r \in 0..u : /\ c = Plus(l, r) /\ r + p <= u
                        /\ Carries(l, r + p, u, in) /\ Confirms(l, r, back)
      BY DEF Agree
<1>2. PICK q \in 0..u : q = r + p
      BY <1>1
<1>3. counted = Plus(l, q)
      BY <1>1, <1>2 DEF Plus
<1>4. Carries(counted, 0, u - q, in)
  <2>1. q \in Nat /\ q \in 0..q /\ q <= u
        BY <1>2
  <2>2. Carries(Plus(l, q), q - q, u - q, in)
        BY <1>1, <1>2, <2>1, CarriesShift
  <2>3. q - q = 0
        BY <2>1
  <2> QED BY <1>3, <2>2, <2>3
<1>5. Distance(counted, Plus(l, u)) = u - q
  <2>1. Plus(l, u) \in SeqNo /\ Distance(l, Plus(l, u)) = u
        BY DistancePlus, PlusType
  <2>2. q \in SeqNo /\ q <= u
        BY <1>2
  <2>3. Distance(Plus(l, q), Plus(l, u)) = Distance(l, Plus(l, u)) - q
        BY <2>1, <2>2, DistanceShift
  <2> QED BY <1>3, <2>1, <2>3
<1> HIDE DEF counted
<1>6. DOMAIN in = 1..Len(in)
      BY LenProperties
<1>7. \A i, j \in coming : i < j => Place(i) < Place(j)
      BY <1>4, <1>6 DEF Carries
<1>8. {Place(i) : i \in coming} = 0..(u - q - 1)
  <2>1. ASSUME NEW i \in coming PROVE Place(i) \in 0..(u - q - 1)
        BY <1>4, <1>6, <2>1 DEF Carries
  <2>2. ASSUME NEW y \in 0..(u - q - 1) PROVE \E i \in coming : Place(i) = y
        BY <1>4, <1>6, <2>2 DEF Carries
  <2> QED BY <2>1, <2>2
<1>9. Complete(counted, Plus(l, u), in)
      BY <1>5, <1>7, <1>8 DEF Complete
<1> QED BY <1>1, <1>9 DEF counted

(* The two ends agree on the frames between them and on the frames confirmed *)
(* (sendIMessage, handleMessage, checkMessage, checkSequenceNumber), for     *)
(* every position of the window in the range of the numbers, until one of    *)
(* the faults of NeverRefused, an overflow of the client's ring among them.  *)
THEOREM AgreementOfEnds == LinkSpec => []EndsAgree
<1>1. ASSUME LinkInv PROVE EndsAgree
  <2>1. ASSUME Linked, NEW e \in Ends
        PROVE  LET counted == IF thread[e] = "count"
                              THEN Plus(receiveCount[e], 1) ELSE receiveCount[e]
               IN  /\ Complete(counted, NextNumber(Other(e)), stream[e])
                   /\ \E d \in 0..Unconfirmed(Other(e)) :
                        receiveCount[e] = Plus(Confirmed(Other(e)), d)
    <3>1. PICK l \in SeqNo, u \in SeqNo, c \in SeqNo, p \in 0..1, in \in Seq(Frame),
               back \in Seq(Frame) :
            /\ l = Confirmed(Other(e)) /\ u = Unconfirmed(Other(e)) /\ c = receiveCount[e]
            /\ p = Pending(e) /\ in = stream[e] /\ back = stream[Other(e)]
            /\ Agree(l, u, c, p, in, back)
          BY <1>1, <2>1, AtBothEnds
    <3>2. NextNumber(Other(e)) = Plus(l, u)
          BY <1>1, <2>1, <3>1, AtBothEnds, BufferFacts
    <3>3. (IF thread[e] = "count" THEN Plus(receiveCount[e], 1) ELSE receiveCount[e])
            = (IF p = 1 THEN Plus(c, 1) ELSE c)
          BY <3>1 DEF Pending
    <3>4. /\ Complete(IF p = 1 THEN Plus(c, 1) ELSE c, Plus(l, u), in)
          /\ \E d \in 0..u : c = Plus(l, d)
          BY <3>1, AgreeComplete, SMTT(30)
    <3> QED BY <3>1, <3>2, <3>3, <3>4
  <2> QED BY <2>1, Zenon DEF EndsAgree, Complete, IFramesTo
<1> QED BY <1>1, LinkInvariance, PTL

(* The window of the server's k-buffer, with either kind of client: its      *)
(* numbers are consecutive (sendASDU) and a number is accepted exactly if it *)
(* is in the window (checkSequenceNumber).                                   *)
THEOREM LinkWindow == LinkSpec => [](TypeOK /\ WindowOK /\ AcceptsExactlyWindow)
<1>1. LinkInv => TypeOK /\ WindowOK /\ AcceptsExactlyWindow
      BY AcceptedNumbers DEF LinkInv, Buffers, IInv, AcceptsExactlyWindow
<1> QED BY <1>1, LinkInvariance, PTL

(* An accepted number takes exactly the frames it confirms out of the        *)
(* server's k-buffer, with either kind of client (checkSequenceNumber).      *)
THEOREM LinkRemoves == LinkSpec => RemovesExactlyConfirmed
<1>1. LinkInv => [UNCHANGED vars \/
                  \A n \in SeqNo : isRunning /\ SeqNoIsValid(n) /\ CheckSequenceNumber(n) =>
                    \E d \in 0..Count :
                      /\ n = Plus(LastConfirmed, d)
                      /\ LastConfirmed' = n
                      /\ Count' = Count - d
                      /\ \A e \in 0..(Count - d - 1) : EntryAt(e)' = EntryAt(e + d)
                      /\ markedAsdus' = {EntryAt(e).queueIndex : e \in 0..(d - 1)} \ {-1}]_vars
      BY CheckKeepsRest DEF LinkInv, Buffers
<1> QED BY <1>1, LinkInvariance, PTL DEF RemovesExactlyConfirmed
=============================================================================
