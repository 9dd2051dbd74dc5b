----------------------------- MODULE SentBuffer -----------------------------
(* The k-buffer of a server connection: a ring of the I frames sent and not  *)
(* confirmed, with sequence numbers that wrap around. Sending and checking a *)
(* received sequence number both run under sentASDUsLock, so each is one     *)
(* action. The client is arbitrary: any number it can encode may arrive.     *)
EXTENDS Integers

CONSTANTS K,        \* maxSentASDUs
          Modulus   \* number of sequence numbers (32768)

(* k is smaller than the range of the sequence numbers: the k-buffer array   *)
(* has CONFIG_CS104_MAX_K_BUFFER_SIZE = 30 elements.                         *)
ASSUME SentBufferAssumption ==
  /\ K \in Nat \ {0} /\ Modulus \in Nat \ {0}
  /\ K < Modulus

VARIABLES sentASDUs,      \* per slot: N(S) + 1 of the frame, and its queueIndex
          oldestSentASDU, newestSentASDU,
          sendCount,      \* N(S) of the next frame
          isRunning,      \* FALSE once a write failed or a number was refused
          markedAsdus     \* queue slots given to MessageQueue_markAsduAsConfirmed
                          \* by the last sequence number check

vars == <<sentASDUs, oldestSentASDU, newestSentASDU, sendCount, isRunning, markedAsdus>>

Slots == 0..(K - 1)
SeqNo == 0..(Modulus - 1)

(* (i + d) % K and (n + d) % Modulus, for arguments that wrap at most once.  *)
Up(i, d)   == IF i + d >= K THEN i + d - K ELSE i + d
Plus(n, d) == IF n + d >= Modulus THEN n + d - Modulus ELSE n + d

Empty == oldestSentASDU = -1

(* isSentBufferFull *)
Full == ~Empty /\ Up(newestSentASDU, 1) = oldestSentASDU

(* Number of frames in the buffer, and the sequence number of the one d      *)
(* places after the oldest.                                                  *)
Count == IF Empty THEN 0
         ELSE IF newestSentASDU >= oldestSentASDU
         THEN newestSentASDU - oldestSentASDU + 1
         ELSE newestSentASDU - oldestSentASDU + 1 + K
EntryAt(d) == sentASDUs[Up(oldestSentASDU, d)]
SeqNoAt(d) == EntryAt(d).seqNo

Oldest == SeqNoAt(0)
Newest == sentASDUs[newestSentASDU].seqNo

counterOverflowDetected == Oldest > Newest
oldestValidSeqNo == IF Oldest = 0 THEN Modulus - 1 ELSE Oldest - 1

(* Mutated form of SeqNoIsValid: the wrap-around is not taken into account.  *)
SeqNoIsValidNoWrap(n) ==
  IF Empty THEN n = sendCount
  ELSE (Oldest <= n /\ n <= Newest) \/ n = oldestValidSeqNo

(* The first half of checkSequenceNumber: the number must be that of a frame *)
(* in the buffer or of the one confirmed last.                               *)
SeqNoIsValid(n) ==
  IF Empty THEN n = sendCount
  ELSE \/ ~counterOverflowDetected /\ Oldest <= n /\ n <= Newest
       \/ counterOverflowDetected /\ (Oldest <= n \/ n <= Newest)
       \/ n = oldestValidSeqNo

(* Its second half removes frames from the oldest on. The loop stops before  *)
(* entry d when the entry is newer than n, and after it when it is n's own.  *)
StopsBefore(n, d) ==
  \/ ~counterOverflowDetected /\ n < SeqNoAt(d)
  \/ n = oldestValidSeqNo

(* Mutated form of Removed: the loop stops before the confirmed frame.       *)
RemovedOneLess(n) ==
  CHOOSE r \in 0..Count :
    /\ \A d \in 0..(r - 1) : ~StopsBefore(n, d) /\ SeqNoAt(d) # n
    /\ r = Count \/ StopsBefore(n, r) \/ SeqNoAt(r) = n

Removed(n) ==
  CHOOSE r \in 0..Count :
    /\ \A d \in 0..(r - 1) : ~StopsBefore(n, d)
    /\ \A d \in 0..(r - 2) : SeqNoAt(d) # n
    /\ r = Count \/ StopsBefore(n, r) \/ (r > 0 /\ SeqNoAt(r - 1) = n)

-----------------------------------------------------------------------------
Init ==
  /\ sentASDUs = [i \in Slots |-> [seqNo |-> 0, queueIndex |-> -1]]
  /\ oldestSentASDU = -1 /\ newestSentASDU = -1
  /\ sendCount = 0
  /\ isRunning = TRUE
  /\ markedAsdus = {}

(* Mutated form of SendASDU: the frame is stored under its own N(S).         *)
SendASDUOwnNumber(index, written) ==
  LET currentIndex == IF Empty THEN 0 ELSE Up(newestSentASDU, 1)
  IN  /\ oldestSentASDU' = IF Empty THEN 0 ELSE oldestSentASDU
      /\ newestSentASDU' = currentIndex
      /\ sendCount' = IF written THEN Plus(sendCount, 1) ELSE sendCount
      /\ isRunning' = (isRunning /\ written)
      /\ sentASDUs' = [sentASDUs EXCEPT ![currentIndex] =
                         [seqNo |-> sendCount, queueIndex |-> index]]
      /\ UNCHANGED markedAsdus

(* sendASDU and sendIMessage. The frame is stored under the number that will *)
(* confirm it. When the write fails the number does not advance, the frame   *)
(* is stored all the same and the connection is on its way down. The test of *)
(* isSentBufferFull is the callers': into a full ring the frame goes over    *)
(* the oldest one, and the ring takes the others for gone.                   *)
SendASDU(index, written) ==
  LET currentIndex == IF Empty THEN 0 ELSE Up(newestSentASDU, 1)
  IN  /\ oldestSentASDU' = IF Empty THEN 0 ELSE oldestSentASDU
      /\ newestSentASDU' = currentIndex
      /\ sendCount' = IF written THEN Plus(sendCount, 1) ELSE sendCount
      /\ isRunning' = (isRunning /\ written)
      /\ sentASDUs' = [sentASDUs EXCEPT ![currentIndex] =
                         [seqNo |-> sendCount', queueIndex |-> index]]
      /\ UNCHANGED markedAsdus

(* A sequence number arrives in an I or S frame. A frame the window does not *)
(* know makes handleMessage return false, and the connection closes.         *)
CheckSequenceNumber(n) ==
  \/ /\ ~SeqNoIsValid(n)
     /\ isRunning' = FALSE
     /\ UNCHANGED <<sentASDUs, oldestSentASDU, newestSentASDU, sendCount, markedAsdus>>
  \/ /\ SeqNoIsValid(n)
     /\ LET r == IF Empty THEN 0 ELSE Removed(n)
        IN  /\ oldestSentASDU' = IF r = Count THEN -1 ELSE Up(oldestSentASDU, r)
            /\ markedAsdus' = {EntryAt(d).queueIndex : d \in 0..(r - 1)} \ {-1}
     /\ UNCHANGED <<sentASDUs, newestSentASDU, sendCount, isRunning>>

(* The server tests isSentBufferFull under the lock under which it sends.    *)
(* Every frame of the buffer carries its slot as queueIndex, or -1 if it is  *)
(* a response: enough to tell which frames were given back.                  *)
Send ==
  LET currentIndex == IF Empty THEN 0 ELSE Up(newestSentASDU, 1)
  IN  ~Full /\ \E index \in {-1, currentIndex}, written \in BOOLEAN : SendASDU(index, written)

(* A handler or an application thread may go on sending after a failed       *)
(* write; the connection thread reads no further frame.                      *)
Next == Send \/ (isRunning /\ \E n \in SeqNo : CheckSequenceNumber(n))

Spec == Init /\ [][Next]_vars

-----------------------------------------------------------------------------
(* Every variable has the type the C struct gives it. *)
TypeOK ==
  /\ sentASDUs \in [Slots -> [seqNo : SeqNo, queueIndex : -1..(K - 1)]]
  /\ oldestSentASDU \in -1..(K - 1) /\ newestSentASDU \in -1..(K - 1)
  /\ ~Empty => newestSentASDU \in Slots
  /\ sendCount \in SeqNo
  /\ isRunning \in BOOLEAN
  /\ markedAsdus \subseteq Slots

(* The number the client confirmed last, as the buffer remembers it. *)
LastConfirmed == IF Empty THEN sendCount ELSE oldestValidSeqNo

(* While the connection runs, the frames in the buffer carry consecutive     *)
(* numbers up to sendCount, across the wrap-around (sendASDU, sendIMessage). *)
WindowOK ==
  isRunning =>
    /\ \A d \in 0..(Count - 1) : SeqNoAt(d) = Plus(LastConfirmed, d + 1)
    /\ sendCount = Plus(LastConfirmed, Count)

(* A sequence number is accepted exactly if it confirms between none and all *)
(* of the unconfirmed frames, wherever the window lies in the number range.  *)
AcceptsExactlyWindow ==
  isRunning =>
    \A n \in SeqNo : SeqNoIsValid(n) <=> \E d \in 0..Count : n = Plus(LastConfirmed, d)

(* An accepted number takes exactly the frames it confirms out of the buffer,*)
(* reports the events among them to the queue and keeps all later frames.    *)
RemovesExactlyConfirmed ==
  [][UNCHANGED vars \/
     \A n \in SeqNo : isRunning /\ SeqNoIsValid(n) /\ CheckSequenceNumber(n) =>
       \E d \in 0..Count :
         /\ n = Plus(LastConfirmed, d)
         /\ LastConfirmed' = n
         /\ Count' = Count - d
         /\ \A e \in 0..(Count - d - 1) : EntryAt(e)' = EntryAt(e + d)
         /\ markedAsdus' = {EntryAt(e).queueIndex : e \in 0..(d - 1)} \ {-1}]_vars
=============================================================================
