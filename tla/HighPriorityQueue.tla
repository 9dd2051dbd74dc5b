-------------------------- MODULE HighPriorityQueue -------------------------
(* The high-priority queue of a redundancy group: responses that did not fit *)
(* into the k-buffer of a connection wait here. A ring like MessageQueue,    *)
(* but entries are taken out when they are sent, a full queue refuses, and   *)
(* STARTDT empties it. Every operation runs under the queue's semaphore.     *)
EXTENDS Integers, Sequences

CONSTANTS Size,   \* maxHighPrioQueueSize
          Asdu,   \* the ASDUs that are queued
          NoAsdu  \* the NULL frame

ASSUME HighPrioAssumption == Size \in Nat \ {0} /\ NoAsdu \notin Asdu

VARIABLES entryCounter, firstMsgIndex, lastMsgIndex,
          asdus,     \* the frames; a slot keeps its frame when it is taken
          accepted,  \* return value of the last enqueue
          taken      \* return value of the last getNextASDU

vars == <<entryCounter, firstMsgIndex, lastMsgIndex, asdus, accepted, taken>>

Index == 0..(Size - 1)

(* (i + 1) % Size for i in Index. *)
Successor(i) == IF i + 1 = Size THEN 0 ELSE i + 1

Init ==
  /\ entryCounter = 0 /\ firstMsgIndex = 0 /\ lastMsgIndex = 0
  /\ asdus = [i \in Index |-> NoAsdu]
  /\ accepted = TRUE /\ taken = NoAsdu

(* Mutated form of Enqueue: the full test comes after the entry is written.  *)
EnqueueOverwrites(a) ==
  LET nextIndex == IF entryCounter = 0 THEN 0 ELSE Successor(lastMsgIndex)
  IN  /\ asdus' = [asdus EXCEPT ![nextIndex] = a]
      /\ accepted' = (entryCounter # Size)
      /\ IF entryCounter = Size
         THEN UNCHANGED <<entryCounter, firstMsgIndex, lastMsgIndex>>
         ELSE /\ entryCounter' = entryCounter + 1
              /\ firstMsgIndex' = IF entryCounter = 0 THEN 0 ELSE firstMsgIndex
              /\ lastMsgIndex' = nextIndex
      /\ UNCHANGED taken

Enqueue(a) ==
  IF entryCounter = Size
  THEN accepted' = FALSE /\ UNCHANGED <<entryCounter, firstMsgIndex, lastMsgIndex, asdus, taken>>
  ELSE LET nextIndex == IF entryCounter = 0 THEN 0 ELSE Successor(lastMsgIndex)
       IN  /\ firstMsgIndex' = IF entryCounter = 0 THEN 0 ELSE firstMsgIndex
           /\ lastMsgIndex' = nextIndex
           /\ entryCounter' = entryCounter + 1
           /\ asdus' = [asdus EXCEPT ![nextIndex] = a]
           /\ accepted' = TRUE
           /\ UNCHANGED taken

GetNextASDU ==
  \/ /\ entryCounter = 0
     /\ taken' = NoAsdu
     /\ UNCHANGED <<entryCounter, firstMsgIndex, lastMsgIndex, asdus, accepted>>
  \/ /\ entryCounter = 1
     /\ taken' = asdus[firstMsgIndex]
     /\ entryCounter' = 0 /\ firstMsgIndex' = -1 /\ lastMsgIndex' = -1
     /\ UNCHANGED <<asdus, accepted>>
  \/ /\ entryCounter \notin {0, 1}
     /\ taken' = asdus[firstMsgIndex]
     /\ entryCounter' = entryCounter - 1
     /\ firstMsgIndex' = Successor(firstMsgIndex)
     /\ UNCHANGED <<lastMsgIndex, asdus, accepted>>

(* STARTDT discards what is queued. *)
ResetConnectionQueue ==
  /\ entryCounter' = 0 /\ firstMsgIndex' = 0 /\ lastMsgIndex' = 0
  /\ UNCHANGED <<asdus, accepted, taken>>

Next ==
  \/ \E a \in Asdu : Enqueue(a)
  \/ GetNextASDU
  \/ ResetConnectionQueue

Spec == Init /\ [][Next]_vars

-----------------------------------------------------------------------------
(* Every variable has the type the C struct gives it, and the indices of a   *)
(* non-empty queue point into the array.                                     *)
TypeOK ==
  /\ entryCounter \in 0..Size
  /\ firstMsgIndex \in -1..(Size - 1) /\ lastMsgIndex \in -1..(Size - 1)
  /\ asdus \in [Index -> Asdu \union {NoAsdu}]
  /\ accepted \in BOOLEAN /\ taken \in Asdu \union {NoAsdu}

(* The slot d places after the oldest. *)
SlotAt(d) == IF firstMsgIndex + d >= Size THEN firstMsgIndex + d - Size ELSE firstMsgIndex + d

(* The entryCounter slots from firstMsgIndex end at lastMsgIndex and hold    *)
(* frames: what getNextASDU returns was enqueued, not left over.             *)
RingOK ==
  entryCounter > 0 =>
    /\ firstMsgIndex \in Index
    /\ lastMsgIndex = SlotAt(entryCounter - 1)
    /\ \A d \in 0..(entryCounter - 1) : asdus[SlotAt(d)] \in Asdu

Fifo == [d \in 1..entryCounter |-> asdus[SlotAt(d - 1)]]

BF == INSTANCE BoundedFifo WITH fifo <- Fifo

(* The ring implements a bounded FIFO: responses leave in the order they     *)
(* were queued, none is duplicated, overwritten or resurrected after a       *)
(* reset, and an enqueue fails exactly when Size responses are queued.       *)
ImplementsFifo == BF!Spec
=============================================================================
