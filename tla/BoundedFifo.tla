----------------------------- MODULE BoundedFifo ----------------------------
(* What the high-priority queue of the server promises: a bounded FIFO that  *)
(* refuses an ASDU when it is full and can be emptied.                       *)
EXTENDS Integers, Sequences

CONSTANTS Size,   \* capacity (maxHighPrioQueueSize)
          Asdu,   \* the ASDUs
          NoAsdu  \* no ASDU

VARIABLES fifo,     \* queued ASDUs, oldest first
          accepted, \* result of the last enqueue: was the ASDU queued
          taken     \* the ASDU the last get returned, NoAsdu if none

fifoVars == <<fifo, accepted, taken>>

Init == fifo = <<>> /\ accepted = TRUE /\ taken = NoAsdu

Enqueue(a) ==
  \/ /\ Len(fifo) < Size
     /\ fifo' = Append(fifo, a)
     /\ accepted' = TRUE
     /\ taken' = taken
  \/ /\ Len(fifo) = Size
     /\ accepted' = FALSE
     /\ UNCHANGED <<fifo, taken>>

Get ==
  \/ fifo = <<>> /\ taken' = NoAsdu /\ UNCHANGED <<fifo, accepted>>
  \/ fifo # <<>> /\ taken' = Head(fifo) /\ fifo' = Tail(fifo) /\ UNCHANGED accepted

Reset == fifo' = <<>> /\ UNCHANGED <<accepted, taken>>

Next == Get \/ Reset \/ \E a \in Asdu : Enqueue(a)

Spec == Init /\ [][Next]_fifoVars
=============================================================================
