----------------------------- MODULE EventQueue -----------------------------
(* What the low-priority queue of the server promises, independent of the    *)
(* ring that implements it: events leave in the order they came in, each is  *)
(* handed to a connection at most once, a full queue drops its oldest event  *)
(* and nothing else, and a confirmation removes the oldest events handed out.*)
EXTENDS Integers, Sequences

CONSTANTS Size,      \* capacity (maxLowPrioQueueSize)
          MaxAsdu    \* bound of a run: events are the numbers 1..MaxAsdu

VARIABLES events,    \* the events kept, oldest first
          handedOut, \* the first handedOut of them were given to a connection
          enqueued   \* number of events accepted so far; the next one is enqueued + 1

eventVars == <<events, handedOut, enqueued>>

Init == events = <<>> /\ handedOut = 0 /\ enqueued = 0

Enqueue ==
  /\ enqueued < MaxAsdu
  /\ enqueued' = enqueued + 1
  /\ \/ /\ Len(events) < Size
        /\ events' = Append(events, enqueued + 1)
        /\ handedOut' = handedOut
     \/ /\ Len(events) = Size
        /\ events' = Append(Tail(events), enqueued + 1)
        /\ handedOut' = IF handedOut > 0 THEN handedOut - 1 ELSE 0

HandOut ==
  /\ handedOut < Len(events)
  /\ handedOut' = handedOut + 1
  /\ UNCHANGED <<events, enqueued>>

Confirm ==
  \E n \in 1..handedOut :
    /\ events' = SubSeq(events, n + 1, Len(events))
    /\ handedOut' = handedOut - n
    /\ UNCHANGED enqueued

(* The owner of the server discards everything when it is destroyed. *)
Discard == events' = <<>> /\ handedOut' = 0 /\ UNCHANGED enqueued

Next == Enqueue \/ HandOut \/ Confirm \/ Discard

Spec == Init /\ [][Next]_eventVars

=============================================================================
