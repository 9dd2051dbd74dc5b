--------------------------- MODULE RedundancyGroup --------------------------
(* The connections of one redundancy group and what they share: the table of *)
(* connections with their isActive flags, which CS104_Slave_activate changes *)
(* from the thread of one connection for all others, the high-priority queue *)
(* (through BoundedFifo, which HighPriorityQueue implements) and the event   *)
(* queue, here only a number of waiting events. Each connection thread runs  *)
(* between the points where another thread can get in its way.               *)
EXTENDS Integers, Sequences, FiniteSets

CONSTANTS Conns,        \* connections accepted during a run, each once
          K,            \* frames in the k-buffer of a connection
          HighSize,     \* maxHighPrioQueueSize
          NoAsdu,       \* the NULL frame
          MaxResponses, \* bounds of a run: responses the handlers produce ...
          MaxEvents     \* ... and events waiting

ASSUME GroupAssumption ==
  /\ K \in Nat \ {0} /\ HighSize \in Nat \ {0}
  /\ MaxResponses \in Nat /\ MaxEvents \in Nat

Response == [id : 1..MaxResponses, owner : Conns]

VARIABLES
  phase,     \* where the thread of a connection is
  isActive,
  inFlight,  \* frames in the k-buffer of a connection
  fifo,      \* high-priority queue of the group
  accepted,  \* its last enqueue put the ASDU in
  taken,     \* ASDU its last getNextASDU returned
  responses, \* responses produced so far
  events,    \* waiting events in the low-priority queue
  overlapped \* history: a STARTDT was handled while the thread of another
             \* connection of the group was past its own test of isActive

highQueue == <<fifo, accepted, taken>>
vars == <<phase, isActive, inFlight, highQueue, responses, events, overlapped>>

HQ == INSTANCE BoundedFifo WITH Size <- HighSize, Asdu <- Response

Phase == {"new", "wait", "activate", "reset", "handler", "locked", "queue", "loop",
          "send", "take", "closed"}

(* A thread that activates its connection, or has found it active and is     *)
(* about to answer or to empty the queue.                                    *)
Committed == {"activate", "locked", "queue", "send", "take"}

Init ==
  /\ phase = [c \in Conns |-> "new"]
  /\ isActive = [c \in Conns |-> FALSE]
  /\ inFlight = [c \in Conns |-> 0]
  /\ HQ!Init
  /\ responses = 0 /\ events = 0 /\ overlapped = FALSE

Goto(c, from, to) == phase[c] = from /\ phase' = [phase EXCEPT ![c] = to]

(* serverThread: the connection enters the table and its thread starts.      *)
Open(c) ==
  /\ Goto(c, "new", "wait")
  /\ UNCHANGED <<isActive, inFlight, highQueue, responses, events, overlapped>>

(* The thread leaves its loop; CS104_Slave_removeConnection. The queues of   *)
(* the group are not touched.                                                *)
Close(c) ==
  /\ Goto(c, "wait", "closed")
  /\ isActive' = [isActive EXCEPT ![c] = FALSE]
  /\ inFlight' = [inFlight EXCEPT ![c] = 0]
  /\ UNCHANGED <<highQueue, responses, events, overlapped>>

(* Mutated form of StartDT: the loop deactivates nobody. *)
StartDTKeepsOthers(c) ==
  /\ Goto(c, "wait", "activate")
  /\ overlapped' = (overlapped \/ \E o \in Conns \ {c} : phase[o] \in Committed)
  /\ UNCHANGED <<isActive, inFlight, highQueue, responses, events>>

(* STARTDT: CS104_Slave_activate deactivates the others under               *)
(* openConnectionsLock, ...                                                  *)
StartDT(c) ==
  /\ Goto(c, "wait", "activate")
  /\ isActive' = [o \in Conns |-> o = c /\ isActive[c]]
  /\ overlapped' = (overlapped \/ \E o \in Conns \ {c} : phase[o] \in Committed)
  /\ UNCHANGED <<inFlight, highQueue, responses, events>>

(* ... activates this connection after the lock is released, ...             *)
Activate(c) ==
  /\ Goto(c, "activate", "reset")
  /\ isActive' = [isActive EXCEPT ![c] = TRUE]
  /\ UNCHANGED <<inFlight, highQueue, responses, events, overlapped>>

(* Mutated form of ResetConnectionQueue: nothing is removed. *)
ResetConnectionQueueNot(c) ==
  /\ Goto(c, "reset", "loop")
  /\ UNCHANGED <<isActive, inFlight, highQueue, responses, events, overlapped>>

(* ... and handleMessage empties the high-priority queue.                    *)
ResetConnectionQueue(c) ==
  /\ Goto(c, "reset", "loop")
  /\ HQ!Reset
  /\ UNCHANGED <<isActive, inFlight, responses, events, overlapped>>

(* STOPDT. *)
StopDT(c) ==
  /\ Goto(c, "wait", "loop")
  /\ isActive' = [isActive EXCEPT ![c] = FALSE]
  /\ UNCHANGED <<inFlight, highQueue, responses, events, overlapped>>

(* An I frame confirms d frames; on an active connection it is handled.      *)
ReceiveI(c, d) ==
  /\ Goto(c, "wait", IF isActive[c] THEN "handler" ELSE "loop")
  /\ inFlight' = [inFlight EXCEPT ![c] = @ - d]
  /\ UNCHANGED <<isActive, highQueue, responses, events, overlapped>>

(* An S frame, or (d = 0) anything else that changes nothing here: a TESTFR  *)
(* frame, or no message within the timeout of the wait.                      *)
ReceiveS(c, d) ==
  /\ Goto(c, "wait", "loop")
  /\ inFlight' = [inFlight EXCEPT ![c] = @ - d]
  /\ UNCHANGED <<isActive, highQueue, responses, events, overlapped>>

(* sendASDUInternal by a handler: isActive is tested first and without lock. *)
(* An inactive connection drops the response.                                *)
Respond(c) ==
  /\ responses < MaxResponses
  /\ Goto(c, "handler", IF isActive[c] THEN "locked" ELSE "handler")
  /\ responses' = responses + 1
  /\ UNCHANGED <<isActive, inFlight, highQueue, events, overlapped>>

(* Under sentASDUsLock: sent at once if the k-buffer has room.               *)
SendDirect(c) ==
  /\ IF inFlight[c] < K
     THEN Goto(c, "locked", "handler") /\ inFlight' = [inFlight EXCEPT ![c] = @ + 1]
     ELSE Goto(c, "locked", "queue") /\ UNCHANGED inFlight
  /\ UNCHANGED <<isActive, highQueue, responses, events, overlapped>>

(* Otherwise, and after the lock is released, it is queued or dropped. The   *)
(* response is named by the number of responses there are now.               *)
EnqueueHigh(c) ==
  /\ Goto(c, "queue", "handler")
  /\ HQ!Enqueue([id |-> responses, owner |-> c])
  /\ UNCHANGED <<isActive, inFlight, responses, events, overlapped>>

HandlerReturns(c) ==
  /\ Goto(c, "handler", "loop")
  /\ UNCHANGED <<isActive, inFlight, highQueue, responses, events, overlapped>>

(* handleTimeouts has run; sendWaitingASDUs only on an active connection.    *)
Loop(c) ==
  /\ Goto(c, "loop", IF isActive[c] THEN "send" ELSE "wait")
  /\ UNCHANGED <<isActive, inFlight, highQueue, responses, events, overlapped>>

(* sendWaitingASDUs: as long as the high-priority queue has an ASDU ...      *)
HighAvailable(c) ==
  /\ fifo # <<>>
  /\ Goto(c, "send", "take")
  /\ UNCHANGED <<isActive, inFlight, highQueue, responses, events, overlapped>>

(* ... sendNextHighPriorityASDU takes one, unless the k-buffer is full or    *)
(* another connection took the last.                                         *)
TakeHigh(c) ==
  /\ IF inFlight[c] < K
     THEN /\ HQ!Get
          /\ Goto(c, "take", IF fifo # <<>> THEN "send" ELSE "wait")
          /\ inFlight' = [inFlight EXCEPT ![c] = IF fifo # <<>> THEN @ + 1 ELSE @]
     ELSE Goto(c, "take", "wait") /\ UNCHANGED <<highQueue, inFlight, overlapped>>
  /\ UNCHANGED <<isActive, responses, events, overlapped>>

(* Mutated form of SendLow: events first. *)
SendLowFirst(c) ==
  /\ Goto(c, "send", "wait")
  /\ IF inFlight[c] < K /\ events > 0
     THEN events' = events - 1 /\ inFlight' = [inFlight EXCEPT ![c] = @ + 1]
     ELSE UNCHANGED <<events, inFlight, overlapped>>
  /\ UNCHANGED <<isActive, highQueue, responses, overlapped>>

(* When it is empty, one event is sent.                                      *)
SendLow(c) ==
  /\ fifo = <<>>
  /\ Goto(c, "send", "wait")
  /\ IF inFlight[c] < K /\ events > 0
     THEN events' = events - 1 /\ inFlight' = [inFlight EXCEPT ![c] = @ + 1]
     ELSE UNCHANGED <<events, inFlight, overlapped>>
  /\ UNCHANGED <<isActive, highQueue, responses, overlapped>>

(* CS104_Slave_enqueueASDU. *)
EnqueueEvent ==
  /\ events < MaxEvents
  /\ events' = events + 1
  /\ UNCHANGED <<phase, isActive, inFlight, highQueue, responses, overlapped>>

(* What the thread does between two waits, once no handler goes on sending.  *)
Thread(c) ==
  \/ Activate(c) \/ ResetConnectionQueue(c)
  \/ SendDirect(c) \/ EnqueueHigh(c) \/ HandlerReturns(c)
  \/ Loop(c) \/ HighAvailable(c) \/ TakeHigh(c) \/ SendLow(c)

Confirms(c) == \E d \in 1..inFlight[c] : ReceiveI(c, d) \/ ReceiveS(c, d)

Next ==
  \/ EnqueueEvent
  \/ \E c \in Conns :
       \/ Open(c) \/ Close(c) \/ StartDT(c) \/ StopDT(c)
       \/ ReceiveI(c, 0) \/ ReceiveS(c, 0) \/ Confirms(c)
       \/ Respond(c) \/ Thread(c)

(* Threads are scheduled, handlers return, the wait of a thread times out;   *)
(* and a client that does not confirm is closed by T1 (SlaveConnection).     *)
Fairness ==
  \A c \in Conns :
    /\ WF_vars(Thread(c))
    /\ WF_vars(ReceiveS(c, 0))
    /\ SF_vars(Confirms(c) \/ (inFlight[c] > 0 /\ Close(c)))

Spec == Init /\ [][Next]_vars /\ Fairness

-----------------------------------------------------------------------------
(* Every variable is of its type; no k-buffer holds more than k frames.      *)
TypeOK ==
  /\ phase \in [Conns -> Phase]
  /\ isActive \in [Conns -> BOOLEAN]
  /\ inFlight \in [Conns -> 0..K]
  /\ fifo \in Seq(Response) /\ Len(fifo) <= HighSize
  /\ accepted \in BOOLEAN /\ taken \in Response \union {NoAsdu}
  /\ responses \in 0..MaxResponses /\ events \in 0..MaxEvents
  /\ overlapped \in BOOLEAN

(* At most one connection of the group is active, as the comment on          *)
(* CS104_Slave_activate has it: "Activate connection and deactivate existing *)
(* active connections if required".                                          *)
AtMostOneActive == \A c, o \in Conns : isActive[c] /\ isActive[o] => c = o

(* It is so as long as no STARTDT meets a committed thread: deactivating the *)
(* others and activating oneself later is enough then.                       *)
OneActiveInOrder == ~overlapped => AtMostOneActive

(* The response c takes out of the queue is its own. *)
TakesOwn(c) == TakeHigh(c) /\ fifo' # fifo => Head(fifo).owner = c

(* The queue of the group is used as a "connection specific ASDU queue"      *)
(* (lib60870_config.h:49): the response a handler gives on one connection is *)
(* never sent on another.                                                    *)
OwnResponses == [][\A c \in Conns : TakesOwn(c)]_vars

(* It is so as long as no STARTDT meets a committed thread, although nobody  *)
(* empties the queue when a connection with queued responses is lost.        *)
OwnResponsesInOrder == [][~overlapped => \A c \in Conns : TakesOwn(c)]_vars

Queued(id) == \E i \in DOMAIN fifo : fifo[i].id = id /\ isActive[fifo[i].owner]

(* A queued response does not wait forever for a connection that stays       *)
(* active, although events, direct responses and other connections compete.  *)
ResponsesLeave == \A id \in 1..MaxResponses : Queued(id) ~> ~Queued(id)
=============================================================================
