---------------------------- MODULE MessageQueue ----------------------------
(* The low-priority ("event") queue of a CS104 server: a ring of slots that  *)
(* the application fills and the connections of a redundancy group share.    *)
(* Every operation runs under the queue's semaphore, so each is one action.  *)
(* A connection remembers what it took as a handle (slot index, time stamp)  *)
(* in its k-buffer and hands it back when the client confirms.               *)
EXTENDS Integers, Sequences

CONSTANTS Size,        \* maxQueueSize
          Conns,       \* connections that share the queue
          K,           \* handles a connection may hold (APCI parameter k)
          MaxTime,     \* bound of a run: last value of the millisecond clock
          MaxAsdu      \* bound of a run: number of ASDUs enqueued

ASSUME QueueAssumption ==
  /\ Size \in Nat \ {0}
  /\ K \in Nat \ {0}
  /\ MaxTime \in Nat /\ MaxAsdu \in Nat

NotUsed == "NOT_USED"
Waiting == "WAITING_FOR_TRANSMISSION"
Sent    == "SENT_BUT_NOT_CONFIRMED"

NoSlot == -1

Index == 0..(Size - 1)
Slot  == [entryTimestamp : 0..MaxTime, asdu : 0..MaxAsdu,
          state : {NotUsed, Waiting, Sent}]
Handle == [queueIndex : Index, entryTime : 0..MaxTime, asdu : 0..MaxAsdu]

VARIABLES entryCounter, firstMsgIndex, lastMsgIndex, asdus,
          sentASDUs,   \* per connection: the handles it holds, oldest first
          released,    \* CS104_Slave_destroy has released the queue
          now,         \* Hal_getTimeInMs
          enqueued,    \* history: number of ASDUs enqueued, and the name of the last
          confirmed,   \* history: ASDUs a client confirmed
          repeated     \* history: two ASDUs were enqueued in the same millisecond

ring == <<entryCounter, firstMsgIndex, lastMsgIndex, asdus>>
vars == <<ring, sentASDUs, released, now, enqueued, confirmed, repeated>>

-----------------------------------------------------------------------------
(* Index arithmetic of the ring. Up is (i + d) % Size and Down its inverse,  *)
(* for i in Index and d in 0..Size, written without a division.              *)
Up(i, d)   == IF i + d >= Size THEN i + d - Size ELSE i + d
Down(i, d) == IF d > i THEN i - d + Size ELSE i - d

StateAt(i) == asdus[i].state

(* MessageQueue_getNextWaitingASDU: scan forward from the oldest entry over  *)
(* sent entries, once around at most; the slot to send, or NoSlot.             *)
ScanStop ==
  {d \in Index : /\ StateAt(Up(firstMsgIndex, d)) # Sent
                 /\ \A e \in 0..(d - 1) : StateAt(Up(firstMsgIndex, e)) = Sent}

NextWaiting ==
  IF entryCounter # 0 /\ \E d \in ScanStop : StateAt(Up(firstMsgIndex, d)) = Waiting
  THEN Up(firstMsgIndex, CHOOSE d \in ScanStop : TRUE)
  ELSE NoSlot

(* MessageQueue_markAsduAsConfirmed sweeps backward from the confirmed slot; *)
(* after removing the slot d steps back it stops for one of four reasons.    *)
SweepStops(i, d) ==
  \/ entryCounter - (d + 1) = 0
  \/ Down(i, d) = firstMsgIndex
  \/ d = Size - 1
  \/ StateAt(Down(i, d + 1)) # Sent

SweepLength(i) ==
  CHOOSE d \in Index : SweepStops(i, d) /\ \A e \in 0..(d - 1) : ~SweepStops(i, e)

(* Mutated form of HandleMatches: the time stamp is not compared. *)
HandleMatchesIndexOnly(h) == entryCounter > 0 /\ StateAt(h.queueIndex) = Sent

(* The guard of the sweep: the slot still holds what the handle names. *)
HandleMatches(h) ==
  /\ entryCounter > 0
  /\ StateAt(h.queueIndex) = Sent
  /\ asdus[h.queueIndex].entryTimestamp = h.entryTime

MarkAsduAsConfirmed(h) ==
  IF ~HandleMatches(h)
  THEN UNCHANGED ring
  ELSE LET i == h.queueIndex
           d == SweepLength(i)
           swept == {Down(i, e) : e \in 0..d}
           left == entryCounter - (d + 1)
           atFirst == Down(i, d) = firstMsgIndex
       IN  /\ entryCounter' = left
           /\ asdus' = [s \in Index |->
                          IF s \in swept
                          THEN [entryTimestamp |-> 0, asdu |-> asdus[s].asdu,
                                state |-> NotUsed]
                          ELSE asdus[s]]
           /\ firstMsgIndex' = IF left = 0 THEN -1
                               ELSE IF atFirst THEN Up(i, 1) ELSE firstMsgIndex
           /\ lastMsgIndex' = IF left = 0 THEN -1
                              ELSE IF atFirst /\ left = 1 THEN Up(i, 1) ELSE lastMsgIndex

-----------------------------------------------------------------------------
Init ==
  /\ entryCounter = 0 /\ firstMsgIndex = 0 /\ lastMsgIndex = 0
  /\ asdus = [s \in Index |-> [entryTimestamp |-> 0, asdu |-> 0, state |-> NotUsed]]
  /\ sentASDUs = [c \in Conns |-> <<>>]
  /\ released = FALSE
  /\ now = 0 /\ enqueued = 0 /\ confirmed = {} /\ repeated = FALSE

(* Mutated form of EnqueueASDU: a full queue overwrites the newest event. *)
EnqueueOverNewest(t) ==
  LET full == entryCounter = Size
      nextIndex == IF entryCounter = 0 THEN 0
                   ELSE IF full THEN lastMsgIndex ELSE Up(lastMsgIndex, 1)
  IN  /\ ~released
      /\ enqueued < MaxAsdu
      /\ now' = t
      /\ repeated' = (repeated \/ t = now)
      /\ enqueued' = enqueued + 1
      /\ lastMsgIndex' = nextIndex
      /\ entryCounter' = IF full THEN entryCounter ELSE entryCounter + 1
      /\ firstMsgIndex' = IF entryCounter = 0 THEN 0 ELSE firstMsgIndex
      /\ asdus' = [asdus EXCEPT ![nextIndex] =
                     [entryTimestamp |-> t, asdu |-> enqueued + 1, state |-> Waiting]]
      /\ UNCHANGED <<sentASDUs, released, confirmed>>

(* Mutated form of EnqueueASDU: the oldest entry is overwritten but          *)
(* firstMsgIndex still points to its slot.                                   *)
EnqueueKeepsFirst(t) ==
  LET nextIndex == IF entryCounter = 0 THEN 0 ELSE Up(lastMsgIndex, 1)
  IN  /\ ~released
      /\ enqueued < MaxAsdu
      /\ now' = t
      /\ repeated' = (repeated \/ t = now)
      /\ enqueued' = enqueued + 1
      /\ lastMsgIndex' = nextIndex
      /\ entryCounter' = IF entryCounter = Size THEN entryCounter ELSE entryCounter + 1
      /\ firstMsgIndex' = IF entryCounter = 0 THEN 0 ELSE firstMsgIndex
      /\ asdus' = [asdus EXCEPT ![nextIndex] =
                     [entryTimestamp |-> t, asdu |-> enqueued + 1, state |-> Waiting]]
      /\ UNCHANGED <<sentASDUs, released, confirmed>>

(* The application (or a callback) adds an event. The clock is read under    *)
(* the lock; t is what it shows.                                             *)
EnqueueASDU(t) ==
  LET nextIndex == IF entryCounter = 0 THEN 0 ELSE Up(lastMsgIndex, 1)
      full == entryCounter = Size
  IN  /\ ~released
      /\ enqueued < MaxAsdu
      /\ now' = t
      /\ repeated' = (repeated \/ t = now)
      /\ enqueued' = enqueued + 1
      /\ lastMsgIndex' = nextIndex
      /\ entryCounter' = IF full THEN entryCounter ELSE entryCounter + 1
      /\ firstMsgIndex' = IF full THEN Up(nextIndex, 1)
                          ELSE IF entryCounter = 0 THEN 0 ELSE firstMsgIndex
      /\ asdus' = [asdus EXCEPT ![nextIndex] =
                     [entryTimestamp |-> t, asdu |-> enqueued + 1, state |-> Waiting]]
      /\ UNCHANGED <<sentASDUs, released, confirmed>>

(* sendNextLowPriorityASDU of connection c: take the next waiting entry and  *)
(* store its handle in the k-buffer, unless the k-buffer is full.            *)
SendNext(c) ==
  /\ Len(sentASDUs[c]) < K
  /\ NextWaiting # NoSlot
  /\ asdus' = [asdus EXCEPT ![NextWaiting].state = Sent]
  /\ sentASDUs' = [sentASDUs EXCEPT ![c] = Append(@,
                     [queueIndex |-> NextWaiting,
                      entryTime |-> asdus[NextWaiting].entryTimestamp,
                      asdu |-> asdus[NextWaiting].asdu])]
  /\ UNCHANGED <<entryCounter, firstMsgIndex, lastMsgIndex, released, now,
                 enqueued, confirmed, repeated>>

(* checkSequenceNumber of connection c gives back its oldest handle. *)
Confirm(c) ==
  /\ sentASDUs[c] # <<>>
  /\ MarkAsduAsConfirmed(Head(sentASDUs[c]))
  /\ sentASDUs' = [sentASDUs EXCEPT ![c] = Tail(@)]
  /\ confirmed' = confirmed \union {Head(sentASDUs[c]).asdu}
  /\ UNCHANGED <<released, now, enqueued, repeated>>

(* The connection closes: its k-buffer goes, the queue is not told. *)
ConnectionLost(c) ==
  /\ sentASDUs[c] # <<>>
  /\ sentASDUs' = [sentASDUs EXCEPT ![c] = <<>>]
  /\ UNCHANGED <<ring, released, now, enqueued, confirmed, repeated>>

(* CS104_Slave_destroy; connections keep running until it has closed them,   *)
(* the application no longer uses the server. The slots keep their states.   *)
ReleaseAllQueuedASDUs ==
  /\ ~released
  /\ released' = TRUE
  /\ entryCounter' = 0 /\ firstMsgIndex' = 0 /\ lastMsgIndex' = 0
  /\ UNCHANGED <<asdus, sentASDUs, now, enqueued, confirmed, repeated>>

Enqueue == \E t \in {now, now + 1} : t \in 1..MaxTime /\ EnqueueASDU(t)

Next ==
  \/ Enqueue
  \/ \E c \in Conns : SendNext(c) \/ Confirm(c) \/ ConnectionLost(c)
  \/ ReleaseAllQueuedASDUs

Spec == Init /\ [][Next]_vars

-----------------------------------------------------------------------------
(* Every variable has the type the C struct gives it. *)
TypeOK ==
  /\ entryCounter \in 0..Size
  /\ firstMsgIndex \in -1..(Size - 1) /\ lastMsgIndex \in -1..(Size - 1)
  /\ asdus \in [Index -> Slot]
  /\ sentASDUs \in [Conns -> Seq(Handle)]
  /\ released \in BOOLEAN
  /\ now \in 0..MaxTime /\ enqueued \in 0..MaxAsdu
  /\ confirmed \subseteq 0..MaxAsdu
  /\ repeated \in BOOLEAN

(* Distance of slot i from the oldest entry. *)
Offset(i) == IF i >= firstMsgIndex THEN i - firstMsgIndex ELSE i - firstMsgIndex + Size

(* Used slots are the entryCounter slots from firstMsgIndex to lastMsgIndex. *)
Contiguous ==
  entryCounter > 0 =>
    /\ firstMsgIndex \in Index
    /\ lastMsgIndex = Up(firstMsgIndex, entryCounter - 1)
    /\ \A i \in Index : StateAt(i) # NotUsed <=> Offset(i) < entryCounter

(* An empty queue has no used slot that a scan or a sweep could still meet. *)
EmptyIsClean ==
  entryCounter = 0 /\ ~released => \A i \in Index : StateAt(i) = NotUsed

(* Sent entries are older than waiting ones. *)
SentPrefix ==
  entryCounter > 0 =>
    \A i, j \in Index : /\ Offset(i) < Offset(j)
                        /\ StateAt(j) = Sent
                        => StateAt(i) = Sent

(* A released queue stays empty, whatever its slots still hold. *)
ReleasedIsEmpty == released => entryCounter = 0

(* The ring is one contiguous block of used slots, sent entries first: the   *)
(* state in which both loops of the code stop where they should.             *)
RingOK == Contiguous /\ EmptyIsClean /\ SentPrefix /\ ReleasedIsEmpty

(* As long as no two events were enqueued in one millisecond, handles that   *)
(* still match name the event that was sent with them: a slot that was       *)
(* overwritten and sent again is never taken for the old event.              *)
HandlesNameTheirEvent ==
  ~repeated =>
    \A c \in Conns : \A n \in 1..Len(sentASDUs[c]) :
      HandleMatches(sentASDUs[c][n]) =>
        asdus[sentASDUs[c][n].queueIndex].asdu = sentASDUs[c][n].asdu

(* The confirmation by c takes no waiting event and none newer than the one  *)
(* it is for.                                                                *)
RemovesOnlyOlder(c) ==
  \A i \in Index :
    asdus'[i].state # StateAt(i) =>
      /\ StateAt(i) = Sent
      /\ asdus[i].asdu <= Head(sentASDUs[c]).asdu

(* A confirmation removes no waiting event and no event newer than the one   *)
(* confirmed, whichever connections the entries were sent on and however     *)
(* often the slots were reused meanwhile (markAsduAsConfirmed).              *)
ConfirmRemovesOnlyOlder ==
  [][\A c \in Conns : Confirm(c) => RemovesOnlyOlder(c)]_vars

(* The same, as long as no two events were enqueued in one millisecond.      *)
ConfirmRemovesOnlyOlderInOrder ==
  [][~repeated => \A c \in Conns : Confirm(c) => RemovesOnlyOlder(c)]_vars

(* Refinement: the events from the oldest on, and how many are handed out.   *)
Events == [d \in 1..entryCounter |-> asdus[Up(firstMsgIndex, d - 1)].asdu]

HandedOut ==
  CHOOSE n \in 0..entryCounter :
    \A d \in 0..(entryCounter - 1) : StateAt(Up(firstMsgIndex, d)) = Sent <=> d < n

EQ == INSTANCE EventQueue WITH events <- Events, handedOut <- HandedOut

(* The ring implements the abstract event queue: order kept, handed out at   *)
(* most once, oldest dropped first, only handed-out prefixes confirmed.      *)
ImplementsEventQueue == EQ!Spec

(* A confirmation never takes an event that no client confirmed and no       *)
(* connection still waits for. lib60870_config.h:41 says of this queue that it buffers    *)
(* ASDUs when the connection is lost; entries sent on a lost connection,     *)
(* which no client confirmed, are swept with the next confirmation.          *)
LostEventsStayBuffered ==
  [][\A c \in Conns : Confirm(c) =>
       \A i \in Index : asdus'[i].state # StateAt(i) =>
         \/ asdus[i].asdu \in confirmed'
         \/ \E o \in Conns : \E n \in 1..Len(sentASDUs[o]) :
              sentASDUs[o][n].asdu = asdus[i].asdu]_vars
=============================================================================
