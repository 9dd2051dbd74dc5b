-------------------------------- MODULE Link --------------------------------
(* A connection as both ends see it. The server's k-buffer is SentBuffer; at *)
(* the other end is the library's client with its own k-buffer and a copy of *)
(* the same code, joined to the server by a TCP stream in each direction, or *)
(* an arbitrary client that sends any number it can encode. Each end has the *)
(* thread of its connection and other threads that send: they read N(R),     *)
(* write and reset the counter of unconfirmed frames under the lock of the   *)
(* k-buffer, but the connection's thread changes those two without it, and   *)
(* the client tests without it whether the k-buffer is full.                 *)
EXTENDS SentBuffer, Sequences

CONSTANTS ClientK,          \* maxSentASDUs of the client
          ServerW, ClientW, \* parameter w of each end
          ClientSenders     \* threads that send at the client at a time

Ends == {"server", "client"}

ASSUME LinkAssumption ==
  /\ ClientK \in Nat \ {0} /\ ClientK < Modulus
  /\ {ServerW, ClientW, ClientSenders} \subseteq Nat \ {0}

VARIABLES
  peer,              \* "client": the library's; "arbitrary"
  clientSentASDUs, clientOldest, clientNewest, clientSendCount, \* its k-buffer
  loopRunning,       \* the loop of its thread goes on
  receiveCount, unconfirmedReceivedIMessages, \* of each end
  thread,            \* where the thread of the connection is
  tested,            \* threads of the client that have found room, without the lock
  sender,            \* N(R) of the frame that a thread is about to write
  stream,            \* frames on their way to an end
  faults             \* history: what may end the connection, see NeverRefused

clientBuffer == <<clientSentASDUs, clientOldest, clientNewest, clientSendCount, loopRunning>>
link         == <<receiveCount, unconfirmedReceivedIMessages, thread, tested, sender, stream,
                  faults>>
linkVars     == <<vars, peer, clientBuffer, link>>

Client == INSTANCE SentBuffer WITH
  K <- ClientK, sentASDUs <- clientSentASDUs, oldestSentASDU <- clientOldest,
  newestSentASDU <- clientNewest, sendCount <- clientSendCount,
  isRunning <- loopRunning, markedAsdus <- {}

W(e) == IF e = "server" THEN ServerW ELSE ClientW

Off == -1
Other(e) == IF e = "server" THEN "client" ELSE "server"

LinkInit ==
  /\ Init /\ Client!Init
  /\ peer \in {"client", "arbitrary"}
  /\ receiveCount = [e \in Ends |-> 0]
  /\ unconfirmedReceivedIMessages = [e \in Ends |-> 0]
  /\ thread = [e \in Ends |-> "wait"]
  /\ tested = 0
  /\ sender = [e \in Ends |-> Off]
  /\ stream = [e \in Ends |-> <<>>]
  /\ faults = {}

-----------------------------------------------------------------------------
(* An end and its k-buffer. *)
Running(e)      == IF e = "server" THEN isRunning ELSE loopRunning
BufferFull(e)   == IF e = "server" THEN Full ELSE Client!Full
Unconfirmed(e)  == IF e = "server" THEN Count ELSE Client!Count
Confirmed(e)    == IF e = "server" THEN LastConfirmed ELSE Client!LastConfirmed
NextNumber(e)   == IF e = "server" THEN sendCount ELSE clientSendCount
NumberIsValid(e, n) == IF e = "server" THEN SeqNoIsValid(n) ELSE Client!SeqNoIsValid(n)

(* Every frame of the server is an event: its slot names it. The client      *)
(* gives no handles, and takes a failed write for a good one: the connection *)
(* is gone, and the next read says so.                                       *)
Store(e, written) ==
  IF e = "server"
  THEN SendASDU(IF Empty THEN 0 ELSE Up(newestSentASDU, 1), written) /\ UNCHANGED clientBuffer
  ELSE Client!SendASDU(-1, TRUE) /\ UNCHANGED vars

Check(e, n) ==
  IF e = "server"
  THEN CheckSequenceNumber(n) /\ UNCHANGED clientBuffer
  ELSE Client!CheckSequenceNumber(n) /\ UNCHANGED vars

(* handleMessage or checkMessage returns false: the loop ends.               *)
CloseEnd(e) ==
  IF e = "server"
  THEN /\ isRunning' = FALSE
       /\ UNCHANGED <<sentASDUs, oldestSentASDU, newestSentASDU, sendCount, markedAsdus,
                      clientBuffer>>
  ELSE /\ loopRunning' = FALSE
       /\ UNCHANGED <<vars, clientSentASDUs, clientOldest, clientNewest, clientSendCount>>

Transmit(e, frame) == stream' = [stream EXCEPT ![Other(e)] = Append(@, frame)]

Goto(e, place) == thread' = [thread EXCEPT ![e] = place]

(* The model ends with the first fault: what the ends make of it is in       *)
(* SlaveConnection and ClientConnection.                                     *)
Linked == peer = "client" /\ faults = {}

(* A thread that sends holds the lock of the k-buffer. *)
Locked(e) == sender[e] # Off

-----------------------------------------------------------------------------
(* The threads that send. At the client, sendASDUInternal looks for room     *)
(* before it takes the lock.                                                 *)
TestRoom ==
  /\ Linked /\ loopRunning /\ ~Client!Full
  /\ tested + (IF Locked("client") THEN 1 ELSE 0) < ClientSenders
  /\ tested' = tested + 1
  /\ UNCHANGED <<vars, peer, clientBuffer, receiveCount, unconfirmedReceivedIMessages, thread,
                 sender, stream, faults>>

(* Under the lock, which at the server includes the test, sendIMessage puts  *)
(* N(S) and N(R) into the frame, ...                                         *)
Prepare(e) ==
  /\ Linked /\ Running(e) /\ ~Locked(e)
  /\ \/ e = "server" /\ ~Full /\ UNCHANGED tested
     \/ e = "client" /\ tested > 0 /\ tested' = tested - 1
  /\ sender' = [sender EXCEPT ![e] = receiveCount[e]]
  /\ UNCHANGED <<vars, peer, clientBuffer, receiveCount, unconfirmedReceivedIMessages, thread,
                 stream, faults>>

(* The test is outdated: other threads have filled the ring of the client.   *)
Overflow(e) == IF e = "client" /\ Client!Full THEN {"overflow"} ELSE {}

(* ... writes it, and takes all received frames for confirmed.               *)
Write(e) ==
  /\ Linked /\ Locked(e)
  /\ \/ /\ Store(e, TRUE)
        /\ Transmit(e, [kind |-> "I", ns |-> NextNumber(e), nr |-> sender[e]])
        /\ faults' = faults \union Overflow(e)
     \/ /\ Store(e, FALSE)
        /\ faults' = faults \union Overflow(e) \union {"write"}
        /\ UNCHANGED stream
  /\ unconfirmedReceivedIMessages' = [unconfirmedReceivedIMessages EXCEPT ![e] = 0]
  /\ sender' = [sender EXCEPT ![e] = Off]
  /\ UNCHANGED <<peer, receiveCount, thread, tested>>

-----------------------------------------------------------------------------
(* The thread of the connection takes the next frame from the stream.        *)
Arrived(e) == Linked /\ thread[e] = "wait" /\ Running(e) /\ stream[e] # <<>>

Consume(e) ==
  /\ stream' = [stream EXCEPT ![e] = Tail(@)]
  /\ UNCHANGED <<peer, receiveCount, unconfirmedReceivedIMessages, tested, sender, faults>>

(* receiveMessage reads what has arrived. If that is a part of a frame, it   *)
(* returns -1, and the connection is closed.                                 *)
ReceivePart(e) ==
  /\ Arrived(e)
  /\ CloseEnd(e)
  /\ faults' = faults \union {"part"}
  /\ UNCHANGED <<peer, receiveCount, unconfirmedReceivedIMessages, thread, tested, sender, stream>>

(* An I frame: N(S) must be the next one, and N(R) valid.                    *)
ReceiveI(e) ==
  LET frame == Head(stream[e])
  IN  /\ Arrived(e) /\ frame.kind = "I"
      /\ \/ /\ frame.ns # receiveCount[e]
            /\ CloseEnd(e) /\ Goto(e, "wait")
         \/ /\ frame.ns = receiveCount[e] /\ ~Locked(e)
            /\ Check(e, frame.nr)
            /\ Goto(e, IF NumberIsValid(e, frame.nr) THEN "count" ELSE "wait")
      /\ Consume(e)

ReceiveS(e) ==
  LET frame == Head(stream[e])
  IN  /\ Arrived(e) /\ frame.kind = "S" /\ ~Locked(e)
      /\ Check(e, frame.nr)
      /\ Goto(e, "wcheck")
      /\ Consume(e)

(* Mutated form of CountFrame: the frame is counted only if the second       *)
(* thread is not about to write.                                             *)
CountFrameOnlyUnlocked(e) ==
  /\ Linked /\ thread[e] = "count"
  /\ Goto(e, "wcheck")
  /\ receiveCount' = [receiveCount EXCEPT ![e] = IF Locked(e) THEN @ ELSE Plus(@, 1)]
  /\ unconfirmedReceivedIMessages' = [unconfirmedReceivedIMessages EXCEPT ![e] = @ + 1]
  /\ UNCHANGED <<vars, peer, clientBuffer, tested, sender, stream, faults>>

(* The frame is counted after checkSequenceNumber has released the lock. The *)
(* second thread may have read receiveCount just before.                     *)
CountFrame(e) ==
  /\ Linked /\ thread[e] = "count"
  /\ Goto(e, "wcheck")
  /\ receiveCount' = [receiveCount EXCEPT ![e] = Plus(@, 1)]
  /\ unconfirmedReceivedIMessages' = [unconfirmedReceivedIMessages EXCEPT ![e] = @ + 1]
  /\ faults' = IF Locked(e) THEN faults \union {"stale"} ELSE faults
  /\ UNCHANGED <<vars, peer, clientBuffer, tested, sender, stream>>

(* Mutated form of SendS: N(R) is one more than the frames received.         *)
SendSOneMore(e) ==
  /\ unconfirmedReceivedIMessages' = [unconfirmedReceivedIMessages EXCEPT ![e] = 0]
  /\ \/ /\ Transmit(e, [kind |-> "S", ns |-> 0, nr |-> Plus(receiveCount[e], 1)])
        /\ UNCHANGED <<vars, clientBuffer, faults>>
     \/ /\ faults' = faults \union {"write"}
        /\ IF e = "server" THEN CloseEnd(e) ELSE UNCHANGED <<vars, clientBuffer>>
        /\ UNCHANGED stream

(* An S frame is written without the lock. When the write fails, the server  *)
(* ends its loop; the client does not look at the result.                    *)
SendS(e) ==
  /\ unconfirmedReceivedIMessages' = [unconfirmedReceivedIMessages EXCEPT ![e] = 0]
  /\ \/ /\ Transmit(e, [kind |-> "S", ns |-> 0, nr |-> receiveCount[e]])
        /\ UNCHANGED <<vars, clientBuffer, faults>>
     \/ /\ faults' = faults \union {"write"}
        /\ IF e = "server" THEN CloseEnd(e) ELSE UNCHANGED <<vars, clientBuffer>>
        /\ UNCHANGED stream

CheckW(e) ==
  /\ Linked /\ thread[e] = "wcheck"
  /\ Goto(e, "wait")
  /\ IF unconfirmedReceivedIMessages[e] >= W(e)
     THEN SendS(e)
     ELSE UNCHANGED <<vars, clientBuffer, unconfirmedReceivedIMessages, stream, faults>>
  /\ UNCHANGED <<peer, receiveCount, tested, sender>>

(* Mutated form of TimeoutT2: only a full window is acknowledged. *)
TimeoutT2Never(e) ==
  /\ Linked /\ thread[e] = "wait" /\ Running(e)
  /\ unconfirmedReceivedIMessages[e] >= W(e)
  /\ SendS(e)
  /\ UNCHANGED <<peer, receiveCount, thread, tested, sender>>

(* handleTimeouts: t2 has passed since the first unconfirmed frame.          *)
TimeoutT2(e) ==
  /\ Linked /\ thread[e] = "wait" /\ Running(e)
  /\ unconfirmedReceivedIMessages[e] > 0
  /\ SendS(e)
  /\ UNCHANGED <<peer, receiveCount, thread, tested, sender>>

Receive(e) == ReceiveI(e) \/ ReceiveS(e) \/ CountFrame(e) \/ CheckW(e)

LinkNext ==
  \/ TestRoom
  \/ \E e \in Ends : Prepare(e) \/ Write(e) \/ Receive(e) \/ ReceivePart(e) \/ TimeoutT2(e)
  \/ peer = "arbitrary" /\ Next /\ UNCHANGED <<peer, clientBuffer, link>>

(* Threads are scheduled, a thread that holds the lock writes, t2 passes: as *)
(* long as any of it is due, some of it happens. Nobody owes a frame.        *)
LinkFairness ==
  WF_linkVars(\E e \in Ends : Write(e) \/ Receive(e) \/ TimeoutT2(e))

LinkSpec == LinkInit /\ [][LinkNext]_linkVars /\ LinkFairness

-----------------------------------------------------------------------------
BothRunning == isRunning /\ loopRunning

(* Two ends of this library never refuse each other's frames. A connection   *)
(* between them ends only because a write failed ("write"), because a frame  *)
(* arrived in parts ("part"), because a thread sent an N(R) that was outdated*)
(* ("stale"), or because two threads of the client filled the last place of  *)
(* its k-buffer, both after isSentBufferFull had found it free ("overflow"): *)
(* an N(R) of the server that is on its way may lie before what is left.     *)
NeverRefused == Linked => BothRunning

(* How many numbers on the second one is. *)
Distance(from, to) == IF to >= from THEN to - from ELSE to - from + Modulus

IFramesTo(e) == {i \in DOMAIN stream[e] : stream[e][i].kind = "I"}

(* The two ends agree: what is on the way to an end is what it counts next,  *)
(* in order and complete, up to what the other has sent; and what the other  *)
(* has taken out of its k-buffer, and reported to the event queue, has been  *)
(* counted here (handleMessage, checkMessage, checkSequenceNumber).          *)
EndsAgree ==
  Linked =>
    \A e \in Ends :
      LET counted  == IF thread[e] = "count" THEN Plus(receiveCount[e], 1) ELSE receiveCount[e]
          coming   == IFramesTo(e)
          Place(i) == Distance(counted, stream[e][i].ns)
      IN  /\ \A i, j \in coming : i < j => Place(i) < Place(j)
          /\ {Place(i) : i \in coming} = 0..(Distance(counted, NextNumber(Other(e))) - 1)
          /\ \E d \in 0..Unconfirmed(Other(e)) : receiveCount[e] = Plus(Confirmed(Other(e)), d)

(* No k-buffer stays full, whatever k and w are at the two ends, until one   *)
(* of the faults of NeverRefused: what w does not acknowledge, t2 does.      *)
WindowReopens ==
  \A e \in Ends :
    []<>(Linked => ~BufferFull(e))
=============================================================================
