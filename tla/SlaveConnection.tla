--------------------------- MODULE SlaveConnection --------------------------
(* One connection of the server (MasterConnection) with its thread: the loop *)
(* of connectionHandlingThread, handleMessage, handleTimeouts and            *)
(* sendWaitingASDUs, against a client that may send anything or fall silent, *)
(* an application thread that sends on the same connection, and the other    *)
(* threads of the server that close or deactivate it. Sequence numbers are   *)
(* relative here (SentBuffer has the numbers themselves): the k-buffer is    *)
(* the sequence of the ages of its frames, and unacked counts the client's   *)
(* frames that no N(R) written to the socket has acknowledged yet.           *)
EXTENDS Integers, Sequences

CONSTANTS K, W, T1, T2, T3,   \* APCI parameters; times in ticks
          ClientK,            \* frames the client sends without acknowledgement
          MaxHigh, MaxLow     \* bounds of a run: ASDUs waiting in the two queues

ASSUME ConnectionAssumption ==
  /\ {K, W, T1, T2, T3, ClientK} \subseteq Nat \ {0}
  /\ {MaxHigh, MaxLow} \subseteq Nat
  /\ W <= ClientK

VARIABLES
  pc,             \* where the connection thread is
  isActive, isRunning,
  sentAges,       \* k-buffer: age of every unconfirmed frame, oldest first
  unconfirmedReceivedIMessages,
  timeoutT2Triggered,
  t2Age,          \* time since lastConfirmationTime
  t3Age,          \* time since resetT3Timeout
  outstandingTestFRConMessages,
  high, low,      \* ASDUs waiting in the high- and the low-priority queue
  appHoldsLock,   \* the application thread has written its I frame and still
                  \* holds sentASDUsLock
  iterated,       \* the thread has run handleTimeouts since the last tick
  unacked,        \* frames of the client not acknowledged on the wire
  unackedAge,     \* time since the oldest of them arrived
  clientAlive,    \* the client still sends
  closeRequested, \* MasterConnection_close was called: "no", "early" (before the
                  \* thread has started) or "late"
  raced           \* history: the application thread sent while the connection
                  \* thread was receiving an I frame

ack    == <<unconfirmedReceivedIMessages, timeoutT2Triggered, unacked, unackedAge>>
timers == <<t2Age, t3Age, outstandingTestFRConMessages, iterated>>
queues == <<high, low>>
env    == <<clientAlive, closeRequested, raced>>
vars   == <<pc, isActive, isRunning, sentAges, ack, timers, queues, appHoldsLock, env>>

(* Mutated form of OldestDue: looks at the newest frame. *)
NewestDue == sentAges # <<>> /\ sentAges[Len(sentAges)] >= T1

(* The T1 test of handleTimeouts. *)
OldestDue == sentAges # <<>> /\ Head(sentAges) >= T1

(* isSentBufferFull. *)
Full == Len(sentAges) = K

-----------------------------------------------------------------------------
Init ==
  /\ pc = "start"
  /\ isActive = FALSE /\ isRunning = FALSE
  /\ sentAges = <<>>
  /\ unconfirmedReceivedIMessages = 0 /\ timeoutT2Triggered = FALSE
  /\ unacked = 0 /\ unackedAge = 0
  /\ t2Age = 0 /\ t3Age = 0 /\ outstandingTestFRConMessages = 0 /\ iterated = FALSE
  /\ high = 0 /\ low = 0
  /\ appHoldsLock = FALSE
  /\ clientAlive = TRUE /\ closeRequested = "no" /\ raced = FALSE

(* Everything received so far is acknowledged: N(R) = receiveCount went out. *)
Acknowledged == unacked' = 0 /\ unackedAge' = 0

(* Mutated form of SendI: the counter is not reset.                          *)
SendIKeepsCounter(ok) ==
  /\ ~appHoldsLock /\ ~Full
  /\ sentAges' = Append(sentAges, 0)
  /\ UNCHANGED unconfirmedReceivedIMessages
  /\ isRunning' = (isRunning /\ ok)
  /\ \/ ok /\ Acknowledged /\ timeoutT2Triggered' = FALSE
     \/ ~ok /\ UNCHANGED <<unacked, unackedAge, timeoutT2Triggered>>

(* sendASDU with sendIMessage by the connection thread. A failed write stops *)
(* the connection, but the frame is in the k-buffer and the counter is reset.*)
SendI(ok) ==
  /\ ~appHoldsLock /\ ~Full
  /\ sentAges' = Append(sentAges, 0)
  /\ unconfirmedReceivedIMessages' = 0
  /\ isRunning' = (isRunning /\ ok)
  /\ \/ ok /\ Acknowledged /\ timeoutT2Triggered' = FALSE
     \/ ~ok /\ UNCHANGED <<unacked, unackedAge, timeoutT2Triggered>>

(* The thread sets isRunning itself, whatever it was. *)
Start ==
  /\ pc = "start"
  /\ pc' = "wait"
  /\ isRunning' = TRUE
  /\ t3Age' = 0
  /\ UNCHANGED <<isActive, sentAges, ack, t2Age, outstandingTestFRConMessages, iterated,
                 queues, appHoldsLock, env>>

Leave ==
  /\ pc = "wait" /\ ~isRunning
  /\ pc' = "done"
  /\ UNCHANGED <<isActive, isRunning, sentAges, ack, timers, queues, appHoldsLock, env>>

(* A message that arrives after close, in the same wait, is handled as one   *)
(* that arrived just before.                                                 *)
Receives == pc = "wait" /\ isRunning /\ clientAlive

(* Handleset_waitReady times out, or what arrives is ignored. *)
ReceiveNothing ==
  /\ pc = "wait" /\ isRunning
  /\ pc' = "timeouts"
  /\ UNCHANGED <<isActive, isRunning, sentAges, ack, timers, queues, appHoldsLock, env>>

(* receiveMessage returns -1: the loop is left at once. *)
ReceiveError ==
  /\ pc = "wait" /\ isRunning
  /\ pc' = "done" /\ isRunning' = FALSE
  /\ UNCHANGED <<isActive, sentAges, ack, timers, queues, appHoldsLock, env>>

(* Mutated form of ReceiveI: every I frame restarts T2. *)
ReceiveIRestartsT2 ==
  /\ Receives /\ unacked < ClientK
  /\ timeoutT2Triggered' = TRUE
  /\ t2Age' = 0
  /\ pc' = "check"
  /\ UNCHANGED <<isActive, isRunning, sentAges, unconfirmedReceivedIMessages, unacked,
                 unackedAge, t3Age, outstandingTestFRConMessages, iterated, queues,
                 appHoldsLock, env>>

(* An I frame: T2 starts unless it runs. *)
ReceiveI ==
  /\ Receives /\ unacked < ClientK
  /\ timeoutT2Triggered' = TRUE
  /\ t2Age' = IF timeoutT2Triggered THEN t2Age ELSE 0
  /\ pc' = "check"
  /\ UNCHANGED <<isActive, isRunning, sentAges, unconfirmedReceivedIMessages, unacked,
                 unackedAge, t3Age, outstandingTestFRConMessages, iterated, queues,
                 appHoldsLock, env>>

(* N(S) or N(R) is wrong: handleMessage returns false.                       *)
CheckFails ==
  /\ pc = "check" /\ ~appHoldsLock
  /\ isRunning' = FALSE
  /\ pc' = "wcheck"
  /\ UNCHANGED <<isActive, sentAges, ack, timers, queues, appHoldsLock, env>>

(* N(R) confirms the d oldest frames, then receiveCount is incremented, ...  *)
CheckPasses ==
  /\ pc = "check" /\ ~appHoldsLock
  /\ \E d \in 0..Len(sentAges) : sentAges' = SubSeq(sentAges, d + 1, Len(sentAges))
  /\ unacked' = unacked + 1
  /\ unackedAge' = IF unacked = 0 THEN 0 ELSE unackedAge
  /\ pc' = "count"
  /\ UNCHANGED <<isActive, isRunning, unconfirmedReceivedIMessages, timeoutT2Triggered,
                 timers, queues, appHoldsLock, env>>

(* ... and then, without the lock, the number of unconfirmed messages.       *)
CountReceived ==
  /\ pc = "count"
  /\ unconfirmedReceivedIMessages' = unconfirmedReceivedIMessages + 1
  /\ pc' = IF isActive THEN "handler" ELSE "wcheck"
  /\ t3Age' = IF isActive THEN t3Age ELSE 0
  /\ UNCHANGED <<isActive, isRunning, sentAges, timeoutT2Triggered, unacked, unackedAge,
                 t2Age, outstandingTestFRConMessages, iterated, queues, appHoldsLock, env>>

(* handleASDU: the application's handler sends responses and returns.        *)
HandlerReturns ==
  /\ pc = "handler"
  /\ pc' = "wcheck" /\ t3Age' = 0
  /\ UNCHANGED <<isActive, isRunning, sentAges, ack, t2Age, outstandingTestFRConMessages,
                 iterated, queues, appHoldsLock, env>>

(* sendASDUInternal by the handler: straight to the socket, or to the high-  *)
(* priority queue when the k-buffer is full; dropped when that is full too.  *)
HandlerSends ==
  /\ pc = "handler" /\ isActive
  /\ \/ /\ \E ok \in BOOLEAN : SendI(ok)
        /\ UNCHANGED high
     \/ /\ Full /\ ~appHoldsLock
        /\ high' = IF high < MaxHigh THEN high + 1 ELSE high
        /\ UNCHANGED <<isRunning, sentAges, ack>>
  /\ UNCHANGED <<pc, isActive, timers, low, appHoldsLock, env>>

(* S frame. *)
ReceiveS ==
  /\ Receives /\ ~appHoldsLock
  /\ pc' = "wcheck"
  /\ \/ /\ \E d \in 0..Len(sentAges) : sentAges' = SubSeq(sentAges, d + 1, Len(sentAges))
        /\ t3Age' = 0
        /\ UNCHANGED isRunning
     \/ /\ isRunning' = FALSE
        /\ UNCHANGED <<sentAges, t3Age>>
  /\ UNCHANGED <<isActive, ack, t2Age, outstandingTestFRConMessages, iterated, queues,
                 appHoldsLock, env>>

(* STARTDT, STOPDT, TESTFR act: answered; the write of the answer may fail.  *)
(* STARTDT empties the high-priority queue.                                  *)
ReceiveU ==
  /\ Receives
  /\ pc' = "wcheck"
  /\ \/ isActive' = TRUE /\ high' = 0
     \/ isActive' = FALSE /\ high' = high
     \/ UNCHANGED <<isActive, high>>
  /\ \/ t3Age' = 0 /\ UNCHANGED isRunning
     \/ isRunning' = FALSE /\ UNCHANGED t3Age
  /\ UNCHANGED <<sentAges, ack, t2Age, outstandingTestFRConMessages, iterated, low,
                 appHoldsLock, env>>

ReceiveTestFRCon ==
  /\ Receives
  /\ pc' = "wcheck"
  /\ outstandingTestFRConMessages' = 0
  /\ t3Age' = 0
  /\ UNCHANGED <<isActive, isRunning, sentAges, ack, t2Age, iterated, queues,
                 appHoldsLock, env>>

(* After every message: an S frame once w messages are unconfirmed.          *)
CheckW ==
  /\ pc = "wcheck"
  /\ pc' = "timeouts"
  /\ IF unconfirmedReceivedIMessages >= W
     THEN /\ unconfirmedReceivedIMessages' = 0 /\ timeoutT2Triggered' = FALSE /\ t2Age' = 0
          /\ \/ Acknowledged /\ UNCHANGED isRunning
             \/ isRunning' = FALSE /\ UNCHANGED <<unacked, unackedAge>>
     ELSE UNCHANGED <<ack, t2Age, isRunning>>
  /\ UNCHANGED <<isActive, sentAges, t3Age, outstandingTestFRConMessages, iterated,
                 queues, appHoldsLock, env>>

TestFRDue  == t3Age > T3
TestFRLost == TestFRDue /\ outstandingTestFRConMessages > 2
T2Due      == unconfirmedReceivedIMessages > 0 /\ t2Age >= T2

(* Mutated form of HandleTimeouts: no limit on unanswered TESTFR messages.   *)
HandleTimeoutsPatient ==
  /\ pc = "timeouts" /\ ~appHoldsLock
  /\ iterated' = TRUE
  /\ t3Age' = IF TestFRDue THEN 0 ELSE t3Age
  /\ UNCHANGED outstandingTestFRConMessages
  /\ IF T2Due
     THEN unconfirmedReceivedIMessages' = 0 /\ timeoutT2Triggered' = FALSE /\ t2Age' = 0
          /\ Acknowledged
     ELSE UNCHANGED <<ack, t2Age>>
  /\ isRunning' = (isRunning /\ ~OldestDue)
  /\ pc' = IF ~isRunning' THEN "done" ELSE IF isActive THEN "send" ELSE "wait"
  /\ UNCHANGED <<isActive, sentAges, queues, appHoldsLock, env>>

(* Mutated form of HandleTimeouts: the loop assigns its result to isRunning. *)
HandleTimeoutsAssigns ==
  /\ pc = "timeouts" /\ ~appHoldsLock
  /\ iterated' = TRUE
  /\ IF TestFRDue /\ ~TestFRLost
     THEN t3Age' = 0 /\ outstandingTestFRConMessages' = outstandingTestFRConMessages + 1
     ELSE UNCHANGED <<t3Age, outstandingTestFRConMessages>>
  /\ IF T2Due
     THEN unconfirmedReceivedIMessages' = 0 /\ timeoutT2Triggered' = FALSE /\ t2Age' = 0
          /\ Acknowledged
     ELSE UNCHANGED <<ack, t2Age>>
  /\ isRunning' = (~TestFRLost /\ ~OldestDue)
  /\ pc' = IF ~isRunning' THEN "done" ELSE IF isActive THEN "send" ELSE "wait"
  /\ UNCHANGED <<isActive, sentAges, queues, appHoldsLock, env>>

(* handleTimeouts: T3, then T2, then T1. Each write may fail (broken).       *)
HandleTimeouts ==
  /\ pc = "timeouts" /\ ~appHoldsLock
  /\ iterated' = TRUE
  /\ IF TestFRDue /\ ~TestFRLost
     THEN t3Age' = 0 /\ outstandingTestFRConMessages' = outstandingTestFRConMessages + 1
     ELSE UNCHANGED <<t3Age, outstandingTestFRConMessages>>
  /\ \E broken \in BOOLEAN :
       /\ IF T2Due
          THEN /\ unconfirmedReceivedIMessages' = 0 /\ timeoutT2Triggered' = FALSE
               /\ t2Age' = 0
               /\ IF broken THEN UNCHANGED <<unacked, unackedAge>> ELSE Acknowledged
          ELSE UNCHANGED <<ack, t2Age>>
       /\ isRunning' = /\ isRunning
                       /\ ~(broken /\ (TestFRDue \/ T2Due))
                       /\ ~TestFRLost
                       /\ ~OldestDue
  /\ pc' = IF ~isRunning' THEN "done" ELSE IF isActive THEN "send" ELSE "wait"
  /\ UNCHANGED <<isActive, sentAges, queues, appHoldsLock, env>>

(* sendWaitingASDUs: high-priority ASDUs while there are any and the k-      *)
(* buffer has room, ...                                                      *)
SendHigh ==
  /\ pc = "send" /\ high > 0 /\ ~appHoldsLock
  /\ \/ /\ Full
        /\ pc' = "wait"
        /\ UNCHANGED <<isRunning, sentAges, ack, high>>
     \/ /\ \E ok \in BOOLEAN : SendI(ok)
        /\ high' = high - 1
        /\ pc' = IF isRunning' THEN "send" ELSE "wait"
  /\ UNCHANGED <<isActive, timers, low, appHoldsLock, env>>

(* ... then one event of the low-priority queue.                             *)
SendLow ==
  /\ pc = "send" /\ high = 0 /\ ~appHoldsLock
  /\ pc' = "wait"
  /\ \/ /\ Full \/ low = 0
        /\ UNCHANGED <<isRunning, sentAges, ack, low>>
     \/ /\ low > 0
        /\ \E ok \in BOOLEAN : SendI(ok)
        /\ low' = low - 1
  /\ UNCHANGED <<isActive, timers, high, appHoldsLock, env>>

ConnectionThread ==
  \/ Start \/ Leave
  \/ ReceiveNothing \/ ReceiveError \/ ReceiveI \/ ReceiveS \/ ReceiveU \/ ReceiveTestFRCon
  \/ CheckFails \/ CheckPasses \/ CountReceived \/ HandlerReturns \/ HandlerSends
  \/ CheckW \/ HandleTimeouts \/ SendHigh \/ SendLow

-----------------------------------------------------------------------------
(* An application thread sends on the connection: under sentASDUsLock it     *)
(* writes a frame with N(R) = receiveCount, and then resets the counter and  *)
(* the flag, which the connection thread changes without the lock.           *)
Alive == pc \notin {"start", "done"}

ReceivingI == pc \in {"check", "count"}

AppWrites ==
  /\ Alive /\ isActive /\ ~appHoldsLock /\ ~Full
  /\ sentAges' = Append(sentAges, 0)
  /\ Acknowledged
  /\ appHoldsLock' = TRUE
  /\ raced' = (raced \/ ReceivingI)
  /\ UNCHANGED <<pc, isActive, isRunning, unconfirmedReceivedIMessages, timeoutT2Triggered,
                 timers, queues, clientAlive, closeRequested>>

(* The write fails. Nothing is acknowledged, and the loop of the thread ends  *)
(* whenever the counter is reset, so the lock is kept for one step only.     *)
AppWriteFails ==
  /\ Alive /\ isActive /\ SendI(FALSE)
  /\ raced' = (raced \/ ReceivingI)
  /\ UNCHANGED <<pc, isActive, timers, queues, appHoldsLock, clientAlive, closeRequested>>

AppResetsCounter ==
  /\ appHoldsLock
  /\ unconfirmedReceivedIMessages' = 0
  /\ timeoutT2Triggered' = FALSE
  /\ appHoldsLock' = FALSE
  /\ raced' = (raced \/ ReceivingI)
  /\ UNCHANGED <<pc, isActive, isRunning, sentAges, unacked, unackedAge, timers, queues,
                 clientAlive, closeRequested>>

(* CS104_Slave_enqueueASDU. *)
EnqueueEvent ==
  /\ Alive /\ low < MaxLow
  /\ low' = low + 1
  /\ UNCHANGED <<pc, isActive, isRunning, sentAges, ack, timers, high, appHoldsLock, env>>

(* STARTDT on another connection of the group. *)
OtherActivates ==
  /\ Alive /\ isActive
  /\ isActive' = FALSE
  /\ UNCHANGED <<pc, isRunning, sentAges, ack, timers, queues, appHoldsLock, env>>

(* MasterConnection_close, by a handler or by CS104_Slave_destroy.           *)
Close ==
  /\ pc # "done"
  /\ closeRequested' = IF pc = "start" THEN "early" ELSE "late"
  /\ isRunning' = FALSE
  /\ UNCHANGED <<pc, isActive, sentAges, ack, timers, queues, appHoldsLock, clientAlive,
                 raced>>

ClientFallsSilent ==
  /\ clientAlive
  /\ clientAlive' = FALSE
  /\ UNCHANGED <<pc, isActive, isRunning, sentAges, ack, timers, queues, appHoldsLock,
                 closeRequested, raced>>

(* Time passes while the thread waits in Handleset_waitReady. It waits for   *)
(* at most 100 ms and timeouts are seconds, so an iteration separates ticks. *)
Older(age, bound) == IF age > bound THEN age ELSE age + 1

Tick ==
  /\ pc = "wait" /\ isRunning /\ iterated
  /\ iterated' = FALSE
  /\ t2Age' = Older(t2Age, T2)
  /\ t3Age' = Older(t3Age, T3)
  /\ unackedAge' = IF unacked = 0 THEN 0 ELSE Older(unackedAge, T2)
  /\ sentAges' = [i \in DOMAIN sentAges |-> Older(sentAges[i], T1)]
  /\ UNCHANGED <<pc, isActive, isRunning, unconfirmedReceivedIMessages, timeoutT2Triggered,
                 outstandingTestFRConMessages, unacked, queues, appHoldsLock, env>>

Next ==
  \/ ConnectionThread
  \/ AppWrites \/ AppWriteFails \/ AppResetsCounter
  \/ EnqueueEvent \/ OtherActivates \/ Close \/ ClientFallsSilent \/ Tick

(* Threads are scheduled and time goes on; clients and applications owe      *)
(* nothing, but the application's thread leaves the critical section.        *)
Fairness == WF_vars(ConnectionThread) /\ SF_vars(Tick) /\ WF_vars(AppResetsCounter)

Spec == Init /\ [][Next]_vars /\ Fairness

-----------------------------------------------------------------------------
(* Every variable is of its type; the k-buffer never holds more than k.      *)
TypeOK ==
  /\ pc \in {"start", "wait", "check", "count", "handler", "wcheck", "timeouts",
             "send", "done"}
  /\ {isActive, isRunning, timeoutT2Triggered, appHoldsLock, iterated, clientAlive,
      raced} \subseteq BOOLEAN
  /\ closeRequested \in {"no", "early", "late"}
  /\ sentAges \in Seq(0..(T1 + 1)) /\ Len(sentAges) <= K
  /\ unconfirmedReceivedIMessages \in 0..W /\ unacked \in 0..ClientK
  /\ t2Age \in 0..(T2 + 1) /\ unackedAge \in 0..(T2 + 1) /\ t3Age \in 0..(T3 + 1)
  /\ outstandingTestFRConMessages \in 0..3
  /\ high \in 0..MaxHigh /\ low \in 0..MaxLow

AtRest == pc = "wait" /\ isRunning /\ ~appHoldsLock

(* unconfirmedReceivedIMessages is what cs104_slave_cpp.c:1059 says it is,   *)
(* the number of unconfirmed messages received, whatever mix of I and S      *)
(* frames acknowledged earlier ones and whichever thread sends.              *)
CountsUnconfirmed == AtRest => unconfirmedReceivedIMessages = unacked

(* It is, as long as no application thread sends while the connection thread *)
(* is receiving an I frame. Every acknowledgement rests on it.               *)
CountsUnconfirmedInOrder == ~raced => CountsUnconfirmed

(* No path through handler, w check and timeouts leaves w received frames    *)
(* without acknowledgement (connectionHandlingThread), and none of them      *)
(* waits for t2, also when other frames follow it, responses acknowledge     *)
(* some of them, or w is reached in between.                                 *)
Acknowledges ==
  AtRest /\ ~raced => unacked < W /\ (iterated /\ unacked > 0 => unackedAge < T2)

(* No frame stays unconfirmed for t1 in a running connection, although only  *)
(* the oldest is tested: the k-buffer never loses its order (handleTimeouts).*)
ConfirmedInT1 == AtRest /\ iterated => \A i \in DOMAIN sentAges : sentAges[i] < T1

(* A client that falls silent is detected, by T1 or by unanswered TESTFR     *)
(* messages, whatever is queued or enqueued meanwhile.                       *)
SilentClientDetected == ~clientAlive ~> pc = "done"

(* Once close has been called on a connection whose thread runs, the thread  *)
(* ends, whatever it was doing.                                              *)
LateCloseEndsThread == closeRequested = "late" ~> pc = "done"
=============================================================================
