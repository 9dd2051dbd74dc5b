-------------------------- MODULE ClientConnection --------------------------
(* A client (CS104_Connection): the application that connects, closes and    *)
(* connects again, the thread handleConnection of the connection with its    *)
(* k-buffer and timeouts, and a second thread of the application that sends. *)
(* The server may send anything or fall silent. Numbers and times are as in  *)
(* SlaveConnection: the k-buffer is the sequence of the ages of its frames.  *)
EXTENDS Integers, Sequences

CONSTANTS K, W, T1, T2, T3, \* APCI parameters; times in ticks
          ServerK           \* frames the server sends without acknowledgement

ASSUME ClientAssumption ==
  {K, W, T1, T2, T3, ServerK} \subseteq Nat \ {0} /\ W <= ServerK

VARIABLES
  app,             \* the application: "idle", or in connect or close
  old,             \* the thread of the connection before has still to end
  thread,          \* where the thread of the connection is
  running, failure, close,
  loopRunning,     \* variable of handleConnection
  sentAges,        \* k-buffer, oldest first
  forgotten,       \* history: frames not confirmed are no longer in the k-buffer
  sender,          \* where handlers and the second thread are in sendASDUInternal
  unconfirmedReceivedIMessages,
  timeoutT2Trigger,
  t2Age, t3Age,    \* time since lastConfirmationTime, since resetT3Timeout
  outstandingTestFCConMessages,
  uAge,            \* time since uMessageTimeout was set; Off: it is 0
  iterated,        \* handleTimeouts has run since the last tick
  serverAlive,     \* the server still sends
  silence,         \* time since the connection was opened or a message came
  unacked, unackedAge, \* frames of the server not acknowledged, age of the oldest
  raced            \* the second thread sent while an I frame was received

flags  == <<running, failure, close, loopRunning>>
buffer == <<sentAges, forgotten, sender>>
ack    == <<unconfirmedReceivedIMessages, timeoutT2Trigger, unacked, unackedAge, raced>>
testfr == <<t3Age, outstandingTestFCConMessages, uAge>>
env    == <<iterated, serverAlive>>
vars   == <<app, old, thread, flags, buffer, ack, t2Age, testfr, env, silence>>

Off    == -1
Future == -1 \* age of a frame sent after handleTimeouts has read the clock

Open == {"opened", "wait", "check", "count", "handler", "wcheck", "timeouts", "t1"}

Init ==
  /\ app = "idle" /\ old = FALSE /\ thread = "none"
  /\ running = FALSE /\ failure = FALSE /\ close = FALSE /\ loopRunning = FALSE
  /\ sentAges = <<>> /\ forgotten = FALSE
  /\ sender = [handler |-> "idle", second |-> "idle"]
  /\ unconfirmedReceivedIMessages = 0 /\ timeoutT2Trigger = FALSE
  /\ unacked = 0 /\ unackedAge = 0 /\ raced = FALSE
  /\ t2Age = 0 /\ t3Age = 0 /\ outstandingTestFCConMessages = 0 /\ uAge = Off
  /\ iterated = FALSE /\ serverAlive = TRUE /\ silence = 0

-----------------------------------------------------------------------------
(* The application. It connects when it has heard that the connection before *)
(* is closed: that connection's thread may still be on its way out.          *)
Connect(blocking) ==
  /\ app = "idle" /\ ~old
  /\ thread \in {"none", "leave", "ended"}
  /\ app' = IF blocking THEN "connect" ELSE "idle"
  /\ old' = (thread = "leave")
  /\ thread' = "created"
  /\ running' = FALSE /\ failure' = FALSE /\ close' = FALSE
  /\ UNCHANGED <<loopRunning, buffer, ack, t2Age, testfr, env, silence>>

ConnectReturns ==
  /\ app = "connect" /\ (running \/ failure)
  /\ app' = "idle"
  /\ UNCHANGED <<old, thread, flags, buffer, ack, t2Age, testfr, env, silence>>

(* Where the application is after close: destroy is close and a free.        *)
AfterClose == {"idle", "freed"}

(* Mutated form of Close: it resets running, too. *)
CloseStopsRunning ==
  /\ app = "idle"
  /\ close' = TRUE /\ running' = FALSE
  /\ app' \in IF thread = "none" THEN AfterClose ELSE {"close"}
  /\ UNCHANGED <<old, thread, failure, loopRunning, buffer, ack, t2Age, testfr, env, silence>>

(* CS104_Connection_close, alone or in CS104_Connection_destroy, joins the   *)
(* thread, if there is one.                                                  *)
Close ==
  /\ app = "idle"
  /\ close' = TRUE
  /\ app' \in IF thread = "none" THEN AfterClose ELSE {"close"}
  /\ UNCHANGED <<old, thread, running, failure, loopRunning, buffer, ack, t2Age, testfr, env,
                 silence>>

CloseReturns ==
  /\ app = "close" /\ thread = "ended"
  /\ app' \in AfterClose /\ thread' = "none"
  /\ UNCHANGED <<old, flags, buffer, ack, t2Age, testfr, env, silence>>

-----------------------------------------------------------------------------
(* The thread: resetConnection, Socket_connect, the opened event.            *)
Reset ==
  /\ thread = "created"
  /\ thread' = "connect"
  /\ running' = FALSE /\ failure' = FALSE /\ close' = FALSE /\ loopRunning' = TRUE
  /\ sentAges' = <<>> /\ forgotten' = FALSE
  /\ unconfirmedReceivedIMessages' = 0 /\ timeoutT2Trigger' = FALSE
  /\ unacked' = 0 /\ unackedAge' = 0 /\ raced' = FALSE
  /\ t2Age' = 0 /\ t3Age' = 0 /\ outstandingTestFCConMessages' = 0 /\ uAge' = Off
  /\ iterated' = FALSE /\ silence' = 0
  /\ UNCHANGED <<app, old, sender, serverAlive>>

SocketConnects ==
  /\ thread = "connect"
  /\ thread' = "opened" /\ running' = TRUE
  /\ UNCHANGED <<app, old, failure, close, loopRunning, buffer, ack, t2Age, testfr, env, silence>>

SocketConnectFails ==
  /\ thread = "connect"
  /\ thread' = "leave" /\ failure' = TRUE
  /\ UNCHANGED <<app, old, running, close, loopRunning, buffer, ack, t2Age, testfr, env, silence>>

OpenedHandlerReturns ==
  /\ thread = "opened" /\ sender.handler = "idle"
  /\ thread' = "wait"
  /\ UNCHANGED <<app, old, flags, buffer, ack, t2Age, testfr, env, silence>>

(* After the loop: the closed event, Socket_destroy, running = false.        *)
Ends ==
  /\ thread = "leave"
  /\ thread' = "ended" /\ running' = FALSE
  /\ UNCHANGED <<app, old, failure, close, loopRunning, buffer, ack, t2Age, testfr, env, silence>>

(* The same of the connection before, which shares the object with this one. *)
OldEnds ==
  /\ old
  /\ old' = FALSE /\ running' = FALSE
  /\ UNCHANGED <<app, thread, failure, close, loopRunning, buffer, ack, t2Age, testfr, env,
                 silence>>

-----------------------------------------------------------------------------
(* Sending.                                                                  *)
Full == Len(sentAges) = K
Locked == sender.second = "locked"

(* A thread that has passed the tests is "stale" once the other has sent.    *)
Outdated(s) == IF s = "checked" THEN "stale" ELSE s

(* Mutated form of MaySend: the buffer is not looked at. *)
MaySendUnbounded == running

(* sendASDUInternal tests without the lock; otherwise it returns false.      *)
MaySend == running /\ ~Full

(* The ring has no place for more than k frames: one more covers the oldest, *)
(* and all others are forgotten with it.                                     *)
Store(age) ==
  /\ sentAges' = IF Full THEN <<age>> ELSE Append(sentAges, age)
  /\ forgotten' = (forgotten \/ Full)

Acknowledged == unacked' = 0 /\ unackedAge' = 0

HandlerChecks ==
  /\ thread \in {"opened", "handler"} /\ sender.handler = "idle" /\ MaySend
  /\ sender' = [sender EXCEPT !.handler = "checked"]
  /\ UNCHANGED <<app, old, thread, flags, sentAges, forgotten, ack, t2Age, testfr, env, silence>>

HandlerWrites ==
  /\ thread \in {"opened", "handler"} /\ sender.handler # "idle" /\ ~Locked
  /\ sender' = [handler |-> "idle", second |-> Outdated(sender.second)]
  /\ Store(0)
  /\ unconfirmedReceivedIMessages' = 0 /\ timeoutT2Trigger' = FALSE
  /\ Acknowledged
  /\ UNCHANGED <<app, old, thread, flags, raced, t2Age, testfr, env, silence>>

SecondChecks ==
  /\ thread \in Open /\ sender.second = "idle" /\ MaySend
  /\ sender' = [sender EXCEPT !.second = "checked"]
  /\ UNCHANGED <<app, old, thread, flags, sentAges, forgotten, ack, t2Age, testfr, env, silence>>

ReceivingI == thread \in {"check", "count"}

(* The second thread writes N(R) and resets counter and flag under the lock  *)
(* that the connection's thread does not take for them. The clock may have   *)
(* advanced since handleTimeouts read it.                                    *)
SecondWrites ==
  /\ thread \in Open /\ sender.second \in {"checked", "stale"}
  /\ sender' = [handler |-> Outdated(sender.handler), second |-> "locked"]
  /\ Store(0) \/ (thread = "t1" /\ (Full \/ sentAges = <<>>) /\ Store(Future))
  /\ Acknowledged
  /\ raced' = (raced \/ ReceivingI)
  /\ UNCHANGED <<app, old, thread, flags, unconfirmedReceivedIMessages, timeoutT2Trigger, t2Age,
                 testfr, env, silence>>

SecondResetsCounter ==
  /\ Locked
  /\ sender' = [sender EXCEPT !.second = "idle"]
  /\ unconfirmedReceivedIMessages' = 0 /\ timeoutT2Trigger' = FALSE
  /\ raced' = (raced \/ ReceivingI)
  /\ UNCHANGED <<app, old, thread, flags, sentAges, forgotten, unacked, unackedAge, t2Age, testfr,
                 env, silence>>

-----------------------------------------------------------------------------
(* The loop: wait for at most 100 ms, receive, acknowledge, timeouts.        *)

ReceiveNothing ==
  /\ thread = "wait"
  /\ thread' = "timeouts"
  /\ UNCHANGED <<app, old, flags, buffer, ack, t2Age, testfr, env, silence>>

Fails == loopRunning' = FALSE /\ failure' = TRUE

ReceiveError ==
  /\ thread = "wait"
  /\ thread' = "wcheck" /\ Fails
  /\ UNCHANGED <<app, old, running, close, buffer, ack, t2Age, testfr, env, silence>>

Receives == thread = "wait" /\ serverAlive

(* An I frame: T2 starts unless it runs. *)
ReceiveI ==
  /\ Receives /\ unacked < ServerK
  /\ thread' = "check" /\ silence' = 0
  /\ timeoutT2Trigger' = TRUE
  /\ t2Age' = IF timeoutT2Trigger THEN t2Age ELSE 0
  /\ UNCHANGED <<app, old, flags, buffer, unconfirmedReceivedIMessages, unacked, unackedAge, raced,
                 testfr, env>>

(* N(S) or N(R) is wrong. *)
CheckFails ==
  /\ thread = "check" /\ ~Locked
  /\ thread' = "wcheck" /\ Fails
  /\ UNCHANGED <<app, old, running, close, buffer, ack, t2Age, testfr, env, silence>>

(* N(R) takes the first n frames out of the k-buffer, if any. An accepted    *)
(* one lies behind all frames that are no longer in it.                      *)
Confirmed(n) ==
  /\ sentAges' = SubSeq(sentAges, n + 1, Len(sentAges))
  /\ forgotten' = FALSE

CheckPasses ==
  /\ thread = "check" /\ ~Locked
  /\ thread' = "count"
  /\ \E n \in 0..Len(sentAges) : Confirmed(n)
  /\ unacked' = unacked + 1
  /\ unackedAge' = IF unacked = 0 THEN 0 ELSE unackedAge
  /\ UNCHANGED <<app, old, flags, sender, unconfirmedReceivedIMessages, timeoutT2Trigger, raced,
                 t2Age, testfr, env, silence>>

(* The counter, without the lock; the ASDU may be invalid.                   *)
CountReceived ==
  /\ thread = "count"
  /\ unconfirmedReceivedIMessages' = unconfirmedReceivedIMessages + 1
  /\ \/ thread' = "handler" /\ UNCHANGED flags
     \/ thread' = "wcheck" /\ Fails /\ UNCHANGED <<running, close>>
  /\ UNCHANGED <<app, old, buffer, timeoutT2Trigger, unacked, unackedAge, raced, t2Age, testfr,
                 env, silence>>

HandlerReturns ==
  /\ thread = "handler" /\ sender.handler = "idle"
  /\ thread' = "wcheck" /\ t3Age' = 0
  /\ UNCHANGED <<app, old, flags, buffer, ack, t2Age, outstandingTestFCConMessages, uAge, env,
                 silence>>

ReceiveS ==
  /\ Receives /\ ~Locked
  /\ thread' = "wcheck" /\ silence' = 0
  /\ \/ /\ \E n \in 0..Len(sentAges) : Confirmed(n)
        /\ t3Age' = 0 /\ UNCHANGED flags
     \/ Fails /\ UNCHANGED <<running, close, sentAges, forgotten, t3Age>>
  /\ UNCHANGED <<app, old, sender, ack, t2Age, outstandingTestFCConMessages, uAge, env>>

(* TESTFR act and STARTDT act are answered; the handler hears of STARTDT con *)
(* and STOPDT con. Any of them stops the timeout of a U message.             *)
ReceiveU ==
  /\ Receives
  /\ uAge' = Off /\ silence' = 0
  /\ \/ thread' = "wcheck" /\ t3Age' = 0
     \/ thread' = "handler" /\ UNCHANGED t3Age
  /\ UNCHANGED <<app, old, flags, buffer, ack, t2Age, outstandingTestFCConMessages, env>>

ReceiveTestFRCon ==
  /\ Receives
  /\ uAge' = Off /\ silence' = 0 /\ outstandingTestFCConMessages' = 0
  /\ thread' = "wcheck" /\ t3Age' = 0
  /\ UNCHANGED <<app, old, flags, buffer, ack, t2Age, env>>

SendS == unconfirmedReceivedIMessages' = 0 /\ timeoutT2Trigger' = FALSE /\ t2Age' = 0 /\ Acknowledged

(* Mutated form of CheckW: one frame too late. *)
CheckWLate ==
  /\ thread = "wcheck"
  /\ thread' = "timeouts"
  /\ IF unconfirmedReceivedIMessages > W THEN SendS /\ UNCHANGED raced ELSE UNCHANGED <<ack, t2Age>>
  /\ UNCHANGED <<app, old, flags, buffer, testfr, env, silence>>

CheckW ==
  /\ thread = "wcheck"
  /\ thread' = "timeouts"
  /\ IF unconfirmedReceivedIMessages >= W THEN SendS /\ UNCHANGED raced ELSE UNCHANGED <<ack, t2Age>>
  /\ UNCHANGED <<app, old, flags, buffer, testfr, env, silence>>

TestFRDue  == t3Age > T3
TestFRLost == TestFRDue /\ outstandingTestFCConMessages > 2
T2Due      == unconfirmedReceivedIMessages > 0 /\ t2Age >= T2

(* Mutated form of HandleTimeouts: a U message may stay unanswered. *)
HandleTimeoutsPatient ==
  /\ thread = "timeouts"
  /\ iterated' = TRUE
  /\ IF TestFRDue THEN t3Age' = 0 ELSE UNCHANGED t3Age
  /\ UNCHANGED <<outstandingTestFCConMessages, uAge>>
  /\ IF T2Due THEN SendS /\ UNCHANGED raced ELSE UNCHANGED <<ack, t2Age>>
  /\ thread' = "t1" /\ UNCHANGED flags
  /\ UNCHANGED <<app, old, buffer, serverAlive, silence>>

(* handleTimeouts before it takes the lock: the clock is read; T3, where a   *)
(* TESTFR message (re)starts the timeout of U messages; T2; then that        *)
(* timeout. The first and the last leave the function at once.               *)
HandleTimeouts ==
  /\ thread = "timeouts"
  /\ iterated' = TRUE
  /\ IF TestFRDue /\ ~TestFRLost
     THEN /\ t3Age' = 0 /\ uAge' = 0
          /\ outstandingTestFCConMessages' = outstandingTestFCConMessages + 1
     ELSE UNCHANGED testfr
  /\ IF T2Due /\ ~TestFRLost THEN SendS /\ UNCHANGED raced ELSE UNCHANGED <<ack, t2Age>>
  /\ IF TestFRLost \/ uAge' > T1
     THEN thread' = "leave" /\ loopRunning' = FALSE
     ELSE thread' = "t1" /\ UNCHANGED loopRunning
  /\ UNCHANGED <<app, old, running, failure, close, buffer, serverAlive, silence>>

(* Mutated form of OldestDue: looks at the newest frame. *)
NewestDue == sentAges # <<>> /\ sentAges[Len(sentAges)] >= T1

(* The difference to the time at which the oldest frame was sent is          *)
(* unsigned: a frame of the future is overdue, too.                          *)
OldestDue == sentAges # <<>> /\ (Head(sentAges) = Future \/ Head(sentAges) >= T1)

(* Mutated form of TestT1: close is not looked at. *)
TestT1Only ==
  /\ thread = "t1" /\ ~Locked
  /\ sentAges' = [i \in DOMAIN sentAges |-> IF sentAges[i] = Future THEN 0 ELSE sentAges[i]]
  /\ loopRunning' = (loopRunning /\ ~OldestDue)
  /\ thread' = IF loopRunning' THEN "wait" ELSE "leave"
  /\ UNCHANGED <<app, old, running, failure, close, forgotten, sender, ack, t2Age, testfr, env,
                 silence>>

(* The T1 test, under the lock; then the loop looks at close.                *)
TestT1 ==
  /\ thread = "t1" /\ ~Locked
  /\ sentAges' = [i \in DOMAIN sentAges |-> IF sentAges[i] = Future THEN 0 ELSE sentAges[i]]
  /\ loopRunning' = (loopRunning /\ ~OldestDue /\ ~close)
  /\ thread' = IF loopRunning' THEN "wait" ELSE "leave"
  /\ UNCHANGED <<app, old, running, failure, close, forgotten, sender, ack, t2Age, testfr, env,
                 silence>>

ConnectionThread ==
  \/ Reset \/ SocketConnects \/ SocketConnectFails \/ OpenedHandlerReturns \/ Ends
  \/ HandlerChecks \/ HandlerWrites \/ HandlerReturns
  \/ ReceiveNothing \/ ReceiveError \/ ReceiveI \/ ReceiveS \/ ReceiveU \/ ReceiveTestFRCon
  \/ CheckFails \/ CheckPasses \/ CountReceived \/ CheckW \/ HandleTimeouts \/ TestT1

-----------------------------------------------------------------------------
ServerFallsSilent ==
  /\ serverAlive
  /\ serverAlive' = FALSE
  /\ UNCHANGED <<app, old, thread, flags, buffer, ack, t2Age, testfr, iterated, silence>>

Older(age, bound) == IF age > bound THEN age ELSE age + 1

(* For how long nothing may be received: until the first TESTFR message, and *)
(* then until its timeout. If t3 is not longer than t1, the next TESTFR      *)
(* restarts that timeout, and the fourth is not sent any more.               *)
SilenceLimit == IF T1 < T3 THEN T3 + 1 + T1 ELSE 4 * T3 + 3

(* Time passes in the wait. An iteration takes at most 100 ms and connect    *)
(* looks every millisecond; timeouts are seconds.                            *)
Tick ==
  /\ thread = "wait" /\ iterated
  /\ ~(app = "connect" /\ (running \/ failure))
  /\ iterated' = FALSE
  /\ t2Age' = Older(t2Age, T2)
  /\ t3Age' = Older(t3Age, T3)
  /\ uAge' = IF uAge = Off THEN Off ELSE Older(uAge, T1)
  /\ silence' = Older(silence, SilenceLimit)
  /\ unackedAge' = IF unacked = 0 THEN 0 ELSE Older(unackedAge, T2)
  /\ sentAges' = [i \in DOMAIN sentAges |-> Older(sentAges[i], T1)]
  /\ UNCHANGED <<app, old, thread, flags, forgotten, sender, unconfirmedReceivedIMessages,
                 timeoutT2Trigger, outstandingTestFCConMessages, unacked, raced, serverAlive>>

Next ==
  \/ \E blocking \in BOOLEAN : Connect(blocking)
  \/ Close \/ SecondChecks \/ SecondWrites \/ OldEnds \/ ServerFallsSilent \/ Tick
  \/ ConnectReturns \/ CloseReturns \/ SecondResetsCounter \/ ConnectionThread

(* Threads are scheduled; connect and close poll or join, a critical section *)
(* is left, and handlers return. Servers and applications owe nothing.       *)
Fairness ==
  /\ WF_vars(ConnectionThread) /\ WF_vars(OldEnds)
  /\ SF_vars(OpenedHandlerReturns \/ HandlerReturns)
  /\ WF_vars(ConnectReturns) /\ WF_vars(CloseReturns) /\ WF_vars(SecondResetsCounter)

Spec == Init /\ [][Next]_vars /\ Fairness

-----------------------------------------------------------------------------
(* Every variable is of its type; the k-buffer never holds more than k.      *)
TypeOK ==
  /\ app \in {"idle", "connect", "close", "freed"}
  /\ thread \in Open \union {"none", "created", "connect", "leave", "ended"}
  /\ {old, running, failure, close, loopRunning, timeoutT2Trigger, iterated, serverAlive, raced,
      forgotten}
       \subseteq BOOLEAN
  /\ sentAges \in Seq(Future..(T1 + 1)) /\ Len(sentAges) <= K
  /\ sender \in [handler : {"idle", "checked", "stale"},
                 second : {"idle", "checked", "stale", "locked"}]
  /\ unconfirmedReceivedIMessages \in 0..W /\ unacked \in 0..ServerK
  /\ t2Age \in 0..(T2 + 1) /\ unackedAge \in 0..(T2 + 1) /\ t3Age \in 0..(T3 + 1)
  /\ uAge \in Off..(T1 + 1) /\ outstandingTestFCConMessages \in 0..3
  /\ silence \in 0..(SilenceLimit + 1)

AtRest == thread = "wait" /\ ~Locked /\ iterated

(* An unconfirmed frame is never forgotten, unless two threads were between  *)
(* the test of isSentBufferFull and the lock at once: the test is outside of *)
(* it. (cs104_connection.h:170, "the next message can only be sent after the *)
(* next confirmation".)                                                      *)
SendsWithinK ==
  [][\A s \in DOMAIN sender : sender[s] = "checked" /\ sender'[s] \in {"idle", "locked"}
       => ~Full]_vars

(* No path through handlers, w check and timeouts leaves w received frames   *)
(* without acknowledgement, or one for t2 (as in SlaveConnection, but from   *)
(* the copy of the code that the client has).                                *)
AcknowledgesInTime ==
  AtRest /\ ~raced => unacked < W /\ (unacked > 0 => unackedAge < T2)

(* No frame stays unconfirmed for t1 in an open connection (handleTimeouts), *)
(* unless the k-buffer has forgotten it: a frame that a stale thread stores  *)
(* into the full ring (sendIMessageAndUpdateSentASDUs) covers all others, and*)
(* no timeout looks at these until a later N(R) is accepted.                 *)
ConfirmedInT1 ==
  AtRest /\ ~forgotten => \A i \in DOMAIN sentAges : sentAges[i] < T1

(* A connection on which nothing is received is closed within t3 and t1, or  *)
(* four times t3 if t1 is not less, whatever the client sends on it meanwhile*)
(* (handleTimeouts).                                                         *)
SilenceDetected == AtRest => silence <= SilenceLimit

(* Nobody takes running from an open connection but the thread of one before *)
(* that had not ended when the application connected again.                  *)
RunningUntilClosed ==
  [][running /\ thread \in Open /\ thread' \in Open => running' \/ old]_vars

(* connect returns, unless such a thread takes running away or a timeout     *)
(* closes the connection, which is no failure, before connect has looked;    *)
(* close and destroy return, unless resetConnection undoes the close.        *)
Missed ==
  ~running /\ (thread \in Open \/ (thread = "ended" /\ ~failure /\ iterated))
CallsReturn ==
  /\ app = "connect" ~> app # "connect" \/ Missed
  /\ app = "close" ~> app # "close" \/ ~close

(* The time of a frame is "required for T1 timeout" (cs104_connection_cpp.c: *)
(* 64): the test of T1 closes a connection only if a frame was unconfirmed   *)
(* for t1.                                                                   *)
ClosedOnlyAfterT1 ==
  [][TestT1 /\ loopRunning /\ ~loopRunning' /\ ~close
       => \E i \in DOMAIN sentAges : sentAges[i] >= T1]_vars
=============================================================================
