------------------------------ MODULE Dispatch ------------------------------
(* What the server does with a command: handleASDU finds a handler by type   *)
(* and cause of transmission, the handlers answer, and what no handler takes *)
(* is rejected. Answers go through sendASDUInternal into the k-buffer or     *)
(* into the response queue of HighPriorityQueue, which the loop empties.     *)
(* One connection in full; of the others in its group what they do to it and *)
(* to the queue, their own answers left out (RedundancyGroup has them).      *)
EXTENDS HighPriorityQueue, FiniteSets

CONSTANTS K,           \* frames in the k-buffer
          HandlerSets, \* which handlers may be installed
          Causes,      \* causes of transmission that clients send
          MaxCommands, MaxAnswers, MaxStarts, MaxTerminations \* bounds

Commands == 1..MaxCommands

(* n counts the answers the thread of the connection gives to a command; 0   *)
(* is the termination that an application thread sends later.                *)
Answer == [cmd : Commands, n : 0..MaxAnswers]

(* The commands handleASDU knows, with the causes it takes them with.        *)
PermittedCauses ==
  [C_IC_NA_1 |-> {"ACTIVATION", "DEACTIVATION"},
   C_CI_NA_1 |-> {"ACTIVATION", "DEACTIVATION"},
   C_RD_NA_1 |-> {"REQUEST"},
   C_CS_NA_1 |-> {"ACTIVATION"},
   C_TS_NA_1 |-> {"ACTIVATION"},
   C_RP_NA_1 |-> {"ACTIVATION"},
   C_CD_NA_1 |-> {"ACTIVATION", "SPONTANEOUS"}]

Known == DOMAIN PermittedCauses
Types == Known \union {"other"}

(* The handlers an application can install, and whose they are. There is no  *)
(* function that sets those for C_RP_NA_1 and C_CD_NA_1.                     *)
Handlers ==
  [C_IC_NA_1 |-> "interrogationHandler", C_CI_NA_1 |-> "counterInterrogationHandler",
   C_RD_NA_1 |-> "readHandler", C_CS_NA_1 |-> "clockSyncHandler"]
AllHandlers == {Handlers[t] : t \in DOMAIN Handlers} \union {"asduHandler"}

ASSUME DispatchAssumption ==
  /\ Asdu = Answer /\ K \in Nat \ {0}
  /\ HandlerSets # {} /\ HandlerSets \subseteq SUBSET AllHandlers
  /\ MaxCommands \in Nat \ {0} /\ MaxAnswers \in Nat \ {0, 1}
  /\ MaxStarts \in Nat /\ MaxTerminations \in Nat

VARIABLES
  installed,   \* handlers
  isActive, isRunning,
  inFlight,    \* frames in the k-buffer
  thread,      \* where the thread of the connection is
  command,     \* number of commands received; the last is the one being handled
  asdu,        \* that command, until the switch of handleASDU: type, cause
  handler,     \* the handler of its type, once called
  causeRight,  \* history: its type takes its cause
  answers,     \* answers the thread has given to it
  verdicts,    \* history: what the library itself has answered to it
  taker,       \* history: the handler that returned true
  next,        \* where the thread goes on when it has queued its answer
  application, \* how far the second thread is with a termination
  terminations, \* terminations so far
  starts,      \* STARTDTs so far
  fresh,       \* history: commands received since the last one
  written      \* history: the thread's answer to each command written last

dispatch == <<installed, isActive, isRunning, inFlight, thread, command, asdu, handler, causeRight,
              answers, verdicts, taker, next, application, terminations, starts, fresh, written>>
dispatchVars == <<vars, dispatch>>

handling == <<command, asdu, handler, causeRight, answers, verdicts, taker>>
session  == <<installed, isActive, starts, fresh>>
second   == <<application, terminations>>

None == "none"
NoCommand == [type |-> None, cot |-> None]
Idle == [at |-> "idle", cmd |-> 0]

DispatchInit ==
  /\ Init
  /\ installed \in HandlerSets
  /\ isActive = FALSE /\ isRunning = TRUE
  /\ inFlight = 0
  /\ thread = "wait"
  /\ command = 0 /\ asdu = NoCommand /\ handler = None /\ causeRight = TRUE
  /\ answers = 0 /\ verdicts = <<>> /\ taker = None
  /\ next = None
  /\ application = Idle /\ terminations = 0
  /\ starts = 0 /\ fresh = {}
  /\ written = [c \in Commands |-> 0]

Goto(from, to) == thread = from /\ thread' = to

-----------------------------------------------------------------------------
(* sendASDU: a write that fails ends the connection.                         *)
WriteFrame(a) ==
  /\ inFlight' = inFlight + 1
  /\ \/ /\ UNCHANGED isRunning
        /\ written' = IF a.n = 0 THEN written ELSE [written EXCEPT ![a.cmd] = a.n]
     \/ isRunning' = FALSE /\ UNCHANGED written

Unsent == UNCHANGED <<inFlight, isRunning, written>>

(* Mutated form of Respond: what the queue would refuse is written at once.  *)
RespondPastFullQueue(place) ==
  /\ answers < MaxAnswers /\ answers' = answers + 1
  /\ \/ /\ isActive => inFlight < K \/ entryCounter = Size
        /\ IF isActive THEN WriteFrame([cmd |-> command, n |-> answers']) ELSE Unsent
        /\ thread' = place /\ UNCHANGED next
     \/ /\ isActive /\ inFlight >= K /\ entryCounter < Size /\ Unsent
        /\ thread' = "queue" /\ next' = place

(* sendASDUInternal on the thread of the connection, up to the unlock of the *)
(* k-buffer: dropped, written, or still to be queued.                        *)
Respond(place) ==
  /\ answers < MaxAnswers /\ answers' = answers + 1
  /\ \/ ~isActive /\ Unsent /\ thread' = place /\ UNCHANGED next
     \/ /\ isActive /\ inFlight < K
        /\ WriteFrame([cmd |-> command, n |-> answers'])
        /\ thread' = place /\ UNCHANGED next
     \/ isActive /\ inFlight >= K /\ Unsent /\ thread' = "queue" /\ next' = place

(* ... its rest: a full queue refuses the answer.                            *)
QueueAnswer ==
  /\ Goto("queue", next)
  /\ Enqueue([cmd |-> command, n |-> answers])
  /\ next' = None
  /\ Unsent /\ UNCHANGED <<session, handling, second>>

-----------------------------------------------------------------------------
(* The client. Any frame may confirm frames of the server.                   *)
Receives == thread = "wait" /\ isRunning
Confirms == inFlight' \in 0..inFlight

ReceiveS ==
  /\ Receives /\ Confirms
  /\ thread' = "loop"
  /\ UNCHANGED <<vars, session, handling, isRunning, next, second, written>>

(* MasterConnection_activate and the others of the group deactivated, then   *)
(* the response queue emptied.                                               *)
StartDT ==
  /\ Receives /\ starts < MaxStarts
  /\ Goto("wait", "reset")
  /\ isActive' = TRUE
  /\ starts' = starts + 1
  /\ UNCHANGED <<vars, installed, fresh, handling, inFlight, isRunning, next, second, written>>

(* Mutated form of StartedDT: the queue keeps what it holds. *)
StartedDTKeepsQueue ==
  /\ Goto("reset", "loop")
  /\ fresh' = {}
  /\ UNCHANGED <<vars, installed, isActive, starts, handling, inFlight, isRunning,
                 next, second, written>>

StartedDT ==
  /\ Goto("reset", "loop")
  /\ ResetConnectionQueue
  /\ fresh' = {}
  /\ UNCHANGED <<installed, isActive, starts, handling, inFlight, isRunning,
                 next, second, written>>

StopDT ==
  /\ Receives
  /\ isActive' = FALSE
  /\ thread' = "loop"
  /\ UNCHANGED <<vars, installed, starts, fresh, handling, inFlight, isRunning,
                 next, second, written>>

(* An I frame on an active connection is a command; else it is skipped.      *)
ReceiveCommand ==
  /\ Receives /\ Confirms
  /\ \/ ~isActive /\ thread' = "loop" /\ UNCHANGED <<handling, fresh>>
     \/ /\ isActive /\ command < MaxCommands
        /\ thread' = "switch"
        /\ command' = command + 1
        /\ asdu' \in [type : Types, cot : Causes]
        /\ causeRight' = (asdu'.type \in Known => asdu'.cot \in PermittedCauses[asdu'.type])
        /\ UNCHANGED <<handler, answers, verdicts, taker>>
        /\ fresh' = fresh \union {command'}
  /\ UNCHANGED <<vars, installed, isActive, starts, isRunning, next, second, written>>

-----------------------------------------------------------------------------
(* handleASDU.                                                               *)
HandlerInstalled == asdu.type \in DOMAIN Handlers /\ Handlers[asdu.type] \in installed

(* The library answers with a cause of its own.                              *)
Answers(cot, place) ==
  /\ verdicts' = Append(verdicts, cot)
  /\ Respond(place)

CallHandler ==
  /\ thread = "switch" /\ causeRight /\ HandlerInstalled
  /\ handler' = Handlers[asdu.type]
  /\ thread' = "handler"
  /\ UNCHANGED <<verdicts, answers, taker, next>> /\ Unsent

(* responseCOTUnknown; the command is offered to the ASDU handler after it.  *)
CauseUnknown ==
  /\ thread = "switch" /\ ~causeRight /\ asdu.type # "C_TS_NA_1"
  /\ Answers("UNKNOWN_COT", "default")
  /\ UNCHANGED <<handler, taker>>

(* The library answers a test command itself, whatever its cause.            *)
TestCommand ==
  /\ thread = "switch" /\ asdu.type = "C_TS_NA_1"
  /\ Answers(IF causeRight THEN "ACTIVATION_CON" ELSE "UNKNOWN_COT", "done")
  /\ taker' = "library"
  /\ UNCHANGED handler

NoHandler ==
  /\ thread = "switch" /\ causeRight /\ asdu.type # "C_TS_NA_1" /\ ~HandlerInstalled
  /\ thread' = "default"
  /\ UNCHANGED <<handler, verdicts, answers, taker, next>> /\ Unsent

Switch ==
  /\ CallHandler \/ CauseUnknown \/ TestCommand \/ NoHandler
  /\ asdu' = NoCommand

(* A handler answers as often as it likes; one answer is left for the        *)
(* library. sendACT_CON and sendACT_TERM of the connection interface, like   *)
(* the library's own answers, change the cause in the buffer of the command, *)
(* which is read again by handlers only.                                     *)
HandlerAnswers ==
  /\ thread \in {"handler", "asduHandler"} /\ answers < MaxAnswers - 1
  /\ Respond(thread)
  /\ UNCHANGED <<verdicts, taker>>

(* The positive confirmation of a clock synchronization is an event: it goes *)
(* to the event queues of all groups (CS104_Slave_enqueueASDU).              *)
ClockSet ==
  /\ handler = "clockSyncHandler"
  /\ Goto("handler", "done")
  /\ verdicts' = Append(verdicts, "ACTIVATION_CON")
  /\ taker' = "clockSyncHandler"
  /\ UNCHANGED <<answers, next>> /\ Unsent

(* Mutated form of ClockNotSet: messageHandled stays false.                  *)
ClockNotSetGoesOn ==
  /\ thread = "handler" /\ handler = "clockSyncHandler"
  /\ Answers("ACTIVATION_CON", "default")
  /\ UNCHANGED taker

ClockNotSet ==
  /\ thread = "handler" /\ handler = "clockSyncHandler"
  /\ Answers("ACTIVATION_CON", "done")
  /\ taker' = "clockSyncHandler"

HandlerReturns ==
  /\ handler # "clockSyncHandler"
  /\ \/ Goto("handler", "done") /\ taker' = handler
     \/ Goto("handler", "default") /\ UNCHANGED taker
  /\ UNCHANGED <<verdicts, answers, next>> /\ Unsent

Default ==
  /\ Goto("default", IF "asduHandler" \in installed THEN "asduHandler" ELSE "reject")
  /\ UNCHANGED <<verdicts, answers, taker, next>> /\ Unsent

DefaultReturns ==
  /\ \/ Goto("asduHandler", "done") /\ taker' = "asduHandler"
     \/ Goto("asduHandler", "reject") /\ UNCHANGED taker
  /\ UNCHANGED <<verdicts, answers, next>> /\ Unsent

Reject ==
  /\ thread = "reject"
  /\ Answers("UNKNOWN_TYPE_ID", "done")
  /\ UNCHANGED taker

HandleASDU ==
  /\ \/ Switch
     \/ /\ \/ HandlerAnswers \/ ClockSet \/ ClockNotSet \/ HandlerReturns
           \/ Default \/ DefaultReturns \/ Reject
        /\ UNCHANGED <<asdu, handler>>
  /\ UNCHANGED <<vars, session, command, causeRight, second>>

(* The buffer is freed.                                                      *)
Handled ==
  /\ Goto("done", "loop")
  /\ handler' = None /\ causeRight' = TRUE /\ answers' = 0 /\ verdicts' = <<>> /\ taker' = None
  /\ UNCHANGED <<vars, session, command, asdu, inFlight, isRunning, next, second, written>>

-----------------------------------------------------------------------------
(* The rest of a turn: sendWaitingASDUs empties the response queue and then  *)
(* sends an event.                                                           *)
Loop ==
  /\ Goto("loop", IF isActive /\ isRunning THEN "send" ELSE "wait")
  /\ UNCHANGED <<vars, session, handling, inFlight, isRunning, next, second, written>>

(* An answer has been seen in the queue; another connection may take it.     *)
AnswerAvailable ==
  /\ entryCounter > 0
  /\ Goto("send", "take")
  /\ UNCHANGED <<vars, session, handling, inFlight, isRunning, next, second, written>>

SendAnswer ==
  /\ thread = "take"
  /\ \/ inFlight >= K /\ thread' = "wait" /\ Unsent /\ UNCHANGED vars
     \/ /\ inFlight < K
        /\ GetNextASDU
        /\ IF taken' = NoAsdu
           THEN thread' = "wait" /\ Unsent
           ELSE WriteFrame(taken') /\ thread' = (IF isRunning' THEN "send" ELSE "wait")
  /\ UNCHANGED <<session, handling, next, second>>

SendEvent ==
  /\ entryCounter = 0
  /\ Goto("send", "wait")
  /\ inFlight' \in inFlight..(IF inFlight < K THEN inFlight + 1 ELSE inFlight)
  /\ isRunning' \in IF inFlight' = inFlight THEN {isRunning} ELSE {isRunning, FALSE}
  /\ UNCHANGED <<vars, session, handling, next, second, written>>

-----------------------------------------------------------------------------
(* An application thread ends a command later, with a copy of it: the same   *)
(* sendASDUInternal, every step of it among those of the connection.         *)
Terminate(c) ==
  /\ isActive /\ application = Idle /\ terminations < MaxTerminations /\ c <= command
  /\ application' = [at |-> "active", cmd |-> c]
  /\ terminations' = terminations + 1
  /\ UNCHANGED <<vars, session, handling, inFlight, isRunning, thread, next, written>>

TerminationWritten ==
  /\ application.at = "active"
  /\ \/ /\ inFlight < K /\ WriteFrame([cmd |-> application.cmd, n |-> 0])
        /\ application' = Idle
     \/ inFlight >= K /\ Unsent /\ application' = [application EXCEPT !.at = "queue"]
  /\ UNCHANGED <<vars, session, handling, thread, next, terminations>>

TerminationQueued ==
  /\ application.at = "queue"
  /\ Enqueue([cmd |-> application.cmd, n |-> 0])
  /\ application' = Idle
  /\ UNCHANGED <<session, handling, thread, next, terminations>> /\ Unsent

(* The other connections of the group: STARTDT on one of them, which empties *)
(* the queue, and answers that one takes which is active, or was when it     *)
(* looked: both may come after this one has been activated again.            *)
OtherActivates ==
  /\ isActive /\ isActive' = FALSE
  /\ UNCHANGED <<vars, installed, starts, fresh, handling, inFlight, isRunning, thread, next,
                 second, written>>

OtherUsesQueue ==
  /\ ResetConnectionQueue \/ GetNextASDU
  /\ UNCHANGED <<session, handling, inFlight, isRunning, thread, next, second, written>>

Client == ReceiveS \/ StartDT \/ StopDT \/ ReceiveCommand
Thread == QueueAnswer \/ StartedDT \/ HandleASDU \/ Handled \/ Loop
          \/ AnswerAvailable \/ SendAnswer \/ SendEvent
Application == (\E c \in Commands : Terminate(c)) \/ TerminationWritten \/ TerminationQueued
OtherConnections == OtherActivates \/ OtherUsesQueue

DispatchNext == Client \/ Thread \/ Application \/ OtherConnections

DispatchSpec == DispatchInit /\ [][DispatchNext]_dispatchVars

-----------------------------------------------------------------------------
(* handleASDU comes to one verdict: with a cause its type knows, a command   *)
(* is taken by one handler or rejected once, and what a handler took is      *)
(* answered by the library only if it is its own command (test, clock). An   *)
(* unknown cause is rejected as such, and the command then taken by the ASDU *)
(* handler or rejected a second time.                                        *)
OneVerdict ==
  thread = "done" =>
    IF causeRight
    THEN \/ taker = None /\ verdicts = <<"UNKNOWN_TYPE_ID">>
         \/ taker \in {"library", "clockSyncHandler"} /\ verdicts = <<"ACTIVATION_CON">>
         \/ taker \in installed \ {"clockSyncHandler"} /\ verdicts = <<>>
    ELSE \/ taker \in {"library", "asduHandler"} /\ verdicts = <<"UNKNOWN_COT">>
         \/ taker = None /\ verdicts = <<"UNKNOWN_COT", "UNKNOWN_TYPE_ID">>

(* What the connection's own thread answers to a command leaves in the order *)
(* it was sent, written at once or through the queue: the k-buffer is not    *)
(* confirmed while handlers run. Answers to a later command may overtake it, *)
(* and so may a termination by an application thread (n = 0).                *)
AnswersInOrder ==
  [][\A c \in Commands : written'[c] >= written[c]]_written

(* No answer of the connection's own thread crosses a STARTDT: what leaves   *)
(* after it answers a command that came after it (resetConnectionQueue).     *)
NoAnswerCrossesStart ==
  [][\A c \in Commands : written'[c] # written[c] => c \in fresh]_written
=============================================================================
