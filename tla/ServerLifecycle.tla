--------------------------- MODULE ServerLifecycle ---------------------------
(* A CS104 server, from CS104_Slave_create to CS104_Slave_destroy: the        *)
(* application that starts, stops and destroys it, the listening thread and   *)
(* the thread of every connection, or the ticks of the application in their   *)
(* place, the redundancy groups, the table of connections and the semaphore   *)
(* openConnectionsLock. A critical section in which nothing can wait is one   *)
(* action that needs the semaphore; activation holds it while it calls the    *)
(* handler of the application, so it is two.                                  *)
EXTENDS Integers, FiniteSets, GroupMatching

CONSTANTS Conns,     \* connections accepted during a run, each once
          Nobody,    \* the semaphore is free; no connection is being set up
          AddressOf, \* the address of the client of a connection
          TableSize, \* CONFIG_CS104_MAX_CLIENT_CONNECTIONS
          Configurations, \* server mode, limit and groups that an application sets
          MaxStarts  \* bound of a run: calls of CS104_Slave_start

Mode == {"single", "multiple", "perConnection"}

ASSUME LifecycleAssumption ==
  /\ Nobody \notin Conns /\ AddressOf \in [Conns -> Addresses]
  /\ TableSize \in Nat \ {0} /\ MaxStarts \in Nat
  /\ Configurations \subseteq
       [mode : Mode, limit : 0..TableSize, groups : Seq(SUBSET Addresses)]

VARIABLES
  serverMode,
  maxOpenConnections,
  redundancyGroups,
  isThreadlessMode,
  isStarting, isRunning, stopRunning,
  asduQueue,          \* which event queue the server has; 0: none was created
  masterConnections,  \* the connections in the table, their places left out
  openConnections,
  lock,               \* holder of openConnectionsLock
  app,                \* where the application is
  listener,           \* where the listening thread is
  incoming,           \* the connection it is setting up
  thread,             \* where the thread of a connection is
  running,            \* isRunning of a connection
  queueOf,            \* its event queue; 0: one of its own
  group,              \* its redundancy group; 0: none
  starts,             \* calls of start
  history             \* what happened that the code does not exclude

config == <<serverMode, maxOpenConnections, redundancyGroups, isThreadlessMode>>
flags == <<isStarting, isRunning, stopRunning>>
server == <<asduQueue, starts>>
table == <<masterConnections, openConnections>>
queues == <<queueOf, group>>
connection == <<thread, running, queues>>
vars == <<config, flags, server, table, lock, app, listener, incoming, connection, history>>

App == {"idle", "start", "stop", "destroyStop", "destroyClose", "destroyWait", "freed",
        "tick", "serve", "ask"}
Listener == {"none", "open", "accept", "create", "add", "run", "leave"}
Thread == {"none", "created", "loop", "handle", "activate", "ask", "remove", "ended",
           "polled"}  \* no thread: the connection is served by ticks
History == {"closeUndone", \* a close before the thread of the connection ran
            "askedLocked", \* a handler under the semaphore asked for its turn
            "startedOver"} \* start with connections from before a stop

(* createSlave and the set functions. CS104_Slave_setMaxOpenConnections cuts  *)
(* at the size of the table; zero means no limit.                             *)
Init ==
  /\ \E conf \in Configurations :
       /\ serverMode = conf.mode /\ maxOpenConnections = conf.limit
       /\ redundancyGroups = conf.groups
  /\ isThreadlessMode = FALSE
  /\ isStarting = FALSE /\ isRunning = FALSE /\ stopRunning = FALSE
  /\ asduQueue = 0
  /\ masterConnections = {} /\ openConnections = 0
  /\ lock = Nobody
  /\ app = "idle" /\ listener = "none" /\ incoming = Nobody
  /\ thread = [c \in Conns |-> "none"]
  /\ running = [c \in Conns |-> FALSE]
  /\ queueOf = [c \in Conns |-> 0] /\ group = [c \in Conns |-> 0]
  /\ starts = 0 /\ history = {}

-----------------------------------------------------------------------------
(* The application.                                                          *)

Goto(c, from, to) == thread[c] = from /\ thread' = [thread EXCEPT ![c] = to]

Happened(what, cond) == history' = IF cond THEN history \union {what} ELSE history

(* The connections that exist for the server: added and not yet destroyed.    *)
Live == {c \in Conns : \/ thread[c] \notin {"none", "ended"}
                       \/ listener = "run" /\ incoming = c}

(* Mutated form of QueueAfterStart: groups get new queues at every start.     *)
QueueAfterStartAnew == IF serverMode = "perConnection" THEN 0 ELSE starts + 1

(* The event queues a start leaves: new in single mode, those of the groups   *)
(* that have none in multiple mode, none in the third.                        *)
QueueAfterStart ==
  CASE serverMode = "single"        -> starts + 1
    [] serverMode = "multiple"      -> IF asduQueue = 0 THEN starts + 1 ELSE asduQueue
    [] serverMode = "perConnection" -> 0

(* What the two start functions have in common: the queues and groups. An     *)
(* application uses one of the two with a server: isThreadlessMode is never   *)
(* reset.                                                                     *)
InitializeQueues ==
  /\ app = "idle" /\ ~isRunning /\ starts < MaxStarts
  /\ starts' = starts + 1 /\ asduQueue' = QueueAfterStart
  /\ redundancyGroups' = IF serverMode = "multiple" THEN InitializedGroups(redundancyGroups)
                                                   ELSE redundancyGroups
  /\ Happened("startedOver", Live # {})
  /\ UNCHANGED <<serverMode, maxOpenConnections, table, lock, incoming, connection>>

(* CS104_Slave_start up to the wait for the listening thread.                 *)
Start ==
  /\ ~isThreadlessMode
  /\ InitializeQueues
  /\ app' = "start" /\ listener' = "open"
  /\ isStarting' = TRUE /\ stopRunning' = FALSE
  /\ UNCHANGED <<isThreadlessMode, isRunning>>

StartReturns ==
  /\ app = "start" /\ ~isStarting
  /\ app' = "idle"
  /\ UNCHANGED <<config, flags, server, table, lock, listener, incoming, connection, history>>

(* CS104_Slave_stop, by the application or by CS104_Slave_destroy.            *)
RequestStop(from, to) ==
  /\ app = from /\ isRunning
  /\ app' = to
  /\ stopRunning' = TRUE
  /\ UNCHANGED <<config, isStarting, isRunning, server, table, lock, listener, incoming,
                 connection, history>>

Stop == ~isThreadlessMode /\ RequestStop("idle", "stop")

(* It waits for isRunning; Thread_destroy joins the listening thread.         *)
StopReturns ==
  /\ app = "stop" /\ ~isRunning /\ listener = "none"
  /\ app' = "idle"
  /\ UNCHANGED <<config, flags, server, table, lock, listener, incoming, connection, history>>

(* CS104_Slave_destroy: stop if running, ...                                  *)
DestroyRunning == ~isThreadlessMode /\ RequestStop("idle", "destroyStop")

DestroyStopped ==
  /\ app = "idle" /\ ~isRunning
  /\ app' = "destroyClose"
  /\ UNCHANGED <<config, flags, server, table, lock, listener, incoming, connection, history>>

DestroyStopReturns ==
  /\ app = "destroyStop" /\ ~isRunning /\ listener = "none"
  /\ app' = "destroyClose"
  /\ UNCHANGED <<config, flags, server, table, lock, listener, incoming, connection, history>>

(* ... close all connections in the table, ...                                *)
CloseAll ==
  /\ app = "destroyClose" /\ lock = Nobody
  /\ app' = "destroyWait"
  /\ running' = [c \in Conns |-> running[c] /\ c \notin masterConnections]
  /\ Happened("closeUndone", \E c \in masterConnections : thread[c] = "created")
  /\ UNCHANGED <<config, flags, server, table, lock, listener, incoming, thread, queues>>

(* Mutated form of Free: it does not wait. *)
FreeAtOnce ==
  /\ app = "destroyWait" /\ ~isThreadlessMode /\ lock = Nobody
  /\ app' = "freed"
  /\ UNCHANGED <<config, flags, server, table, lock, listener, incoming, connection, history>>

(* ... wait until the counter is zero and free everything.                    *)
Free ==
  /\ app = "destroyWait" /\ ~isThreadlessMode /\ lock = Nobody /\ openConnections <= 0
  /\ app' = "freed"
  /\ UNCHANGED <<config, flags, server, table, lock, listener, incoming, connection, history>>

-----------------------------------------------------------------------------
(* The listening thread.                                                     *)

OpenSocket ==
  /\ listener = "open"
  /\ listener' = "accept"
  /\ isRunning' = TRUE /\ isStarting' = FALSE
  /\ UNCHANGED <<config, stopRunning, server, table, lock, app, incoming, connection, history>>

OpenSocketFails ==
  /\ listener = "open"
  /\ listener' = "none"
  /\ isStarting' = FALSE
  /\ UNCHANGED <<config, isRunning, stopRunning, server, table, lock, app, incoming, connection,
                 history>>

(* Mutated form of BelowLimit. *)
AtMostLimit == maxOpenConnections > 0 => openConnections <= maxOpenConnections

(* The limit is checked without the semaphore, and long before the            *)
(* connection enters the table.                                               *)
BelowLimit == maxOpenConnections > 0 => openConnections < maxOpenConnections

Accept(c) ==
  /\ listener = "accept" /\ ~stopRunning
  /\ thread[c] = "none" /\ BelowLimit
  /\ listener' = "create" /\ incoming' = c
  /\ UNCHANGED <<config, flags, server, table, lock, app, connection, history>>

(* The connection request handler says no, no group takes the address, or     *)
(* MasterConnection_create fails.                                             *)
Refuse ==
  /\ listener = "create"
  /\ listener' = "accept" /\ incoming' = Nobody
  /\ UNCHANGED <<config, flags, server, table, lock, app, connection, history>>

(* MasterConnection_create, or createEx with the group of the address.        *)
CreateConnection(c) ==
  /\ queueOf' = [queueOf EXCEPT ![c] = asduQueue]
  /\ IF serverMode = "multiple"
     THEN \E sameRest \in SUBSET DOMAIN redundancyGroups, g \in DOMAIN redundancyGroups :
            /\ g = MatchingGroup(redundancyGroups, AddressOf[c], sameRest)
            /\ group' = [group EXCEPT ![c] = g]
     ELSE UNCHANGED group

Create ==
  /\ listener = "create"
  /\ listener' = "add"
  /\ CreateConnection(incoming)
  /\ UNCHANGED <<config, flags, server, table, lock, app, incoming, thread, running, history>>

(* addOpenConnection: when the table is full the connection is not counted.   *)
AddToTable(c) ==
  /\ lock = Nobody
  /\ IF Cardinality(masterConnections) < TableSize
     THEN /\ masterConnections' = masterConnections \union {c}
          /\ openConnections' = openConnections + 1
     ELSE UNCHANGED table

AddOpenConnection ==
  /\ listener = "add"
  /\ listener' = "run"
  /\ AddToTable(incoming)
  /\ UNCHANGED <<config, flags, server, lock, app, incoming, connection, history>>

(* MasterConnection_start. *)
StartThread ==
  /\ listener = "run"
  /\ Goto(incoming, "none", "created")
  /\ listener' = "accept" /\ incoming' = Nobody
  /\ UNCHANGED <<config, flags, server, table, lock, app, running, queues, history>>

(* Mutated form of LeaveLoop: isRunning stays. *)
LeaveLoopSilently ==
  /\ listener = "accept" /\ stopRunning
  /\ listener' = "leave"
  /\ UNCHANGED <<config, flags, server, table, lock, app, incoming, connection, history>>

(* stopRunning ends the loop: isRunning first, ...                            *)
LeaveLoop ==
  /\ listener = "accept" /\ stopRunning
  /\ listener' = "leave"
  /\ isRunning' = FALSE
  /\ UNCHANGED <<config, isStarting, stopRunning, server, table, lock, app, incoming, connection,
                 history>>

(* ... stopRunning after it.                                                  *)
ListenerEnds ==
  /\ listener = "leave"
  /\ listener' = "none"
  /\ stopRunning' = FALSE
  /\ UNCHANGED <<config, isStarting, isRunning, server, table, lock, app, incoming, connection,
                 history>>

-----------------------------------------------------------------------------
(* The thread of a connection.                                               *)

EnterLoop(c) ==
  /\ Goto(c, "created", "loop")
  /\ running' = [running EXCEPT ![c] = TRUE]
  /\ UNCHANGED <<config, flags, server, table, lock, app, listener, incoming, queues, history>>

(* An error, a timeout, the client, a handler or the application closes it.   *)
Close(c) ==
  /\ thread[c] \in {"loop", "handle", "activate", "polled"} /\ running[c]
  /\ running' = [running EXCEPT ![c] = FALSE]
  /\ UNCHANGED <<config, flags, server, table, lock, app, listener, incoming, thread, queues,
                 history>>

(* One turn of the loop: a message is handled and what waits is sent.         *)
EnterTurn(c) ==
  /\ running[c]
  /\ Goto(c, "loop", "handle")
  /\ UNCHANGED <<config, flags, server, table, lock, app, listener, incoming, running, queues,
                 history>>

(* A STARTDT message: CS104_Slave_activate takes the semaphore unless every   *)
(* connection is a group of its own, ...                                      *)
Activate(c) ==
  /\ serverMode # "perConnection" /\ lock = Nobody
  /\ Goto(c, "handle", "activate")
  /\ lock' = c
  /\ UNCHANGED <<config, flags, server, table, app, listener, incoming, running, queues,
                 history>>

(* The other connections of the group, which an activation deactivates.       *)
Others(c) == {d \in masterConnections \ {c} : group[d] = group[c]}

(* ... calls the event handler for those that it deactivates, which may ask   *)
(* for the number of open connections, ...                                    *)
HandlerAsks(c) ==
  /\ Others(c) # {}
  /\ Goto(c, "activate", "ask")
  /\ Happened("askedLocked", TRUE)
  /\ UNCHANGED <<config, flags, server, table, lock, app, listener, incoming, running, queues>>

(* ... and releases it.                                                       *)
Activated(c) ==
  /\ Goto(c, "activate", "loop")
  /\ lock' = Nobody
  /\ UNCHANGED <<config, flags, server, table, app, listener, incoming, running, queues,
                 history>>

EndTurn(c) ==
  /\ Goto(c, "handle", "loop")
  /\ UNCHANGED <<config, flags, server, table, lock, app, listener, incoming, running, queues,
                 history>>

(* The loop ends; the closed event, and queues of its own are destroyed.      *)
LeaveThreadLoop(c) ==
  /\ ~running[c]
  /\ Goto(c, "loop", "remove")
  /\ UNCHANGED <<config, flags, server, table, lock, app, listener, incoming, running, queues,
                 history>>

(* Mutated form of RemoveConnection: without the semaphore. *)
RemoveConnectionUnlocked(c) ==
  /\ Goto(c, "remove", "ended")
  /\ openConnections' = openConnections - 1
  /\ masterConnections' = masterConnections \ {c}
  /\ UNCHANGED <<config, flags, server, lock, app, listener, incoming, running, queues,
                 history>>

(* Mutated form of RemoveConnection: its place in the table is not cleared. *)
RemoveConnectionKeepsPlace(c) ==
  /\ lock = Nobody
  /\ Goto(c, "remove", "ended")
  /\ openConnections' = openConnections - 1
  /\ UNCHANGED <<config, flags, server, masterConnections, lock, app, listener, incoming, running,
                 queues, history>>

(* CS104_Slave_removeConnection, which destroys the connection.               *)
RemoveConnection(c) ==
  /\ lock = Nobody
  /\ Goto(c, "remove", "ended")
  /\ openConnections' = openConnections - 1
  /\ masterConnections' = masterConnections \ {c}
  /\ UNCHANGED <<config, flags, server, lock, app, listener, incoming, running, queues,
                 history>>

-----------------------------------------------------------------------------
(* The server without threads.                                               *)

(* CS104_Slave_startThreadless; the server socket may not open.               *)
StartThreadless ==
  /\ starts = 0 \/ isThreadlessMode
  /\ InitializeQueues
  /\ isThreadlessMode' = TRUE
  /\ isRunning' \in BOOLEAN
  /\ UNCHANGED <<isStarting, stopRunning, app, listener>>

(* CS104_Slave_stopThreadless, by the application or by CS104_Slave_destroy.  *)
CloseSocket(to) ==
  /\ app = "idle" /\ isThreadlessMode /\ isRunning
  /\ app' = to
  /\ isRunning' = FALSE
  /\ UNCHANGED <<config, isStarting, stopRunning, server, table, lock, listener, incoming,
                 connection, history>>

StopThreadless == CloseSocket("idle")
DestroyThreadless == CloseSocket("destroyClose")

(* What destroy does instead of waiting: the connections in the table are     *)
(* destroyed; the counter is left as it is.                                   *)
FreePolled ==
  /\ app = "destroyWait" /\ isThreadlessMode
  /\ app' = "freed"
  /\ thread' = [c \in Conns |-> IF c \in masterConnections THEN "ended" ELSE thread[c]]
  /\ masterConnections' = {}
  /\ UNCHANGED <<config, flags, server, openConnections, lock, listener, incoming, running,
                 queues, history>>

(* CS104_Slave_tick: a connection is accepted, ...                            *)
AcceptPolled(c) ==
  /\ app = "idle" /\ isThreadlessMode /\ isRunning
  /\ BelowLimit
  /\ Goto(c, "none", "polled")
  /\ CreateConnection(c)
  /\ AddToTable(c)
  /\ running' = [running EXCEPT ![c] = TRUE]
  /\ app' = "tick"
  /\ UNCHANGED <<config, flags, server, lock, listener, incoming, history>>

(* Mutated form of Tick: the limit is a guard of the whole function. *)
TickBelowLimit ==
  /\ app = "idle" /\ isThreadlessMode /\ isRunning /\ BelowLimit
  /\ app' = "tick"
  /\ UNCHANGED <<config, flags, server, table, lock, listener, incoming, connection, history>>

(* ... or none, ...                                                           *)
Tick ==
  /\ app = "idle" /\ isThreadlessMode /\ isRunning
  /\ app' = "tick"
  /\ UNCHANGED <<config, flags, server, table, lock, listener, incoming, connection, history>>

(* ... those that were closed are destroyed, ...                              *)
Sweep ==
  LET closed == {c \in masterConnections : ~running[c]}
  IN /\ app = "tick"
     /\ app' = "serve"
     /\ thread' = [c \in Conns |-> IF c \in closed THEN "ended" ELSE thread[c]]
     /\ masterConnections' = masterConnections \ closed
     /\ openConnections' = openConnections - Cardinality(closed)
     /\ UNCHANGED <<config, flags, server, lock, listener, incoming, running, queues,
                 history>>

(* ... and the others are served (see Close). A STARTDT message takes the     *)
(* semaphore and gives it back, unless the handler asks for it: it is called  *)
(* by the one thread there is.                                                *)
Served ==
  /\ app = "serve"
  /\ app' = "idle"
  /\ UNCHANGED <<config, flags, server, table, lock, listener, incoming, connection, history>>

TickAsks(c) ==
  /\ app = "serve" /\ serverMode # "perConnection"
  /\ c \in masterConnections /\ running[c] /\ Others(c) # {}
  /\ app' = "ask" /\ lock' = c
  /\ Happened("askedLocked", TRUE)
  /\ UNCHANGED <<config, flags, server, table, listener, incoming, connection>>

-----------------------------------------------------------------------------
AppWaits ==
  \/ StartReturns \/ StopReturns \/ DestroyStopReturns \/ CloseAll \/ Free
  \/ FreePolled \/ Sweep \/ Served

ListenerThread ==
  \/ OpenSocket \/ OpenSocketFails \/ Refuse \/ Create \/ AddOpenConnection \/ StartThread
  \/ LeaveLoop \/ ListenerEnds

ConnectionThread(c) ==
  \/ EnterLoop(c) \/ EnterTurn(c) \/ Activated(c) \/ EndTurn(c) \/ LeaveThreadLoop(c)
  \/ RemoveConnection(c)

Next ==
  \/ Start \/ Stop \/ DestroyRunning \/ DestroyStopped
  \/ StartThreadless \/ StopThreadless \/ DestroyThreadless \/ Tick
  \/ AppWaits \/ ListenerThread
  \/ \E c \in Conns :
       \/ Accept(c) \/ Close(c) \/ Activate(c) \/ HandlerAsks(c)
       \/ AcceptPolled(c) \/ TickAsks(c)
       \/ ConnectionThread(c)

(* All threads are scheduled, handlers return. Nobody is kept from the        *)
(* semaphore for ever by connections that take it again and again: strong     *)
(* fairness. The application "periodically" (cs104_slave.h:290) calls tick.   *)
Fairness ==
  /\ SF_vars(AppWaits) /\ SF_vars(ListenerThread) /\ WF_vars(Tick)
  /\ SF_vars(\E c \in Conns : RemoveConnection(c))
  /\ \A c \in Conns : WF_vars(ConnectionThread(c))

Spec == Init /\ [][Next]_vars /\ Fairness

-----------------------------------------------------------------------------
(* Every variable is of its type.                                            *)
TypeOK ==
  /\ serverMode \in Mode /\ maxOpenConnections \in 0..TableSize
  /\ redundancyGroups \in Seq(SUBSET Addresses) /\ isThreadlessMode \in BOOLEAN
  /\ isStarting \in BOOLEAN /\ isRunning \in BOOLEAN /\ stopRunning \in BOOLEAN
  /\ asduQueue \in 0..MaxStarts /\ starts \in 0..MaxStarts
  /\ masterConnections \subseteq Conns /\ openConnections \in Int
  /\ lock \in Conns \union {Nobody}
  /\ app \in App /\ listener \in Listener /\ incoming \in Conns \union {Nobody}
  /\ thread \in [Conns -> Thread] /\ running \in [Conns -> BOOLEAN]
  /\ queueOf \in [Conns -> 0..MaxStarts] /\ group \in [Conns -> Nat]
  /\ history \subseteq History

Limited == maxOpenConnections > 0

(* As long as there is a limit, the table holds exactly the connections whose *)
(* thread runs or is about to, or that ticks serve, and openConnections       *)
(* ("number of connected clients") is their number: what CS104_Slave_destroy  *)
(* relies on when it closes and counts. Without threads it does not count.    *)
TableIsLive ==
  Limited => /\ masterConnections = Live
             /\ app # "freed" => openConnections = Cardinality(Live)

(* The limit holds although it is checked without the semaphore and the       *)
(* request handler runs between the check and the addition.                   *)
WithinLimit == Limited => openConnections \in 0..maxOpenConnections

(* Nobody changes the table while a connection goes through it and hands      *)
(* connections out of it to the handler of the application.                   *)
LockProtectsTable == [][lock # Nobody => UNCHANGED table]_vars

(* When the server is freed no thread is left that would use it, and no       *)
(* connection of a server without threads.                                    *)
FreedAlone == Limited /\ app = "freed" => Live = {} /\ listener = "none"

(* All open connections send from the queue that events are put into, unless  *)
(* the server was started anew over the connections that stop left open.      *)
SharedQueue ==
  \/ serverMode = "perConnection"
  \/ serverMode = "single" /\ "startedOver" \in history
  \/ \A c \in Live : queueOf[c] = asduQueue /\ asduQueue # 0

(* A client that a group lists is in a group that lists it, so that it shares *)
(* the events with the others of that group and never takes the place of a    *)
(* client outside; only clients that no group lists come to one without a     *)
(* list. An abbreviated address may miss its group (GroupMatching).           *)
GroupOfAddress ==
  \A c \in Live :
    LET listed == {g \in DOMAIN redundancyGroups : AddressOf[c] \in redundancyGroups[g]}
    IN serverMode = "multiple" =>
         IF listed # {} /\ AddressOf[c] \notin Abbreviated
         THEN group[c] \in listed /\ \A g \in listed : group[c] <= g
         ELSE group[c] \in listed \/ redundancyGroups[group[c]] = CatchAll

(* The calls of the application return, and destroy ends: all threads do.     *)
(* Three things can prevent it: a connection closed before its thread ran, a  *)
(* handler that waits for the semaphore its caller holds, and connections     *)
(* that found no place in the table, which nobody closes.                     *)
Hung == {"closeUndone", "askedLocked"} \intersect history # {} \/ ~Limited
CallsReturn == app \notin {"idle", "freed"} ~> app \in {"idle", "freed"} \/ Hung

(* Connections that are closed leave the table and make room for other        *)
(* clients, whatever the server is doing: with threads also while it is being *)
(* stopped. Without threads nobody serves connections of a stopped server.    *)
Closed == {c \in Conns : /\ thread[c] \in {"loop", "handle", "activate", "remove", "polled"}
                         /\ ~running[c]}
ClosedLeaves == Closed # {} ~> Closed = {} \/ Hung \/ (isThreadlessMode /\ ~isRunning)
=============================================================================
