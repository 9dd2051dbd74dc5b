# A TLA+ model of the CS104 server, client and information objects of lib60870

The repository holds the C sources of the IEC 60870-5-104 part of lib60870-C
(server: `cs104_slave_cpp.c`, client: `cs104_connection_cpp.c`, information
objects: `cs101_information_objects.c`), edited so that they can be translated
to Nim, the Nim translations and bindings, and two example programs. This
directory holds TLA+ modules for the parts with state and concurrency, TLC
configurations that check them, and theorems that TLAPS proves about them. The
C sources are the reference for every definition; the Nim files are mechanical
translations of them.

## 1. The system

### Components

| component | state | operations | shared with |
|---|---|---|---|
| event queue, `MessageQueue` (server) | ring of slots (time stamp, frame, state), counter, first and last index | enqueueASDU, getNextWaitingASDU, markAsduAsConfirmed, releaseAllQueuedASDUs, isAsduAvailable | application, all connections of a redundancy group; semaphore `queueLock` |
| response queue, `HighPriorityASDUQueue` (server) | ring of frames, counter, first and last index | enqueue, getNextASDU, resetConnectionQueue, isAsduAvailable | all connections of a group; semaphore |
| k-buffer (server) | ring of `SentASDUSlave` (sequence number, time, handle of the event), oldest and newest index, sendCount | isSentBufferFull, sendASDU, checkSequenceNumber, T1 test | connection thread and application threads; `sentASDUsLock` |
| connection, `sMasterConnection` (server) | isActive, isRunning, receiveCount, unconfirmedReceivedIMessages, T2 flag and time, T3 time, outstanding TESTFR | handleMessage, handleASDU, handleTimeouts, sendWaitingASDUs, sendASDUInternal, close, activate, deactivate | its own thread; other connection threads (deactivate), application (send, close), server (close); no lock but that of the k-buffer |
| server, `sCS104_Slave` | table of connections, number of open connections, running/starting/stopping flags, handlers, redundancy groups | create, start, stop, destroy, the same without threads and tick, activate, enqueueASDU, add and remove connections | application, listening thread, connection threads; `openConnectionsLock` |
| redundancy groups | list of groups, their addresses and queues | matching of an address, catch-all group | listening thread |
| client, `sCS104_Connection` | k-buffer, receiveCount, unconfirmed counter, T1, T2, T3 and U message time-outs, connected/running/failure flags | connect, close, destroy, send..., checkMessage, handleTimeouts | its thread, application; `sentASDUsLock` |
| information objects | none; values in buffers | create, getters, encode, getFromBuffer | caller |
| CP16/24/32/56 times | none; bytes | set and get fields, to and from milliseconds | caller |
| frame, TLS, sockets, threads, semaphores, time | of the linked library | - | - |

### How they interact

An application thread adds events with `CS104_Slave_enqueueASDU`. Each
connection runs `connectionHandlingThread`: wait for a message (1 ms or 100 ms),
`handleMessage`, acknowledge if w is reached, `handleTimeouts`, and, if the
connection is active, `sendWaitingASDUs`, which empties the response queue into
the k-buffer and then sends one event. A received N(R) takes frames out of the
k-buffer and tells the event queue which slots are confirmed. Handlers called
from `handleMessage` answer through `sendASDUInternal`: into the k-buffer if it
has room, else into the response queue. STARTDT runs `CS104_Slave_activate`,
which deactivates all other connections of the group from the thread of this
one. `CS104_Slave_destroy` closes all connections and waits for their threads.

A server that was started with `CS104_Slave_startThreadless` has no threads: the
application calls `CS104_Slave_tick`, which accepts a connection, destroys those
that were closed, reads from the others and does their periodic tasks. In the
mode with several redundancy groups a new connection is put into the group that
lists its address, else into one without a list, else refused.

### What is hard about it

* Two kinds of flags are written by several threads without a lock:
  `isActive` (own thread, other connections' threads) and `isRunning` (own
  thread, application, `destroy`); so are the counter of unconfirmed frames and
  the T2 flag.
* Events live in two places: slots of the queue and handles (slot, time stamp)
  in the k-buffers of several connections. Handles outlive the slots.
* Three rings with different conventions (indices -1 when empty, wrap-around,
  overwriting or refusing when full), and sequence numbers modulo 32768.
* Four timers that stop, start and shadow each other (T1, T2, T3, w).
* Connections are lost at any time; nothing is rolled back.
* The numbers of the two ends are joined by what is on its way between them;
  each end writes N(R) under a lock that its receiver does not take.
* A command passes a table of types and causes, handlers that may not be
  installed, and two ways out for every answer.
* Queues of a group outlive the connections that filled them.

### What makes each component correct

* event queue: order, at most one connection gets an event, the oldest event is
  dropped first, a confirmation takes only what was sent and not what is newer;
* response queue: a bounded FIFO, empty after STARTDT;
* k-buffer: never more than k frames, consecutive numbers, exactly the window
  is accepted, exactly what is confirmed is removed;
* connection: acknowledgement after w frames and within t2, closed when a frame
  stays unconfirmed for t1, a silent client is detected, close ends the thread;
* k-buffers of both ends: neither refuses what the other sent, both agree on
  what was sent, received and confirmed, and a full buffer empties again;
* handleASDU: one verdict for every command, answers in order and not across a
  STARTDT;
* group: at most one active connection, a response leaves on the connection it
  belongs to, and it does leave; a client comes to the group that lists it;
* server: the number of open connections is that of the table, closed
  connections leave it, destroy ends, a connection is destroyed once and used by
  nobody afterwards;
* client: as the k-buffer and the connection; connect and close agree with the
  thread;
* information objects: decoding inverts encoding, values are clamped or
  rejected as the interface says.

## 2. Modules

| module | models | with |
|---|---|---|
| `EventQueue` | what the event queue promises: a sequence of events of which a prefix is handed out | abstract |
| `MessageQueue` | the ring of slots in `cs104_slave_cpp.c` 111-459, the handles in the k-buffers, the millisecond clock | refines `EventQueue` |
| `MCMessageQueue` | model values and symmetry for it | |
| `MessageQueue_proof` | types and ring, handles, confirmation and the refinement of `EventQueue`, for all constants | |
| `BoundedFifo` | what the response queue promises | abstract |
| `HighPriorityQueue` | the ring in 465-725 | refines `BoundedFifo` |
| `SentBuffer` | the k-buffer with sequence numbers: 1674-1785, 1999-2097 | |
| `SentBuffer_proof` | window, acceptance and removal for all k and all moduli | |
| `Link` | a connection as both ends see it: the server's k-buffer, the client's (`cs104_connection_cpp.c` 143-192, 298-400, 536-574, 757-762, 892-934), the stream in each direction, the checks of N(S) and N(R), threads that send at each end, at the client several of them between test and lock; or an arbitrary client | extends `SentBuffer` and instantiates it for the client |
| `Link_proof` | neither end refuses a frame and both agree, for all k, moduli and w; window and removal with any client | instantiates `SentBuffer_proof` for the client |
| `Dispatch` | what becomes of a command: 1740-1995, handlers, answers, the response queue behind them | extends `HighPriorityQueue` |
| `MCDispatch` | its handlers and answers for TLC | |
| `Dispatch_proof` | the ring of `HighPriorityQueue` and its refinement of `BoundedFifo`; one verdict, the order of the answers and the fresh start after STARTDT, for any handlers, sizes and numbers of commands | also the proofs about `HighPriorityQueue` |
| `SlaveConnection` | one connection, its thread and everything that interferes with it: 2099-2541 | numbers abstracted to counts, times to ticks |
| `SlaveConnection_proof` | acknowledgement in time, confirmation in t1, the counter, for all k, w, t1, t2 and t3 | |
| `RedundancyGroup` | several connections of a group: activation, handlers, response queue, loss: 1392-1453, 1740-1785, 2292-2351, 2421-2446 | uses `BoundedFifo` |
| `MCRedundancyGroup` | symmetry and a specification without fairness for its violation run | |
| `GroupAndCodec_proof` | two parts that share nothing but the module. Of the group: types, one active connection, own responses, for any number of connections. Of the codec: every type is sound, and room, whole objects, nothing lost, received as sent, for any objects and any room | extends `RedundancyGroup` and `InformationObjects` |
| `GroupMatching` | which group takes an address: 739-943, 2911-2941, 3224-3230 | operators |
| `ServerLifecycle` | the server: create, start, stop, destroy, the listening thread or the ticks in its place, groups, the table of connections and its semaphore: 962-1071, 1180-1290, 1342-1453, 2421-2541, 2616-2863, 2943-3449 | three server modes; extends `GroupMatching` |
| `MCServerLifecycle` | its configurations and addresses for TLC | |
| `ClientConnection` | the client: connect, close, its thread with T1, T2, T3 and the timeout of U messages, sending: `cs104_connection_cpp.c` 143-295, 388-428, 487-827, 892-934 | numbers and times as in SlaveConnection |
| `ClientConnection_proof` | the same for the client, silence, sending within k, and who ends a connection | |
| `ServerLifecycle_proof` | types, table, limit, destruction, locking, the shared queue and the matching of groups, for any number of connections, any table and any list of groups | |
| `InformationObjectTypes` | the types of information objects, 65 rows: what encode asks for and writes, what getFromBuffer demands and reads, and the bytes of a value: `cs101_information_objects.c` | a table, no state |
| `InformationObjects` | an ASDU that is filled with objects of a type and read by the receiver | extends the table |
| `MCInformationObjects` | values of every kind of field and rooms for TLC | |

### State and actions against the code

*MessageQueue.* The four fields of `struct sMessageQueue` keep their names;
`asdus` maps a slot to time stamp, state and the name of the event (the encoded
frame is abstracted to the number of the enqueue). Every function of the queue
holds `queueLock` from beginning to end, so each is one action. The loops of
getNextWaitingASDU and markAsduAsConfirmed are written as the number of steps
they take (`ScanStop`, `SweepLength`) with the stop conditions of the code.
`sentASDUs[c]` is the part of a k-buffer that the queue sees. `ConnectionLost`
is the destruction of a connection: the queue is not told. A handle with
time stamp and slot, and the clock that may stand still between two events,
are what makes stale handles possible. `repeated` records that it did.

*HighPriorityQueue.* As above. `taken` is the frame that getNextASDU returned,
`accepted` the result of enqueue.

*SentBuffer.* `SendASDU` is sendASDU with sendIMessage, for a write that
succeeds or fails; the stored number is N(S) + 1, as in the code, where
sendIMessage returns the incremented counter. It stores into a full ring, too,
over the oldest frame, after which the ring holds the new frame alone; the
server does not come to that (`Send`), because it looks for room under the lock. `CheckSequenceNumber(n)` is
checkSequenceNumber for an arbitrary n: the client is not trusted. The removal
loop is the number of frames it removes (`Removed`), with the two stop
conditions of the code.

*Link.* `peer` says who the client is. For "arbitrary" the steps are those of
`SentBuffer` and the other variables stay. For "client" it is the library's:
its k-buffer is a second instance of `SentBuffer`, because the functions of the
two files are the same for what the module has in it (the client has no event
handles, and takes a failed write for a good one). Each end has its connection's
thread, which checks a frame under the lock of the k-buffer and counts it after
the unlock (`CountFrame`), and threads that send: one at a time reads N(R) into a
frame and writes it under that lock (`Prepare`, `Write`). At the server the
holder of the lock has also looked for room under it. The client looks for room
before it takes the lock (`cs104_connection_cpp.c:925`, 896): `tested` counts the threads that have found
some (`TestRoom`) and wait for the lock, or will take it; at most `ClientSenders`
threads are between test and write. `stream` holds the frames on
their way to an end. EndsAgree speaks of places: the `Distance` of the number of
an I frame from the one that its receiver counts next. The places of what is on
its way are 0, 1, ... in order, up to the last frame the sender has numbered.
The properties hold as long as the two are `Linked`:
`faults` notes a write that failed, a frame that arrived in parts (a read of
less than a frame is -1, 1636-1639, and closes the connection), a frame that
was counted while another thread had read the older N(R), and a frame that a
thread of the client stored into a ring that others had filled since it found
room ("overflow": the ring then holds the last frame alone, and an N(R) for one
of those before it, on its way already, is refused). With the first of
them the model ends; what the ends make of it is in the other modules.

*Dispatch.* `thread` is the position of the connection's thread in
handleMessage, handleASDU (`Switch`, the handler, `Default`, `Reject`) and
sendWaitingASDUs. `PermittedCauses` is the table of types and causes. A handler
is installed or not, answers any number of times, and accepts or not; the
handlers for reset process and delay acquisition have no function that sets
them. `Respond` is sendASDUInternal up to the unlock of the k-buffer, where an
answer may be dropped (not active), written or still to be queued, `QueueAnswer`
its rest. `Terminate` is an application thread that ends a command later. Of the
other connections of the group only what they do to this one and to the queue is
there, at any moment. Left out: a frame too short for an ASDU, for which
CS101_ASDU_createFromBuffer of the linked library returns NULL (2143); the
content of the elements that handlers are given, and that
answering changes the cause in the buffer of the command, which handlers see.

*SlaveConnection.* `pc` is the position of the connection thread at the points
where another thread can interfere or time can pass. Frames are received one by
one with any effect the check of N(S) and N(R) can have; the k-buffer is the
sequence of the ages of its frames (that numbers and frames agree is
`SentBuffer`). `unacked` and `unackedAge` are what the client knows: frames for
which no N(R) has been written. The application thread sends in two steps
because sendIMessage writes N(R) first and resets counter and T2 flag after.
handleASDU is a handler that answers any number of times. Writes fail at
any time, those of the application thread in one step (`AppWriteFails`), because
the loop of the connection's thread then ends, whatever the counter is. A
message that arrives in the same wait after a close is handled, as one that
arrived just before it.

*RedundancyGroup.* `phase` is the position of each connection's thread. The
loop of `CS104_Slave_activate` is one step: it holds openConnectionsLock and
only sets flags to false, so that a reader or an activation in its middle
orders itself before or after it. Its second half, the activation of the
connection itself, is a second step because it comes after the unlock. The test
of isActive in sendASDUInternal, the locked send and the enqueue after the
unlock are three steps. The k-buffers are counters. `overlapped` records that a
STARTDT was handled while another connection's thread was past its own test of
isActive.

*ServerLifecycle.* `app`, `listener` and `thread[c]` are the positions of the
application, of the listening thread and of the thread of each connection at
the points where they can wait or interleave. A critical section of
openConnectionsLock in which nothing can wait is one action that needs the
semaphore free; `CS104_Slave_activate` calls the handler of the application
inside it, so it takes the semaphore in one action and gives it back in
another. The places of the table are left out: it is the set of connections in
it. What a connection does in a turn of its loop is `SlaveConnection` and
`RedundancyGroup`; here a turn may only activate, close, or end. The end of the
loop, the closed event and the destruction of the connection's own queues are
one step, the removal from the table the next. The model starts at create with
the configuration done, and the application's calls do not overlap. Without
threads a tick is three steps: a connection is accepted or none (`AcceptPolled`,
`Tick`), closed ones are destroyed (`Sweep`), the others served (`Served`, and
`Close` for whatever ends one). An application uses one of the two start
functions with a server, because isThreadlessMode is never reset, and does not
call tick on a stopped server, whose socket is NULL. A group is the set of the
addresses that it lists. An IPv6 address written with `::` sets only the bytes of
its parts, and the comparison reads all of them: for the addresses in
`Abbreviated` it may or may not find the others equal (`sameRest`). Not in it:
`CS104_Slave_enqueueASDU`, which changes nothing here. With one queue per
connection it goes through the table, in which a connection stays after its
queues were destroyed (2532-2538 against 3180-3204): a window that the model
does not have.

*ClientConnection.* `thread` is the position of handleConnection, from
"created" to "ended"; `old` is the rest of the thread of the connection before,
which shares the object: an application connects again when connect has
returned false or the closed event has come, and both come before the thread
destroys the socket and resets `running`. Connecting while a connection is open
is not modelled. `app` is "freed" after destroy, which is close and a free; a
thread of the connection before that is still on its way out (`old`) is not
joined by it and would use what was freed. `sender` says for handlers, which run on the connection's
thread, and for a second thread of the application how far a sendASDU has come:
it has passed the tests of `running` and isSentBufferFull, which are outside of
the lock ("checked"; "stale" when the other has sent since), or it holds the
lock. `sentAges` are the ages of the frames that the ring holds; a stale thread
that finds it full stores over the oldest one and leaves the ring with its own
frame only (`Store`). `forgotten` records that this happened, until an N(R) is
accepted, which lies behind all forgotten frames, or the connection is set up
again. handleTimeouts is two steps, because it reads the clock first and waits
for the lock of the k-buffer before the T1 test; a frame that the second thread
sends in between may have a later time (`Future`). The client ignores the
result of every write: a connection that broke is seen by the next read. A
second thread that comes to write after the connection has ended would use a
destroyed socket; the model lets it wait for the next connection. Handlers do
not close their own connection, which would join the thread that calls.
`silence` is a history variable, the time since something was received. It is
at most `SilenceLimit`: t3 until the first TESTFR and then t1, if t1 is less than
t3; else up to four t3 and a little, because each further TESTFR sets
`uMessageTimeout` again before it has run out, and the fourth is not sent
(`cs104_connection_cpp.c:631-667`).

*InformationObjectTypes, InformationObjects.* A row of `Layout` says for one
type what its functions say in numbers, each taken from its own place in the
code: the room encode asks for (`asks`), that of the base function it calls and
whose result it ignores (`inner`), the fields written (`head`, `tail`), the
length getFromBuffer demands (`needs`), the fields it reads and how far it moves
on after each (`reads`). `Bytes` and `Value` are what create and encode make of
a value and what getFromBuffer and the getters make of bytes. `Add` is encode
called for an object, `Get` getFromBuffer called for the next one. The
container, CS101_ASDU, is in the linked library: that the first object of a
sequence is encoded with its address and the others without, that an element's
place follows from the length of the fields, and that it is counted when encode
returns true is taken from its interface (`iec60870_common.h:325-398`). Floating
point values are their bytes, normalized values count steps of 1/32767, so that
rounding is left out; time stamps and counters are bytes. What an application
can hand to a create function is `Encodable`, by kind of field; which of these
objects it adds (`Samples`) and how much room an ASDU has (`Rooms`) are constants
of the module, of which the proofs assume only that the objects are such ones.

History variables (`history`, `repeated`, `raced`, `overlapped`, `enqueued`, `confirmed`,
`unacked`, `unackedAge`, `responses`) are read by properties and bounds only.

## 3. Runs

Bounds are constants: `MaxTime`, `MaxAsdu` (event queue), `MaxHigh`, `MaxLow`
(connection), `MaxResponses`, `MaxEvents` (group), `MaxCommands`, `MaxAnswers`,
`MaxStarts`, `MaxTerminations` (dispatch), `MaxStarts` (lifecycle), and in the
last each connection is accepted once. Link needs none: k-buffers, numbers and
what w acknowledges bound the streams. Ages saturate one above
their limit.

| run | module, configuration | result | shows |
|---|---|---|---|
| event_queue | MCMessageQueue, MessageQueue | holds | RingOK, ImplementsEventQueue; HandlesNameTheirEvent and ConfirmRemovesOnlyOlderInOrder while no two events share a millisecond. 3 slots, 2 connections with k = 2, 7 events: the ring goes round twice, so a slot is overwritten, sent again and confirmed by the handle of its first use; entries are confirmed by one connection while the other holds older ones |
| event_queue_same_ms | MCMessageQueue, MessageQueueSameMs | violated | ConfirmRemovesOnlyOlder, see finding 1 |
| event_queue_lost | MCMessageQueue, MessageQueueLost | violated | LostEventsStayBuffered, finding 2 |
| dispatch | MCDispatch, Dispatch | holds | OneVerdict, ImplementsFifo, AnswersInOrder, NoAnswerCrossesStart; two commands of every type, a right cause and a wrong one for each type, with and without the ASDU handler; k = 1 so that the second answer is queued, three answers to a queue of two, so that it wraps and refuses; two STARTDTs, one termination by another thread |
| link | Link | holds | WindowOK, AcceptsExactlyWindow, RemovesExactlyConfirmed; NeverRefused, EndsAgree, WindowReopens for two ends of this library; k = 2 and three sequence numbers, so that ring and numbers wrap in every relation to each other; w = 1 at the server, less than the client's k, and w = 3 at the client, more than the server's k, which only t2 makes work; two threads that send at the client (`ClientSenders`), enough for both to pass the test with one place left |
| connection | SlaveConnection | holds | w, T2 and T1 rules, detection of a silent client, close; k = 2, w = 3, t2 of one tick and t1, t3 of two: frames of different age in the k-buffer, T2 running over several frames and stopped by w, by T2 or by an I frame |
| group | RedundancyGroup | holds | OneActiveInOrder, OwnResponsesInOrder, ResponsesLeave; two connections, k = 1 so that the second response is queued, three responses |
| group_overlap | MCRedundancyGroup, RedundancyGroupOverlap | violated | AtMostOneActive, finding 3 |
| lifecycle | MCServerLifecycle, ServerLifecycle | holds | TableIsLive, WithinLimit, LockProtectsTable, FreedAlone, SharedQueue, GroupOfAddress, CallsReturn, ClosedLeaves; three connections and a table of two, so that a place is used again and, without a limit, the table overflows; single mode and one group per connection with every limit; several groups with a limit of two and without groups, with a catch-all group behind, and with one in front of two that overlap; two addresses and an abbreviated one; two starts, so that a start finds connections that the stop before it left open |
| client | ClientConnection | holds | AcknowledgesInTime, ConfirmedInT1, SilenceDetected, SendsWithinK, RunningUntilClosed, CallsReturn; k = w = 2, t1 and t2 of one tick and t3 of two, in the order of the default parameters t2 <= t1 < t3; any number of connections one after the other |
| client_t1 | ClientConnection, ClientConnectionT1 | violated | ClosedOnlyAfterT1, finding 4 |
| codec | MCInformationObjects, InformationObjects | holds | ExactRoom, AddedWhole, NothingLost, ReceivedIsSent, with the exceptions below; every type, addresses of one to three bytes, in a sequence and not, and any room from a byte less than the first object takes to just two objects: the frame is filled to its last byte by the first object and by a second one, which in a sequence is the first without an address; each field with its usual value and with those at its edges |

TypeOK of a module is no property of a run: it is proved for every module that
states it, for the response queue with RingOK.

Deadlock is not checked where the system may stop: the bounds of a run end the
behaviours of the event queue, the k-buffer of a connection that is down accepts
nothing any more, connections end, clients owe no message.

### Properties with a condition

Some properties hold only while something has not happened that the code does
not exclude. The runs that hold check them with the condition. For four of them
a document promises more and another run refutes the promise (findings 1 to 4);
for the others the row, or the text after the findings, says what is promised.

| property | condition | what excludes it in practice |
|---|---|---|
| ConfirmRemovesOnlyOlder | no two events enqueued in one millisecond (`repeated`) | nothing; Hal_getTimeInMs has that resolution |
| CountsUnconfirmed, Acknowledges | no application thread sends on the connection between the first line of handleMessage and the increment of the counter (`raced`) | sending only from handlers |
| NeverRefused, EndsAgree, WindowReopens | the ends are `Linked`: no write failed, no frame arrived in parts, no frame was counted while another thread had already read N(R), and no thread of the client stored a frame into a ring that others had filled between its test and its lock (`cs104_connection_cpp.c:925`, 896) | a stream that delivers small frames whole; sending only from handlers, or at the client from one thread |
| OneVerdict | its second half, for a cause the type does not take: the command is answered with UNKNOWN_COT and then still offered to the ASDU handler or rejected a second time (1829, `break` without messageHandled) | clients that send the right cause |
| AnswersInOrder | the answers of the connection's thread to one command; those to the next command and a termination by an application thread may overtake queued ones | nothing; no document promises it |
| LateCloseEndsThread | the close comes when the thread runs: the thread sets isRunning when it starts (2453) and undoes an earlier one | the thread starts within the time of a round trip |
| AtMostOneActive, OwnResponses | no STARTDT while another connection's thread is activating, answering or emptying the queue (`overlapped`) | clients that switch over with STOPDT first, on an idle connection |
| TableIsLive, WithinLimit, FreedAlone, CallsReturn | a limit on the connections is set (`Limited`): without one a connection that finds the table full runs, is not counted, but its end is subtracted from the counter | CS104_Slave_setMaxOpenConnections |
| SharedQueue | in single mode, no start while connections from before the last stop are open (`startedOver`) | destroying the server instead of starting it again |
| GroupOfAddress | IPv6 addresses in full; an abbreviated one may miss the group that lists it and come to the catch-all group or be refused | addresses written with all eight parts |
| CallsReturn, ClosedLeaves | no close before the thread ran (`closeUndone`); no event handler asks for the number of open connections while CS104_Slave_activate calls it under the semaphore (`askedLocked`); a limit is set | handlers that only note the event |
| ClosedLeaves | a server without threads is running: after stopThreadless nobody serves its connections | destroying the server |
| ConfirmedInT1 (client) | no frame was stored over the oldest one of a full ring (`forgotten`; 906-912): the ring forgets all frames but the new one, and the T1 test (676) does not see those that it forgot, however long they stay unconfirmed | as for SendsWithinK |
| SendsWithinK | one thread at a time between the test of isSentBufferFull and the lock ("stale"); else a frame is stored over the oldest unconfirmed one, and its confirmation closes the connection. `cs104_connection.h:170` says that at the limit the next message can only be sent after a confirmation | one sending thread that is not a handler's |
| AcknowledgesInTime | as Acknowledges (`raced`); 187 is the same code | as there |
| RunningUntilClosed, CallsReturn (client) | the thread of the connection before has ended when the application connects again (`old`): it resets `running`, and connect then waits for ever on an open connection | calling close between connections, which joins the thread |
| CallsReturn (client) | no timeout closes a connection before connect has looked; no close before the thread of connectAsync has run resetConnection, which undoes it | connect looks every millisecond |
| ExactRoom, first part | not FileReady, SectionReady, FileCallOrSelect, whose encode functions ask for one byte (6158, 6285, 6425), FileLastSegmentOrSection and FileACK, which do not ask (6531, 6643), FileSegment, which compares with an empty ASDU and does not count the address and the four bytes before the data (6748) | one object per ASDU, as these types are used, and segments short enough |
| AddedWhole, ExactRoom | not StepPositionWithCP56Time2a: encode writes the object and returns false, so that it is never counted (446-463) | nothing |
| ExactRoom, second part | not Bitstring32Command with and without time: they ask for one byte more than they write (5200, 5305) | one command per ASDU |
| NothingLost | the last element of a sequence of protection events, packed start events, output circuit information or single points with status change: getFromBuffer demands the length of an address too (3097, 3227, 3347, 3594, 3823), and returns NULL | not sending them in sequences |
| ReceivedIsSent | not the time of StepPositionWithCP24Time2a, read from the quality on (651), the checksum of FileLastSegmentOrSection, read from the byte before it, and the length in FileDirectory, which create does not store and the getter cuts to a byte (6912-6927, 6968); not bit strings with bit 31 set, which are divided as a signed int (1182-1187, and in the types with time), unless their lower 24 bits are 0 | nothing |

The second column of the rows about types of objects names constants of `InformationObjects`
(`AskForTooLittle`, `RefusedWithRoomLeft`, `DemandAddressInSequence`, `Misread`,
`SurvivesSign`); without them the run finds each of these types, and no other.

### Fairness

*SlaveConnection.* `WF(ConnectionThread)`: the thread is scheduled; the wait
has a time-out, so a wait with no message ends. `SF(Tick)`: time goes on; the
tick is possible only in the wait and the loop returns to the wait again and
again. Strong fairness excludes behaviours in which the loop runs forever in no
time, which a client that sends without pause would otherwise allow.
`WF(AppResetsCounter)`: a thread in the critical section leaves it. Clients and
applications owe nothing.

*RedundancyGroup.* WF per connection thread, WF of the wait's time-out, and SF
of "the client confirms or the connection is closed": a client that does not
confirm is closed by T1, which SlaveConnection shows (ConfirmedInT1).

*ServerLifecycle.* WF per connection thread: it is scheduled, and its handler
returns. SF for the waits of the application, for the listening thread and for
the removal of some connection: they poll or queue for a semaphore that
connections take again and again, each time for a short while. WF of Tick: an
application without threads calls it "periodically" (`cs104_slave.h:290`).
Nobody owes another call, a client or a close.

*Link.* WF of one action for all: a thread of a connection that has a frame to
take or to count, t2 when a frame is unconfirmed, and a thread that holds the
lock. As long as any of it is due, some of it happens; that each thread is
scheduled, which the code may count on, would be more. Nobody owes a frame, and
a thread that has found room need not go on to send.

*Dispatch* has safety properties only.

*ClientConnection.* WF of the thread, the remaining thread of the connection
before, the polls and joins of the application and the critical section; SF of
the return of handlers, which may send any number of times before. Time need
not pass and servers owe nothing.

## 4. Findings

1. *Same millisecond* (`cs104_slave_cpp.c:412`). The handle of an event is
   slot and millisecond time stamp, stored as "required to identify message in
   server (low-priority) queue" (1033). Two events of one millisecond in the
   same slot are taken for each other: the confirmation of an overwritten event
   removes its successor in the slot, and with it all older sent ones.
2. *Lost connection* (415). `lib60870_config.h:41-42` says the queue is "used
   also to buffer ASDUs in the case when the connection is lost". Entries sent
   on a connection that was lost stay marked as sent: no other connection sends
   them, and the next confirmation of a later event removes them.
3. *Two active connections* (1452). The other connections are deactivated under
   openConnectionsLock, the connection itself is activated after the unlock.
4. *T1 at once* (`cs104_connection_cpp.c:676`). handleTimeouts reads the clock,
   then waits for the lock; a frame that another thread sends in between has a
   later time, the unsigned difference is huge, and the connection is closed.
   The server's copy of the test compares the times first
   (`cs104_slave_cpp.c:2399`).

Other differences have no run of their own. CS104_Slave_stop will "close all
open connections" (`cs104_slave.h:259`); it ends the listening thread (3346) and
the connections go on. After a second start in single mode they still send from
the queue of the first, into which nothing is put any more (`startedOver`). In single mode
the event queue exists from the first start only: CS104_Slave_enqueueASDU and
CS104_Slave_destroy before it use a pointer that createSlave does not set (3372). The counter of unconfirmed frames
(1059, "number of unconfirmed messages received") is changed without the lock
under which an application thread resets it (2139). `lib60870_config.h:49` calls
the response queue connection specific; it belongs to the group, and a handler
that was past its isActive test when another connection was activated queues
its response for that one (1774). CS104_Connection_setConnectTimeout has no
effect: resetConnection overwrites the value with t0 before it is used
(`cs104_connection_cpp.c:270`). The queue of responses is said to be emptied
"when the connection is lost" (`lib60870_config.h:51`); it is emptied by the next
STARTDT (`RedundancyGroup!Close` leaves it alone, and OwnResponsesInOrder shows
that this is enough). `sendWaitingASDUs` is said to return true "if ASDUs are
still waiting" (2327) and returns true while any entry, also a sent one, is in
the event queue. Answers to one command keep their order only because the
k-buffer is not confirmed while handlers run (AnswersInOrder); the answer to the
next command passes those that wait in the queue.

A clock synchronization is confirmed with an event (1901): it goes to the queues of
all groups and waits behind older events, it survives a STARTDT that the other
answers do not, and every group's client gets it, where `iec60870_slave.h:173` says that
the server "will automatically send an ACT-CON message". A command with a cause
its type does not take is answered and afterwards offered to the ASDU handler or
answered a second time (1829 and its like). The handlers for reset process
(1935) and delay acquisition cannot be installed.

CS104_IPAddress_setFromString leaves bytes of an abbreviated IPv6 address unset,
which CS104_IPAddress_equals compares. With threads a client that no group takes
keeps its socket open and unread (3107, 3127); without threads it is closed (3018).
isThreadlessMode is never reset: a server that was started without threads and
is then started with them is stopped and destroyed as if it had none. Destroying
a server without threads gives no closed event and leaves the counter as it is
(3406), and queues of a connection that is a group of its own are freed by its
thread only (2532). CS104_Slave_tick after CS104_Slave_stopThreadless passes a
NULL socket to ServerSocket_accept (2949). CS104_Connection_destroy joins the
thread of the last connect only (407).

CS101_ASDU_addInformationObject is said to return false
when there is not enough space or the address is wrong
(`iec60870_common.h:395`); the types named with ExactRoom do otherwise. The bits of StatusAndStatusChangeDetection are computed with
`2^index`, which in C is an exclusive or (`cs101_information_objects.c:107`,
116). TestCommand and DelayAcquisitionCommand demand one of their two bytes of a
received message (5795, 5964), three types with long time stamps demand less
than they read (3470, 3717, 5150), and the commands with time 4027 and 4238 do
not demand the time; a message that was encoded here has them.
StepCommand_create does not initialise an object it is given (4310).
Setpoints are not limited to their range; normalized setpoints with and without
time are scaled differently (4535, 4644) but read by one getter (4552).

## 5. Proofs

All theorems hold for every value of the constants that satisfies the
assumption of the module (sizes and k at least 1, k smaller than the range of
sequence numbers, any set of connections).

* `MessageQueue_proof`: TypeCorrect, RingCorrect, HandlesCorrect,
  ConfirmationCorrect, Refinement. TypeOK /\ RingOK is inductive as it stands.
  RingOK says where the used slots are (contiguous from firstMsgIndex), that
  sent ones come first, and that an empty queue has no used slot; the last part
  is needed because markAsduAsConfirmed guards with entryCounter only, and must
  except a released queue, whose slots keep their states. The lemmas say what
  the scan finds (NextWaitingIsOldest) and which slots a sweep takes. For the
  handles the invariant is HInv: the events lie in the ring in the order of
  their names (Ordered), and, as long as no two were enqueued in one millisecond,
  a time stamp of the ring or of a held handle is not of the future and names
  one event (NamedInRing, NamedInHandles); without the first half of that the
  next event could get the stamp of an old handle. For the refinement the lemma
  Meaning says what the sequence `Events` and the number `HandedOut` are in terms
  of the ring, and one lemma per operation that it is the operation of
  `EventQueue`; it needs that the sent entries are a prefix (HandedPrefix), which
  RingOK gives.
* `Dispatch_proof`, the ring of responses: RingCorrect; Refinement, with
  TypeOK /\ RingOK as the invariant and one lemma per operation for what it does
  to the sequence `Fifo`.
* `Dispatch_proof`, handleASDU: VerdictCorrect, QueueRefined, AnswersOrdered,
  StartsAfresh. Verdict gives the verdict and the handler at every place of
  handleASDU, the place of a thread that is queueing an answer being where it
  goes on (`Place`); its last conjunct is OneVerdict. Every step is a step of
  HighPriorityQueue or leaves the queue alone, because what is queued is an
  answer (Typed); Refinement then carries over. The order of the answers rests on
  AnswerOrder: an answer in the queue has not been written and its command came
  after the last STARTDT (Ahead), of two answers to a command the later lies
  behind the earlier (Sorted), and an earlier answer of the command in work waits
  only if the k-buffer is full. The last is what keeps the thread from writing
  past the queue: nothing confirms a frame while it is in a handler.
* `SentBuffer_proof`: WindowCorrect, AcceptanceCorrect, RemovalCorrect. The
  inductive invariant is TypeOK with WindowOK; that the numbers of the window
  are distinct (k smaller than the modulus) is what makes acceptance and the
  stop conditions of the removal loop exact. A store into a full ring keeps the
  invariant, because it leaves a window of one frame (SendWithoutRoom).
* `Link_proof`: FramesNeverRefused, AgreementOfEnds, LinkWindow, LinkRemoves.
  The invariants of both k-buffers hold whatever the other end is (Buffers), the
  client's by an instance of the proofs of `SentBuffer`. As long as the ends are
  Linked, both run and each direction is in agreement (Direction): of the u
  frames the sender keeps, r have been counted at the receiver, at most one is
  taken and not yet counted, the rest is on its way, each once and in order
  (Carries), and the numbers on the way back never decrease and confirm at most
  r (Confirms). A thread that holds the lock has read what is still the
  receive count. The room that a thread of the server found under the lock is
  there until it has written, since confirmations wait for the lock and only
  make room (RoomInv); at the client nothing of the kind holds, and a frame
  stored without room is a fault. Numbers are compared by their Distance from the first
  unconfirmed one; as u is at most k and k smaller than the modulus, distances
  do not wrap, and neither end can refuse what arrives.
* `SlaveConnection_proof`: TypeCorrect, CountCorrect, AcknowledgedInTime,
  ConfirmationInTime. Ages do not increase from the oldest frame on, and all are
  below t1 once an iteration is done in a running connection (AgesOK), so that
  to test the oldest is to test all. Before a frame is counted fewer than w are
  (Bounded); an application thread that holds the lock has just acknowledged
  everything, and no frame is between receipt and counting unless the two have
  raced (UnderLock); T2 runs when a frame has been received (T2Runs). Outside of
  the lock and without a race the counter is exact, T2 has been running since the
  oldest frame that is not acknowledged, and that one has not waited for t2 after
  an iteration (Counted, Timed). Starting says that a thread starts from a clean
  connection.
* `ClientConnection_proof`: TypeCorrect, SendingWithinK, AcknowledgementInTime,
  ConfirmationInTime, SilenceIsDetected, RunsUntilClosed. The invariant is that of
  the server's connection with three additions. Ages are in order, or the oldest
  frame is one of the future, which the T1 test then sees (Early). A thread
  between its test and its lock has room, unless the other has sent since and its
  test is outdated (Room). Ages stay in order when a stale frame is stored over the
  oldest one, for the ring then holds that frame only; the theorem speaks of the
  frames that no such store has made the ring forget. Each TESTFR of a silent connection allows for t3 more,
  and for t1 only if t1 is less than t3 (Waited).
* `GroupAndCodec_proof`, the group: TypeCorrect, OneActive, ResponsesStay. The invariant
  adds where a thread can be: a thread that answers or empties the queue does so
  for an active connection (BusyIsActive), a thread about to activate its
  connection is alone (ActivatesAlone), an active connection finds only its own
  responses in the queue unless it is about to empty it (QueueIsOwn), all
  as long as nothing has overlapped.
* `ServerLifecycle_proof`: TypeCorrect, TableCorrect, LimitCorrect,
  FreedCorrect, LockProtects, QueueShared, GroupCorrect. The invariant adds what
  the listening thread is doing to which connection (Setup), which positions of application, listening
  thread and flags occur together and that a holder of the semaphore is
  activating (Phases), that a server without threads has neither a listening
  thread nor threads of connections, one with threads does not tick, and nothing
  runs before the first start (Ticking), and that the table is the set of live connections, is
  counted, and has room for the one being set up (Counted). That the limit holds
  although it is tested without the semaphore rests on there being one listening
  thread, or one tick at a time: between test and addition the counter can only
  fall. SharedQueue needs Sharing besides: the connection being set up already
  sends from the queue of this start, unless the server was started over open
  connections (startedOver). GroupOfAddress needs Grouped, which speaks of a
  connection from its creation on, and what getMatchingRedundancyGroup finds in
  any list of groups. Its loop is a recursive function; that there is a function
  with that equation (LoopExists) and that it finds the first group that lists the
  address, else the catch-all one (LoopFinds), are shown by induction over
  the groups. The induction theorems of the library take an operator as a
  parameter, so it is done with a set of numbers (SetInduction), which follows
  from the minimum that a well-founded relation has in every set.

* `GroupAndCodec_proof`, the codec: FieldComesBack, AllKnown, CodecInvariant,
  RoomIsExact, AddedInWhole, NoneIsLost, SentIsReceived. CodecAssumption says that
  addresses take one to three bytes, that the objects an application adds are as
  the create functions make them (any value of each field, any address of that
  length), and that room is a natural number; there may be any number of objects.
  The argument has three layers. A field: whatever of its values is encoded,
  its getter returns as promised (FieldComesBack), by arithmetic of one to four
  bytes and signs. A type: the fields of an object lie one after the other
  (PlacesProperties, FlattenLays, EncodedLays: `Places` is a recursive function and
  `FlattenSeq` one of the community modules, that there are such functions is
  shown as for groups), and each row of the table is sound (`Known`): what encode
  asks for against what it and the base function write, what getFromBuffer
  demands and where it reads. Most rows follow from their form (PlainKnown,
  TimedKnown); those with an exception have a lemma of their own (Odd...), and
  AllKnown says that there are no others. An ASDU: the inductive invariant CodecInv
  says that the objects sent are of the type, with consecutive addresses in a
  sequence (FilledBy), that each lies in the frame where getElement will look for
  it and that the frame ends where the next one will start (LaidBy), that what was
  received is what getElement finds (Reception), and ExactRoom. LaidBy is what
  makes it inductive: the properties speak of what was received, and only the place
  of every object says what will be. That only the last element of a
  sequence is missed where an address is demanded in vain rests on two elements of
  these types being at least as long as what is demanded.

Only model-checked: liveness (WindowReopens, SilentClientDetected,
LateCloseEndsThread, ResponsesLeave, CallsReturn, ClosedLeaves: TLAPS does not
reason about fairness here). Every other property of a run that holds is a
theorem.

## 6. Plan

What could be added: values in the codec that are abstracted, which are the
rounding of normalized values, status and change, and single bits of a byte.

## 7. Not modelled

* Memory pools: compiled only with CONFIG_CS104_SLAVE_POOL 1; the configuration
  in the repository has 0. In this tree some `#if` lines of the pool are
  commented out for the translation; the model takes the arrays of the structs
  as they are declared, with the configured size as capacity.
* TLS, sockets, threads, semaphores and clocks: the linked library. A write
  succeeds or fails, a read yields a frame or an error, a semaphore excludes.
* CS101_ASDU and the CP16/24/56 time stamps: declared here, in the linked
  library; modelled by how the information objects use them.
* CS101 master and slave, link layer: only headers are in the repository.
* Encoding of ASDUs in queues: an ASDU is its name.
* An application that keeps an IMasterConnection beyond the closed event.
* The Nim translations, the bindings and the examples.
