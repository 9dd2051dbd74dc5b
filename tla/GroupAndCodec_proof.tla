------------------------- MODULE GroupAndCodec_proof ------------------------
(* Two components that share nothing but this module.                        *)
(*                                                                           *)
(* The redundancy group, for any number of connections: types, and, as long  *)
(* as no STARTDT meets a committed thread, at most one active connection and *)
(* no response on a connection that is not its own. Everything follows from  *)
(* where a thread can be while its connection is inactive.                   *)
(*                                                                           *)
(* The information object codec, for every object an application may hand to *)
(* create and every room in an ASDU: a field is read back as it was encoded, *)
(* the fields of each of the 65 types lie where getFromBuffer reads them,    *)
(* and the objects of an ASDU where getElement looks for them.               *)
EXTENDS RedundancyGroup, InformationObjects, SequenceTheorems, WellFoundedInduction, TLAPS

(***************************** Redundancy group ******************************)

(* TypeOK is inductive with the number of the response being sent.           *)
Types ==
  /\ TypeOK
  /\ \A c \in Conns : phase[c] \in {"locked", "queue"} => responses > 0

(* A thread that answers or empties the queue does so for an active          *)
(* connection; one in a handler or about to reset the queue need not.        *)
Busy == {"locked", "queue", "send", "take"}
BusyIsActive == \A c \in Conns : phase[c] \in Busy => isActive[c]

(* While a thread is about to activate its connection no other is active or  *)
(* about to be.                                                              *)
ActivatesAlone ==
  \A c, o \in Conns : phase[c] = "activate" /\ o # c => ~isActive[o] /\ phase[o] # "activate"

(* An active connection finds only its own responses in the queue, unless it *)
(* is about to empty it.                                                     *)
QueueIsOwn ==
  \A c \in Conns : isActive[c] /\ phase[c] # "reset" =>
    \A i \in 1..Len(fifo) : fifo[i].owner = c

Order == AtMostOneActive /\ BusyIsActive /\ ActivatesAlone /\ QueueIsOwn

IInv == Types /\ (~overlapped => Order)

(* The steps of one connection.                                              *)
Step(c) ==
  \/ Open(c) \/ Close(c) \/ StartDT(c) \/ StopDT(c)
  \/ ReceiveI(c, 0) \/ ReceiveS(c, 0) \/ Confirms(c)
  \/ Respond(c) \/ Thread(c)

-----------------------------------------------------------------------------
(* What the queue of the group does to its type and to the owners in it.     *)
QueueType ==
  fifo \in Seq(Response) /\ Len(fifo) <= HighSize /\ accepted \in BOOLEAN

LEMMA QueueEnqueue ==
  ASSUME QueueType, NEW a \in Response, HQ!Enqueue(a)
  PROVE  /\ QueueType' /\ taken' = taken
         /\ \A i \in 1..Len(fifo') : fifo'[i] = a \/ (i \in 1..Len(fifo) /\ fifo'[i] = fifo[i])
<1>1. CASE Len(fifo) < HighSize
  <2>1. fifo' = Append(fifo, a) /\ accepted' = TRUE /\ taken' = taken
        BY <1>1 DEF HQ!Enqueue, QueueType
  <2>2. fifo' \in Seq(Response) /\ Len(fifo') = Len(fifo) + 1
        BY <2>1 DEF QueueType
  <2>3. Len(fifo') <= HighSize
        BY <1>1, <2>2, GroupAssumption DEF QueueType
  <2>4. \A i \in 1..Len(fifo') : fifo'[i] = a \/ (i \in 1..Len(fifo) /\ fifo'[i] = fifo[i])
        BY <2>1, <2>2 DEF QueueType
  <2> QED BY <2>1, <2>2, <2>3, <2>4 DEF QueueType
<1>2. CASE Len(fifo) = HighSize
  <2>1. fifo' = fifo /\ accepted' = FALSE /\ taken' = taken
        BY <1>2 DEF HQ!Enqueue
  <2> QED BY <2>1 DEF QueueType
<1> QED BY <1>1, <1>2, GroupAssumption DEF QueueType

LEMMA QueueGet ==
  ASSUME QueueType, HQ!Get
  PROVE  /\ QueueType' /\ taken' \in Response \union {NoAsdu}
         /\ \A i \in 1..Len(fifo') : i + 1 \in 1..Len(fifo) /\ fifo'[i] = fifo[i + 1]
<1>1. CASE fifo = <<>>
      BY <1>1 DEF HQ!Get, QueueType
<1>2. CASE fifo # <<>>
  <2>1. fifo' = Tail(fifo) /\ taken' = Head(fifo) /\ accepted' = accepted
        BY <1>2 DEF HQ!Get
  <2>2. Head(fifo) \in Response /\ Tail(fifo) \in Seq(Response)
        /\ Len(Tail(fifo)) = Len(fifo) - 1
        BY <1>2 DEF QueueType
  <2>3. \A i \in 1..Len(Tail(fifo)) : Tail(fifo)[i] = fifo[i + 1]
        BY <1>2, <2>2 DEF QueueType
  <2> QED BY <2>1, <2>2, <2>3, GroupAssumption DEF QueueType
<1> QED BY <1>1, <1>2

(* Types and the number of the response being sent are preserved.            *)
LEMMA TypesInit == Init => Types
<1> SUFFICES ASSUME Init PROVE Types
    OBVIOUS
<1>1. /\ phase \in [Conns -> Phase] /\ isActive \in [Conns -> BOOLEAN]
      /\ inFlight \in [Conns -> 0..K] /\ responses \in 0..MaxResponses
      /\ events \in 0..MaxEvents /\ \A c \in Conns : phase[c] = "new"
      BY GroupAssumption DEF Init, Phase
<1>2. /\ fifo \in Seq(Response) /\ Len(fifo) <= HighSize
      /\ taken \in Response \union {NoAsdu}
      BY GroupAssumption DEF Init, HQ!Init
<1>3. accepted = TRUE /\ overlapped = FALSE
      BY DEF Init, HQ!Init
<1> QED BY <1>1, <1>2, <1>3 DEF Types, TypeOK

LEMMA TypesStep ==
  ASSUME Types, NEW c \in Conns, Step(c)
  PROVE  Types'
<1> USE GroupAssumption DEF Types, TypeOK, Phase, Goto, highQueue, QueueType
<1>1. CASE Open(c)
      BY <1>1 DEF Open
<1>2. CASE Close(c)
      BY <1>2 DEF Close
<1>3. CASE StartDT(c)
      BY <1>3 DEF StartDT
<1>4. CASE StopDT(c)
      BY <1>4 DEF StopDT
<1>5. ASSUME NEW d \in 0..inFlight[c], ReceiveI(c, d) \/ ReceiveS(c, d)
      PROVE  Types'
  <2>1. inFlight[c] - d \in 0..K
        OBVIOUS
  <2>2. inFlight' \in [Conns -> 0..K]
        BY <1>5, <2>1 DEF ReceiveI, ReceiveS
  <2>3. CASE ReceiveI(c, d)
        BY <2>2, <2>3 DEF ReceiveI
  <2>4. CASE ReceiveS(c, d)
        BY <2>2, <2>4 DEF ReceiveS
  <2> QED BY <1>5, <2>3, <2>4
<1>6. CASE Respond(c)
      BY <1>6 DEF Respond
<1>7. CASE Thread(c)
  <2>1. CASE Activate(c)
        BY <2>1 DEF Activate
  <2>2. CASE ResetConnectionQueue(c)
        BY <2>2 DEF ResetConnectionQueue, HQ!Reset
  <2>3. CASE SendDirect(c)
    <3>1. inFlight' \in [Conns -> 0..K]
          BY <2>3 DEF SendDirect
    <3>2. phase' \in [Conns -> Phase] /\ phase[c] = "locked"
          BY <2>3 DEF SendDirect
    <3>3. \A o \in Conns : phase'[o] \in {"locked", "queue"} =>
                             phase[o] \in {"locked", "queue"}
          BY <2>3 DEF SendDirect
    <3> QED BY <2>3, <3>1, <3>2, <3>3 DEF SendDirect
  <2>4. CASE EnqueueHigh(c)
    <3>1. [id |-> responses, owner |-> c] \in Response
          BY <2>4 DEF EnqueueHigh, Response
    <3> DEFINE a == [id |-> responses, owner |-> c]
    <3>2. HQ!Enqueue(a)
          BY <2>4 DEF EnqueueHigh
    <3>3. fifo' \in Seq(Response) /\ Len(fifo') <= HighSize /\ accepted' \in BOOLEAN
          /\ taken' = taken
          BY <3>1, <3>2, QueueEnqueue
    <3> QED BY <2>4, <3>3 DEF EnqueueHigh
  <2>5. CASE HandlerReturns(c)
        BY <2>5 DEF HandlerReturns
  <2>6. CASE Loop(c)
        BY <2>6 DEF Loop
  <2>7. CASE HighAvailable(c)
        BY <2>7 DEF HighAvailable
  <2>8. CASE TakeHigh(c)
    <3>1. fifo' \in Seq(Response) /\ Len(fifo') <= HighSize /\ accepted' \in BOOLEAN
          /\ taken' \in Response \union {NoAsdu}
          BY <2>8, QueueGet DEF TakeHigh
    <3>2. phase' \in [Conns -> Phase] /\ inFlight' \in [Conns -> 0..K]
      <4>1. CASE inFlight[c] < K
            BY <2>8, <4>1, SMTT(20) DEF TakeHigh
      <4>2. CASE ~(inFlight[c] < K)
            BY <2>8, <4>2 DEF TakeHigh
      <4> QED BY <4>1, <4>2
    <3>3. \A o \in Conns : phase'[o] \in {"locked", "queue"} => phase[o] = phase'[o]
      <4>1. CASE inFlight[c] < K
            BY <2>8, <4>1 DEF TakeHigh
      <4>2. CASE ~(inFlight[c] < K)
            BY <2>8, <4>2 DEF TakeHigh
      <4> QED BY <4>1, <4>2
    <3> QED BY <2>8, <3>1, <3>2, <3>3 DEF TakeHigh
  <2>9. CASE SendLow(c)
        BY <2>9 DEF SendLow
  <2> QED BY <1>7, <2>1, <2>2, <2>3, <2>4, <2>5, <2>6, <2>7, <2>8, <2>9 DEF Thread
<1> QED
    BY <1>1, <1>2, <1>3, <1>4, <1>5, <1>6, <1>7 DEF Step, Confirms

(* Every variable is of its type, with any number of connections.            *)
THEOREM TypeCorrect == Spec => []TypeOK
<1>1. Types /\ [Next]_vars => Types'
  <2> SUFFICES ASSUME Types, [Next]_vars
               PROVE  Types'
      OBVIOUS
  <2>1. CASE EnqueueEvent
        BY <2>1, GroupAssumption DEF EnqueueEvent, Types, TypeOK, highQueue
  <2>2. CASE \E c \in Conns : Step(c)
        BY <2>2, TypesStep
  <2>3. CASE UNCHANGED vars
        BY <2>3 DEF vars, highQueue, Types, TypeOK
  <2> QED BY <2>1, <2>2, <2>3 DEF Next, Step
<1>2. Types => TypeOK
      BY DEF Types
<1> QED BY TypesInit, <1>1, <1>2, PTL DEF Spec

-----------------------------------------------------------------------------
LEMMA OrderInit == Init => IInv
<1>1. Init => Order
      BY DEF Init, Order, AtMostOneActive, BusyIsActive, Busy, ActivatesAlone,
         QueueIsOwn, Busy
<1> QED BY <1>1, TypesInit DEF IInv

(* A step that changes no flag and no queue, and enters a busy phase only    *)
(* from one or with an active connection.                                    *)
LEMMA QuietStep ==
  ASSUME Types, Order, NEW c \in Conns, NEW p \in Phase \ {"activate"},
         phase' = [phase EXCEPT ![c] = p],
         isActive[c] \/ p \notin Busy,
         phase[c] # "reset",
         isActive' = isActive, fifo' = fifo
  PROVE  Order'
<1>1. \A o \in Conns : phase'[o] = IF o = c THEN p ELSE phase[o]
      BY DEF Types, TypeOK
<1> QED
    BY <1>1 DEF Order, AtMostOneActive, BusyIsActive, Busy, ActivatesAlone, QueueIsOwn

(* A connection that goes inactive in a quiet phase disturbs nobody.         *)
LEMMA Deactivation ==
  ASSUME Types, Order, NEW c \in Conns, NEW p \in {"loop", "closed"},
         phase' = [phase EXCEPT ![c] = p],
         isActive' = [isActive EXCEPT ![c] = FALSE], fifo' = fifo
  PROVE  Order'
<1>1. \A o \in Conns : phase'[o] = IF o = c THEN p ELSE phase[o]
      BY DEF Types, TypeOK
<1>2. \A o \in Conns : isActive'[o] <=> isActive[o] /\ o # c
      BY DEF Types, TypeOK
<1> QED
    BY <1>1, <1>2 DEF Order, AtMostOneActive, BusyIsActive, Busy, ActivatesAlone, QueueIsOwn

(* What has overlapped stays so.                                             *)
LEMMA OverlappedStays ==
  ASSUME Types, NEW c \in Conns, Step(c), overlapped
  PROVE  overlapped'
BY DEF Step, Open, Close, StartDT, StopDT, ReceiveI, ReceiveS, Confirms, Respond, Thread,
       Activate, ResetConnectionQueue, SendDirect, EnqueueHigh, HandlerReturns, Loop,
       HighAvailable, TakeHigh, SendLow

(* Each step of a connection preserves the order.                            *)
LEMMA OrderStep ==
  ASSUME Types, Order, ~overlapped', NEW c \in Conns, Step(c)
  PROVE  Order'
<1>0. phase \in [Conns -> Phase] /\ isActive \in [Conns -> BOOLEAN]
      BY DEF Types, TypeOK
<1>1. CASE Open(c)
      BY <1>1, QuietStep DEF Open, Goto, highQueue, Phase, Busy
<1>2. CASE Close(c)
      BY <1>2, Deactivation DEF Close, Goto, highQueue
<1>3. CASE StartDT(c)
  <2>1. /\ \A o \in Conns : phase'[o] = IF o = c THEN "activate" ELSE phase[o]
        /\ \A o \in Conns : isActive'[o] <=> isActive[o] /\ o = c
        /\ \A o \in Conns \ {c} : phase[o] \notin Committed
        /\ fifo' = fifo /\ phase[c] = "wait"
        BY <1>0, <1>3 DEF StartDT, Goto, highQueue
  <2>2. AtMostOneActive' /\ ActivatesAlone' /\ BusyIsActive'
        BY <2>1 DEF AtMostOneActive, ActivatesAlone, BusyIsActive, Busy, Committed
  <2>3. QueueIsOwn'
        BY <2>1 DEF QueueIsOwn, Order
  <2> QED BY <2>2, <2>3 DEF Order
<1>4. CASE StopDT(c)
      BY <1>4, Deactivation DEF StopDT, Goto, highQueue
<1>5. ASSUME NEW d \in 0..inFlight[c], ReceiveI(c, d) \/ ReceiveS(c, d)
      PROVE  Order'
      BY <1>5, QuietStep DEF ReceiveI, ReceiveS, Goto, highQueue, Phase, Busy
<1>6. CASE Respond(c)
  <2>1. CASE isActive[c]
        BY <1>6, <2>1, QuietStep DEF Respond, Goto, highQueue, Phase, Busy
  <2>2. CASE ~isActive[c]
        BY <1>6, <2>2, QuietStep DEF Respond, Goto, highQueue, Phase, Busy
  <2> QED BY <2>1, <2>2
<1>7. CASE Thread(c)
  <2>1. CASE Activate(c)
    <3>1. /\ \A o \in Conns : phase'[o] = IF o = c THEN "reset" ELSE phase[o]
          /\ \A o \in Conns : isActive'[o] <=> isActive[o] \/ o = c
          /\ phase[c] = "activate" /\ fifo' = fifo
          BY <1>0, <2>1 DEF Activate, Goto, highQueue
    <3> QED
        BY <3>1 DEF Order, AtMostOneActive, BusyIsActive, Busy, ActivatesAlone, QueueIsOwn
  <2>2. CASE ResetConnectionQueue(c)
    <3>1. /\ \A o \in Conns : phase'[o] = IF o = c THEN "loop" ELSE phase[o]
          /\ isActive' = isActive /\ fifo' = <<>>
          BY <1>0, <2>2 DEF ResetConnectionQueue, Goto, HQ!Reset
    <3>2. QueueIsOwn'
          BY <3>1 DEF QueueIsOwn
    <3> QED
        BY <3>1, <3>2 DEF Order, AtMostOneActive, BusyIsActive, Busy, ActivatesAlone
  <2>3. CASE SendDirect(c)
    <3>1. isActive[c] /\ phase[c] = "locked"
          BY <2>3 DEF SendDirect, Goto, Order, BusyIsActive, Busy
    <3>2. CASE inFlight[c] < K
          BY <2>3, <3>1, <3>2, QuietStep DEF SendDirect, Goto, highQueue, Phase, Busy
    <3>3. CASE ~(inFlight[c] < K)
          BY <2>3, <3>1, <3>3, QuietStep DEF SendDirect, Goto, highQueue, Phase, Busy
    <3> QED BY <3>2, <3>3
  <2>4. CASE EnqueueHigh(c)
    <3>1. /\ \A o \in Conns : phase'[o] = IF o = c THEN "handler" ELSE phase[o]
          /\ isActive' = isActive /\ isActive[c] /\ phase[c] = "queue"
          BY <1>0, <2>4 DEF EnqueueHigh, Goto, Order, BusyIsActive, Busy
    <3> DEFINE a == [id |-> responses, owner |-> c]
    <3>2. a \in Response
          BY <2>4 DEF EnqueueHigh, Goto, Types, TypeOK, Response
    <3>3. HQ!Enqueue(a) /\ QueueType
          BY <2>4 DEF EnqueueHigh, Types, TypeOK, QueueType
    <3>4. \A i \in 1..Len(fifo') : fifo'[i] = a \/ (i \in 1..Len(fifo) /\ fifo'[i] = fifo[i])
          BY <3>2, <3>3, QueueEnqueue
    <3>5. \A i \in 1..Len(fifo') : fifo'[i].owner = c
          BY <3>1, <3>4 DEF Order, QueueIsOwn
    <3>6. QueueIsOwn'
          BY <3>1, <3>5 DEF Order, AtMostOneActive, QueueIsOwn
    <3> QED
        BY <3>1, <3>6 DEF Order, AtMostOneActive, BusyIsActive, Busy, ActivatesAlone
  <2>5. CASE HandlerReturns(c)
        BY <2>5, QuietStep DEF HandlerReturns, Goto, highQueue, Phase, Busy
  <2>6. CASE Loop(c)
        BY <2>6, QuietStep DEF Loop, Goto, highQueue, Phase, Busy
  <2>7. CASE HighAvailable(c)
    <3>1. isActive[c]
          BY <2>7 DEF HighAvailable, Goto, Order, BusyIsActive, Busy
    <3> QED BY <2>7, <3>1, QuietStep DEF HighAvailable, Goto, highQueue, Phase, Busy
  <2>8. CASE TakeHigh(c)
    <3>1. isActive[c] /\ phase[c] = "take" /\ isActive' = isActive
          BY <2>8 DEF TakeHigh, Goto, Order, BusyIsActive, Busy
    <3>2. CASE inFlight[c] < K
      <4>1. PICK p \in {"send", "wait"} : phase' = [phase EXCEPT ![c] = p]
            BY <2>8, <3>2 DEF TakeHigh, Goto
      <4>2. \A o \in Conns : phase'[o] = IF o = c THEN p ELSE phase[o]
            BY <1>0, <4>1
      <4>3. \A i \in 1..Len(fifo') : i + 1 \in 1..Len(fifo) /\ fifo'[i] = fifo[i + 1]
            BY <2>8, <3>2, QueueGet DEF TakeHigh, Types, TypeOK, QueueType
      <4>4. QueueIsOwn'
            BY <3>1, <4>2, <4>3 DEF Order, QueueIsOwn
      <4> QED
          BY <3>1, <4>1, <4>2, <4>4 DEF Order, AtMostOneActive, BusyIsActive, Busy,
             ActivatesAlone
    <3>3. CASE ~(inFlight[c] < K)
          BY <2>8, <3>1, <3>3, QuietStep DEF TakeHigh, Goto, highQueue, Phase, Busy
    <3> QED BY <3>2, <3>3
  <2>9. CASE SendLow(c)
        BY <2>9, QuietStep DEF SendLow, Goto, highQueue, Phase, Busy
  <2> QED BY <1>7, <2>1, <2>2, <2>3, <2>4, <2>5, <2>6, <2>7, <2>8, <2>9 DEF Thread
<1>8. 0 \in 0..inFlight[c]
      BY DEF Types, TypeOK
<1> QED
    BY <1>1, <1>2, <1>3, <1>4, <1>5, <1>6, <1>7, <1>8 DEF Step, Confirms

LEMMA Invariance == IInv /\ [Next]_vars => IInv'
<1> SUFFICES ASSUME IInv, [Next]_vars
             PROVE  IInv'
    OBVIOUS
<1>1. CASE EnqueueEvent
      BY <1>1, GroupAssumption
      DEF EnqueueEvent, highQueue, IInv, Order, Types, TypeOK, AtMostOneActive,
          BusyIsActive, ActivatesAlone, QueueIsOwn
<1>2. CASE \E c \in Conns : Step(c)
  <2>1. Types'
        BY <1>2, TypesStep DEF IInv
  <2>2. ASSUME ~overlapped' PROVE Order'
    <3>1. ~overlapped
          BY <1>2, <2>2, OverlappedStays DEF IInv
    <3> QED BY <1>2, <2>2, <3>1, OrderStep DEF IInv
  <2> QED BY <2>1, <2>2 DEF IInv
<1>3. CASE UNCHANGED vars
      BY <1>3
      DEF vars, highQueue, IInv, Order, Types, TypeOK, AtMostOneActive, BusyIsActive,
          ActivatesAlone, QueueIsOwn
<1> QED BY <1>1, <1>2, <1>3 DEF Next, Step

(* As long as no STARTDT meets a committed thread, no two connections of a   *)
(* group are active (CS104_Slave_activate).                                  *)
THEOREM OneActive == Spec => []OneActiveInOrder
<1>1. IInv => OneActiveInOrder
      BY DEF IInv, Order, OneActiveInOrder
<1> QED BY OrderInit, Invariance, <1>1, PTL DEF Spec

(* ... and no response leaves on a connection other than its own, although   *)
(* the high-priority queue is shared and not emptied when one is lost.       *)
THEOREM ResponsesStay == Spec => OwnResponsesInOrder
<1>1. ASSUME IInv, ~overlapped, NEW c \in Conns, TakeHigh(c), fifo' # fifo
      PROVE  Head(fifo).owner = c
  <2>1. isActive[c] /\ phase[c] = "take"
        BY <1>1 DEF TakeHigh, Goto, IInv, Order, BusyIsActive, Busy
  <2>2. fifo # <<>>
        BY <1>1 DEF TakeHigh, HQ!Get, highQueue
  <2>3. 1 \in 1..Len(fifo) /\ Head(fifo) = fifo[1]
        BY <1>1, <2>2 DEF IInv, Types, TypeOK
  <2> QED BY <1>1, <2>1, <2>3 DEF IInv, Order, QueueIsOwn
<1>2. IInv /\ [Next]_vars => [~overlapped => \A c \in Conns : TakesOwn(c)]_vars
      BY <1>1 DEF TakesOwn
<1> QED BY OrderInit, Invariance, <1>2, PTL DEF Spec, OwnResponsesInOrder

(************************* Conversions of one field **************************)

(* Numbers below another one.                                                *)
LEMMA BelowIs ==
  ASSUME NEW n \in Int, NEW k
  PROVE  k \in Below(n) <=> (k \in Int /\ 0 <= k /\ k < n)
BY DEF Below

(* A byte is a number below 256.                                             *)
LEMMA ByteIs ==
  ASSUME NEW k
  PROVE  k \in Byte <=> (k \in Int /\ 0 <= k /\ k < 256)
BY BelowIs DEF Byte

(* The digits of a number to the base 256.                                   *)
LEMMA Split ==
  ASSUME NEW n \in Nat
  PROVE  \E q \in Nat, r \in Byte : n = r + 256 * q
<1>1. n = (n % 256) + 256 * (n \div 256) /\ n % 256 \in Byte /\ n \div 256 \in Nat
      BY DEF Below, Byte
<1> QED BY <1>1

(* The remainder and the quotient of a division by 256 give back the two.    *)
LEMMA Digit ==
  ASSUME NEW n \in Nat, NEW r \in Byte, NEW q \in Nat, n = r + 256 * q
  PROVE  n % 256 = r /\ n \div 256 = q
BY DEF Below, Byte

(* A 16-bit number is its two bytes, the low one first.                      *)
LEMMA TwoBytes ==
  ASSUME NEW n \in Below(65536)
  PROVE  \E a \in Byte, b \in Byte :
           n = a + 256 * b /\ n % 256 = a /\ (n \div 256) % 256 = b
<1>0. n \in Nat /\ n < 65536
      BY BelowIs
<1>1. PICK q \in Nat, a \in Byte : n = a + 256 * q
      BY <1>0, Split
<1>a. a \in Int /\ 0 <= a /\ a < 256
      BY ByteIs
<1>2. q < 256
      BY <1>0, <1>1, <1>a
<1>3. n % 256 = a /\ n \div 256 = q
      BY <1>0, <1>1, Digit
<1>4. q % 256 = q /\ q \in Byte
      BY <1>2, ByteIs
<1> QED BY <1>1, <1>3, <1>4

(* Division by 65536 drops two bytes, ...                                    *)
LEMMA ThreeDigits ==
  ASSUME NEW a \in Byte, NEW b \in Byte, NEW q \in Nat
  PROVE  /\ (a + 256 * (b + 256 * q)) \div 65536 = q
BY DEF Below, Byte

(* ... and division by 256 * 65536 three.                                    *)
LEMMA FourDigits ==
  ASSUME NEW a \in Byte, NEW b \in Byte, NEW c \in Byte, NEW q \in Nat
  PROVE  /\ (a + 256 * (b + 256 * (c + 256 * q))) \div (256 * 65536) = q
BY DEF Below, Byte

(* A 24-bit number is its three bytes, the low one first.                    *)
LEMMA ThreeBytes ==
  ASSUME NEW n \in Below(256 * 65536)
  PROVE  \E a \in Byte, b \in Byte, c \in Byte :
           /\ n = a + 256 * b + 65536 * c
           /\ n % 256 = a /\ (n \div 256) % 256 = b /\ (n \div 65536) % 256 = c
<1>0. n \in Nat /\ n < 256 * 65536
      BY BelowIs
<1>1. PICK q \in Nat, a \in Byte : n = a + 256 * q
      BY <1>0, Split
<1>2. PICK c \in Nat, b \in Byte : q = b + 256 * c
      BY Split
<1>a. a \in Int /\ 0 <= a /\ b \in Int /\ 0 <= b
      BY ByteIs
<1>3. n = a + 256 * b + 65536 * c /\ n = a + 256 * (b + 256 * c)
      BY <1>1, <1>2, <1>a
<1>b. c < 256
      BY <1>0, <1>3, <1>a
<1>4. n % 256 = a /\ n \div 256 = q
      BY <1>0, <1>1, Digit
<1>5. q % 256 = b
      BY <1>2, Digit
<1>6. n \div 65536 = c
      BY <1>3, ThreeDigits
<1>7. c % 256 = c /\ c \in Byte
      BY <1>b, ByteIs
<1> QED BY <1>2, <1>3, <1>4, <1>5, <1>6, <1>7

(* getScaledValue reads back what setScaledValue wrote, negative values      *)
(* included.                                                                 *)
LEMMA ScaledComesBack ==
  ASSUME NEW v \in Int, -32768 <= v, v < 32768
  PROVE  /\ ScaledBytes(v) \in Seq(Byte) /\ Len(ScaledBytes(v)) = 2
         /\ ScaledValue(ScaledBytes(v)) = v
<1>1. PICK e \in Below(65536) : e = IF v < 0 THEN v + 65536 ELSE v
      BY BelowIs
<1>2. PICK a \in Byte, b \in Byte : e = a + 256 * b /\ e % 256 = a /\ (e \div 256) % 256 = b
      BY TwoBytes
<1>3. ScaledBytes(v) = <<a, b>>
      BY <1>1, <1>2 DEF ScaledBytes
<1>4. <<a, b>> \in Seq(Byte) /\ Len(<<a, b>>) = 2
      OBVIOUS
<1>5. a \in Int /\ b \in Int /\ e \in Int
      BY ByteIs, BelowIs
<1>6. ScaledValue(<<a, b>>) = IF e > 32767 THEN e - 65536 ELSE e
      BY <1>2, <1>5 DEF ScaledValue
<1>7. @ = v
      BY <1>1, <1>5
<1> QED BY <1>3, <1>4, <1>6, <1>7

(* The values of a 16-bit signed field.                                      *)
LEMMA Int16Is ==
  ASSUME NEW v \in Int16
  PROVE  v \in Int /\ -32768 <= v /\ v < 32768
<1>1. Power[2] = 256 /\ Power[2] \in Nat
      BY DEF Power
<1>2. v \in Int /\ -128 * Power[2] <= v /\ v < 128 * Power[2]
      BY <1>1, SMTT(20) DEF Int16
<1> QED BY <1>1, <1>2

(* An object address of one, two or three bytes is read back as it was       *)
(* written.                                                                  *)
LEMMA LittleEndianComesBack ==
  ASSUME NEW n \in 1..3, NEW v \in Below(Power[n + 1])
  PROVE  /\ LittleEndian(v, n) \in [1..n -> Byte]
         /\ FromLittleEndian(LittleEndian(v, n)) = v
<1> USE DEF Power
<1>0. v \in Nat /\ v \div 1 = v
      BY BelowIs
<1>1. CASE n = 1
  <2>1. v \in Byte
        BY <1>1 DEF Byte
  <2>2. v % 256 = v
        BY <2>1, ByteIs
  <2>3. LittleEndian(v, n) = <<v>>
        BY <1>0, <1>1, <2>2 DEF LittleEndian
  <2>4. <<v>> \in [1..1 -> Byte] /\ FromLittleEndian(<<v>>) = v
        BY <1>0, <2>1 DEF FromLittleEndian
  <2> QED BY <1>1, <2>3, <2>4
<1>2. CASE n = 2
  <2>1. v \in Below(65536)
        BY <1>2
  <2>2. PICK a \in Byte, b \in Byte : v = a + 256 * b /\ v % 256 = a /\ (v \div 256) % 256 = b
        BY <2>1, TwoBytes
  <2>3. LittleEndian(v, n) = <<a, b>>
        BY <1>0, <1>2, <2>2 DEF LittleEndian
  <2>4. a \in Int /\ b \in Int
        BY ByteIs
  <2>5. <<a, b>> \in [1..2 -> Byte] /\ FromLittleEndian(<<a, b>>) = v
        BY <2>2, <2>4 DEF FromLittleEndian
  <2> QED BY <1>2, <2>3, <2>5
<1>3. CASE n = 3
  <2>1. v \in Below(256 * 65536)
        BY <1>3
  <2>2. PICK a \in Byte, b \in Byte, c \in Byte :
          /\ v = a + 256 * b + 65536 * c
          /\ v % 256 = a /\ (v \div 256) % 256 = b /\ (v \div 65536) % 256 = c
        BY <2>1, ThreeBytes
  <2>3. LittleEndian(v, n) = <<a, b, c>>
        BY <1>0, <1>3, <2>2 DEF LittleEndian
  <2>4. a \in Int /\ b \in Int /\ c \in Int
        BY ByteIs
  <2>5. <<a, b, c>> \in [1..3 -> Byte] /\ FromLittleEndian(<<a, b, c>>) = v
        BY <2>2, <2>4 DEF FromLittleEndian
  <2> QED BY <1>3, <2>3, <2>5
<1> QED BY <1>1, <1>2, <1>3

(* A bit string with bit 31 clear, or with nothing below bit 24, is read     *)
(* back as it was written.                                                   *)
LEMMA BitStringComesBack ==
  ASSUME NEW v \in Int32
  PROVE  /\ BitStringBytes(v) \in [1..4 -> Byte]
         /\ v >= 0 \/ v % Power[4] = 0 => BitStringValue(BitStringBytes(v)) = v
<1>a. Power[3] = 65536 /\ Power[4] = 256 * 65536
      BY DEF Power
<1>b. Power[4] \in Nat \ {0} /\ Power[3] \in Nat \ {0}
      BY <1>a
<1>c. v \in Int /\ -128 * Power[4] <= v /\ v < 128 * Power[4]
      BY <1>b DEF Int32
<1>0. v \in Int /\ -128 * (256 * 65536) <= v /\ v < 128 * (256 * 65536)
      BY <1>a, <1>c
<1>1. BitStringBytes(v) \in [1..4 -> Byte]
  <2>1. \A x \in Int : x % 256 \in Byte
        BY ByteIs
  <2>2. \A x \in Int : Quotient(x, 256) \in Int /\ Remainder(x, 256) \in Int
        BY DEF Quotient, Remainder
  <2>3. Quotient(v, Power[3]) \in Int /\ Quotient(v, Power[4]) \in Int
        BY <1>0, <1>b DEF Quotient
  <2>4. /\ Remainder(v, 256) \in Int /\ Remainder(Quotient(v, 256), 256) \in Int
        /\ Remainder(Quotient(v, Power[3]), 256) \in Int
        BY <1>0, <2>2, <2>3
  <2> QED BY <2>1, <2>3, <2>4 DEF BitStringBytes
<1>2. ASSUME v >= 0
      PROVE  BitStringValue(BitStringBytes(v)) = v
  <2>0. v \in Nat
        BY <1>0, <1>2
  <2>1. PICK x \in Nat, a \in Byte : v = a + 256 * x
        BY <2>0, Split
  <2>2. PICK y \in Nat, b \in Byte : x = b + 256 * y
        BY Split
  <2>3. PICK d \in Nat, c \in Byte : y = c + 256 * d
        BY Split
  <2>4. a \in Nat /\ b \in Nat /\ c \in Nat /\ a < 256 /\ b < 256 /\ c < 256
        BY ByteIs
  <2>5. v = a + 256 * b + 65536 * c + (256 * 65536) * d /\ d < 128
        BY <1>0, <2>1, <2>2, <2>3, <2>4
  <2>6. Quotient(v, 256) = x
        BY <1>2, <2>0, <2>1, Digit DEF Quotient
  <2>7. Quotient(v, Power[3]) = y
    <3>1. (a + 256 * (b + 256 * y)) \div 65536 = y
          BY ThreeDigits
    <3> QED BY <1>2, <1>0, <1>a, <2>1, <2>2, <3>1 DEF Quotient
  <2>8. Quotient(v, Power[4]) = d
    <3>1. (a + 256 * (b + 256 * (c + 256 * d))) \div (256 * 65536) = d
          BY FourDigits
    <3> QED BY <1>2, <1>0, <1>a, <2>1, <2>2, <2>3, <3>1 DEF Quotient
  <2>9. Quotient(x, 256) = y /\ Quotient(y, 256) = d
        BY <2>2, <2>3, Digit DEF Quotient
  <2>10. Remainder(v, 256) = a /\ Remainder(x, 256) = b /\ Remainder(y, 256) = c
        BY <2>1, <2>2, <2>3, <2>4, <2>6, <2>9 DEF Remainder
  <2>11. a % 256 = a /\ b % 256 = b /\ c % 256 = c /\ d % 256 = d
        BY <2>4, <2>5
  <2>12. BitStringBytes(v) = <<a, b, c, d>>
        BY <2>6, <2>7, <2>8, <2>10, <2>11 DEF BitStringBytes
  <2> QED BY <1>a, <2>4, <2>5, <2>12 DEF BitStringValue
<1>3. ASSUME v < 0, v % Power[4] = 0
      PROVE  BitStringValue(BitStringBytes(v)) = v
  <2>0. /\ -v \in Nat
        /\ v = (256 * 65536) * (v \div (256 * 65536))
        /\ v \div (256 * 65536) \in Int
        BY <1>0, <1>3, <1>a
  <2>1. PICK d \in Nat : v = -((256 * 65536) * d)
    <3>1. PICK e \in Int : v = (256 * 65536) * e
          BY <2>0
    <3>2. -e \in Nat /\ -v = (256 * 65536) * (-e)
          BY <2>0, <3>1
    <3>3. PICK d \in Nat : e = -d
          BY <3>2
    <3>4. v = (256 * 65536) * (-d)
          BY <3>1, <3>3
    <3> QED BY <3>4
  <2>2. 0 < d /\ d <= 128
        BY <1>0, <1>3, <2>1
  <2>3. (-v) \div 256 = 65536 * d /\ (-v) \div 65536 = 256 * d /\ (-v) \div (256 * 65536) = d
        BY <2>1
  <2>4. /\ Quotient(v, 256) = -(65536 * d) /\ Quotient(v, Power[3]) = -(256 * d)
        /\ Quotient(v, Power[4]) = -d
        BY <1>3, <1>a, <2>3 DEF Quotient
  <2>5. Remainder(v, 256) = 0
        BY <1>0, <2>1, <2>4 DEF Remainder
  <2>6. Remainder(-(65536 * d), 256) = 0 /\ Remainder(-(256 * d), 256) = 0
    <3>1. (65536 * d) \div 256 = 256 * d /\ (256 * d) \div 256 = d
          OBVIOUS
    <3> QED BY <2>2, <3>1 DEF Remainder, Quotient
  <2>7. (-d) % 256 = 256 - d /\ 0 % 256 = 0
        BY <2>2
  <2>8. BitStringBytes(v) = <<0, 0, 0, 256 - d>>
        BY <2>4, <2>5, <2>6, <2>7 DEF BitStringBytes
  <2>9. BitStringValue(<<0, 0, 0, 256 - d>>) = -((256 * 65536) * d)
        BY <1>a, <2>2 DEF BitStringValue
  <2> QED BY <1>0, <2>1, <2>8, <2>9
<1> QED BY <1>0, <1>1, <1>2, <1>3

(* A step position comes back with its transient flag, and its value clamped *)
(* to what seven bits hold.                                                  *)
LEMMA VtiComesBack ==
  ASSUME NEW v \in [value : Int, transient : BOOLEAN]
  PROVE  /\ VtiByte(v) \in Byte
         /\ VtiValue(VtiByte(v)) = [v EXCEPT !.value = Clamp(@, -64, 63)]
<1>1. PICK x \in -64..63 : x = Clamp(v.value, -64, 63)
      BY DEF Clamp
<1>2. PICK y \in 0..127 : y = IF x < 0 THEN x + 128 ELSE x
      OBVIOUS
<1>3. VtiByte(v) = y + (IF v.transient THEN 128 ELSE 0)
      BY <1>1, <1>2 DEF VtiByte
<1>4. [v EXCEPT !.value = Clamp(@, -64, 63)] = [value |-> x, transient |-> v.transient]
      BY <1>1
<1>5. CASE v.transient = TRUE
  <2>1. VtiByte(v) = y + 128
        BY <1>3, <1>5
  <2>2. (y + 128) % 128 = y /\ y + 128 >= 128 /\ y + 128 \in Byte
        BY DEF Byte, Below
  <2> QED BY <1>2, <1>4, <1>5, <2>1, <2>2 DEF VtiValue
<1>6. CASE v.transient = FALSE
  <2>1. VtiByte(v) = y
        BY <1>3, <1>6
  <2>2. y % 128 = y /\ ~(y >= 128) /\ y \in Byte
        BY DEF Byte, Below
  <2> QED BY <1>2, <1>4, <1>6, <2>1, <2>2 DEF VtiValue
<1> QED BY <1>5, <1>6

(* A single, double or step command comes back with its state and its select *)
(* flag, of its qualifier the five bits that are kept.                       *)
LEMMA CommandComesBack ==
  ASSUME NEW states \in {2, 4}, NEW v \in [qu : Int, state : 0..(states - 1), select : BOOLEAN]
  PROVE  /\ CommandByte(v) \in Byte
         /\ CommandValue(CommandByte(v), states) = [v EXCEPT !.qu = @ % 32]
<1>1. PICK q \in 0..31 : q = v.qu % 32
      OBVIOUS
<1>2. PICK s \in 0..(states - 1) : s = v.state /\ s % 4 = s
      OBVIOUS
<1>3. CommandByte(v) = 4 * q + s + (IF v.select THEN 128 ELSE 0)
      BY <1>1, <1>2 DEF CommandByte
<1>4. [v EXCEPT !.qu = @ % 32] = [qu |-> q, state |-> s, select |-> v.select]
      BY <1>1, <1>2
<1>5. CASE v.select = TRUE
  <2>1. CommandByte(v) = 4 * q + s + 128
        BY <1>3, <1>5
  <2>2. /\ ((4 * q + s + 128) % 128) \div 4 = q /\ (4 * q + s + 128) % states = s
        /\ 4 * q + s + 128 >= 128 /\ 4 * q + s + 128 \in Byte
        BY DEF Byte, Below
  <2> QED BY <1>4, <1>5, <2>1, <2>2 DEF CommandValue
<1>6. CASE v.select = FALSE
  <2>1. CommandByte(v) = 4 * q + s
        BY <1>3, <1>6
  <2>2. /\ ((4 * q + s) % 128) \div 4 = q /\ (4 * q + s) % states = s
        /\ ~(4 * q + s >= 128) /\ 4 * q + s \in Byte
        BY DEF Byte, Below
  <2> QED BY <1>4, <1>6, <2>1, <2>2 DEF CommandValue
<1> QED BY <1>5, <1>6

(* The kinds of fields.                                                      *)
Kinds == DOMAIN Width

(* The kinds of fields, by name.                                             *)
LEMMA KindsAre ==
  Kinds = {"siq", "diq", "vti", "byte", "sco", "dco", "qos", "noQuality", "nva", "nvb", "sva", "nof",
           "testPattern", "cp16", "cp24", "lof", "lostLof", "bsi", "r32", "bcr", "cp56", "segment"}
BY DEF Kinds, Width

(* Every field is between one and seven bytes wide; a segment counts its     *)
(* length byte.                                                              *)
LEMMA WidthOf ==
  ASSUME NEW kind \in Kinds
  PROVE  Width[kind] \in 1..7
BY KindsAre DEF Width

(* The widths, kind by kind.                                                 *)
LEMMA WidthIs ==
  /\ \A kind \in {"siq", "diq", "vti", "byte", "sco", "dco", "qos", "noQuality", "segment"} :
       Width[kind] = 1
  /\ \A kind \in {"nva", "nvb", "sva", "nof", "testPattern", "cp16"} : Width[kind] = 2
  /\ \A kind \in {"cp24", "lof", "lostLof"} : Width[kind] = 3
  /\ \A kind \in {"bsi", "r32"} : Width[kind] = 4
  /\ Width["bcr"] = 5 /\ Width["cp56"] = 7
BY DEF Width

(* A single byte as a sequence.                                              *)
LEMMA OneByte ==
  ASSUME NEW x \in Byte
  PROVE  <<x>> \in Seq(Byte) /\ Len(<<x>>) = 1
OBVIOUS

(* A function from 1..n to bytes is a sequence of n bytes.                   *)
LEMMA ByteSeq ==
  ASSUME NEW n \in Nat, NEW b \in [1..n -> Byte]
  PROVE  b \in Seq(Byte) /\ Len(b) = n
OBVIOUS

(* Of every field that can be encoded the encoder writes as many bytes as    *)
(* the kind is wide; of a file segment, its length and its bytes.            *)
LEMMA FieldBytes ==
  ASSUME NEW kind \in Kinds, NEW v \in Encodable(kind)
  PROVE  /\ Bytes(kind, v) \in Seq(Byte)
         /\ kind # "segment" => Len(Bytes(kind, v)) = Width[kind]
         /\ kind = "segment" => Len(Bytes(kind, v)) = 1 + Len(v)
<1>1. CASE kind = "siq"
  <2>1. v.quality \in {q \in Byte : q % 16 = 0} /\ v.value \in BOOLEAN
        BY <1>1 DEF Encodable
  <2>2. v.quality + (IF v.value THEN 1 ELSE 0) \in Byte
        BY <2>1 DEF Byte, Below
  <2>3. Bytes(kind, v) = <<v.quality + (IF v.value THEN 1 ELSE 0)>>
        BY <1>1 DEF Bytes
  <2> QED BY <1>1, <2>2, <2>3, OneByte, WidthIs
<1>2. CASE kind = "diq"
  <2>1. v.quality \in {q \in Byte : q % 16 = 0} /\ v.value \in 0..3
        BY <1>2 DEF Encodable
  <2>2. v.quality + v.value \in Byte
        BY <2>1 DEF Byte, Below
  <2>3. Bytes(kind, v) = <<v.quality + v.value>>
        BY <1>2 DEF Bytes
  <2> QED BY <1>2, <2>2, <2>3, OneByte, WidthIs
<1>3. CASE kind = "vti"
  <2>1. v \in [value : Int, transient : BOOLEAN]
        BY <1>3 DEF Encodable
  <2>2. VtiByte(v) \in Byte
        BY <2>1, VtiComesBack
  <2>3. Bytes(kind, v) = <<VtiByte(v)>>
        BY <1>3 DEF Bytes
  <2> QED BY <1>3, <2>2, <2>3, OneByte, WidthIs
<1>4. CASE kind = "sco"
  <2>1. v \in [qu : Int, state : 0..(2 - 1), select : BOOLEAN]
        BY <1>4 DEF Encodable
  <2>2. CommandByte(v) \in Byte
        BY <2>1, CommandComesBack
  <2>3. Bytes(kind, v) = <<CommandByte(v)>>
        BY <1>4 DEF Bytes
  <2> QED BY <1>4, <2>2, <2>3, OneByte, WidthIs
<1>5. CASE kind = "dco"
  <2>1. v \in [qu : Int, state : 0..(4 - 1), select : BOOLEAN]
        BY <1>5 DEF Encodable
  <2>2. CommandByte(v) \in Byte
        BY <2>1, CommandComesBack
  <2>3. Bytes(kind, v) = <<CommandByte(v)>>
        BY <1>5 DEF Bytes
  <2> QED BY <1>5, <2>2, <2>3, OneByte, WidthIs
<1>6. CASE kind = "qos"
  <2>1. v.ql \in Below(128) /\ v.select \in BOOLEAN
        BY <1>6 DEF Encodable
  <2>2. v.ql % 128 = v.ql /\ v.ql % 256 = v.ql /\ v.ql \in Byte /\ 128 + v.ql \in Byte
        BY <2>1 DEF Below, Byte
  <2>3. Bytes(kind, v) = <<IF v.select THEN 128 + v.ql ELSE v.ql>>
        BY <1>6, <2>2 DEF Bytes
  <2>4. PICK x \in Byte : Bytes(kind, v) = <<x>>
        BY <2>2, <2>3
  <2>5. <<x>> \in Seq(Byte) /\ Len(<<x>>) = 1
        BY OneByte
  <2>6. Width[kind] = 1 /\ kind # "segment"
        BY <1>6, WidthIs
  <2> QED BY <2>4, <2>5, <2>6
<1>7. CASE kind \in {"byte", "noQuality"}
  <2>1. v \in Byte
    <3>1. CASE kind = "byte"
          BY <3>1 DEF Encodable
    <3>2. CASE kind = "noQuality"
          BY <3>2 DEF Encodable, Byte, Below
    <3> QED BY <1>7, <3>1, <3>2
  <2>2. Bytes(kind, v) = <<v>>
        BY <1>7 DEF Bytes
  <2> QED BY <1>7, <2>1, <2>2, OneByte, WidthIs
<1>8. CASE kind \in {"nva", "nvb", "sva"}
  <2>1. PICK w \in Int : -32768 <= w /\ w < 32768 /\ Bytes(kind, v) = ScaledBytes(w)
    <3>1. CASE kind = "nva"
          BY <3>1 DEF Encodable, Bytes, Clamp
    <3>2. CASE kind = "nvb"
          BY <3>2 DEF Encodable, Bytes, Clamp
    <3>3. CASE kind = "sva"
      <4>1. v \in Int16 /\ Bytes(kind, v) = ScaledBytes(v)
            BY <3>3 DEF Encodable, Bytes
      <4> QED BY <4>1, Int16Is
    <3> QED BY <1>8, <3>1, <3>2, <3>3
  <2>2. ScaledBytes(w) \in Seq(Byte) /\ Len(ScaledBytes(w)) = 2
        BY <2>1, ScaledComesBack
  <2> QED BY <1>8, <2>1, <2>2, WidthIs
<1>9. CASE kind = "bsi"
  <2>1. v \in Int32 /\ Bytes(kind, v) = BitStringBytes(v)
        BY <1>9 DEF Encodable, Bytes
  <2>2. BitStringBytes(v) \in [1..4 -> Byte]
        BY <2>1, BitStringComesBack
  <2>3. BitStringBytes(v) \in Seq(Byte) /\ Len(BitStringBytes(v)) = 4
        BY <2>2, ByteSeq
  <2>4. Width[kind] = 4 /\ kind # "segment"
        BY <1>9, WidthIs
  <2> QED BY <2>1, <2>3, <2>4
<1>10. CASE kind \in {"nof", "lof", "lostLof"}
  <2>1. PICK n \in 1..3 : \E w \in Below(Power[n + 1]) :
          n = Width[kind] /\ Bytes(kind, v) = LittleEndian(w, n)
    <3>1. CASE kind = "nof"
      <4>1. 2 + 1 = 3 /\ Power[3] = 65536 /\ Width[kind] = 2
            BY <3>1 DEF Width, Power
      <4>2. v \in Below(65536) /\ Bytes(kind, v) = LittleEndian(v, 2)
            BY <3>1, <4>1 DEF Encodable, Bytes
      <4> QED BY <4>1, <4>2
    <3>2. CASE kind = "lof"
      <4>1. 3 + 1 = 4 /\ Width[kind] = 3
            BY <3>2 DEF Width
      <4>2. v \in Below(Power[4]) /\ Bytes(kind, v) = LittleEndian(v, 3)
            BY <3>2, <4>1 DEF Encodable, Bytes
      <4> QED BY <4>1, <4>2
    <3>3. CASE kind = "lostLof"
      <4>1. 3 + 1 = 4 /\ Width[kind] = 3
            BY <3>3 DEF Width
      <4>2. v.memory \in Below(Power[4]) /\ Bytes(kind, v) = LittleEndian(v.memory, 3)
            BY <3>3, <4>1 DEF Encodable, Bytes
      <4> QED BY <4>1, <4>2
    <3> QED BY <1>10, <3>1, <3>2, <3>3
  <2>2. PICK w \in Below(Power[n + 1]) : n = Width[kind] /\ Bytes(kind, v) = LittleEndian(w, n)
        BY <2>1
  <2>3. LittleEndian(w, n) \in [1..n -> Byte]
        BY LittleEndianComesBack
  <2> QED BY <1>10, <2>2, <2>3, ByteSeq
<1>11. CASE kind = "segment"
  <2>1. v \in Seq(Byte) /\ Len(v) <= 255 /\ Bytes(kind, v) = <<Len(v)>> \o v
        BY <1>11 DEF Encodable, Bytes
  <2>2. Len(v) \in Byte
        BY <2>1, LenProperties, ByteIs
  <2>3. <<Len(v)>> \in Seq(Byte) /\ Len(<<Len(v)>>) = 1
        BY <2>2
  <2> QED BY <1>11, <2>1, <2>3, ConcatProperties, SMTT(20)
<1>12. CASE kind = "testPattern"
  <2>1. Bytes(kind, v) = <<204, 85>>
        BY <1>12 DEF Encodable, Bytes
  <2>2. 204 \in Byte /\ 85 \in Byte
        BY ByteIs
  <2>3. Bytes(kind, v) \in Seq(Byte) /\ Len(Bytes(kind, v)) = 2
        BY <2>1, <2>2
  <2> QED BY <1>12, <2>3, WidthIs
<1>13. CASE kind \in {"cp16", "cp24", "r32", "bcr", "cp56"}
  <2>1. v \in [1..Width[kind] -> Byte] /\ Bytes(kind, v) = v
    <3>1. CASE kind = "cp16"
          BY <3>1 DEF Encodable, Bytes
    <3>2. CASE kind = "cp24"
          BY <3>2 DEF Encodable, Bytes
    <3>3. CASE kind = "r32"
          BY <3>3 DEF Encodable, Bytes
    <3>4. CASE kind = "bcr"
          BY <3>4 DEF Encodable, Bytes
    <3>5. CASE kind = "cp56"
          BY <3>5 DEF Encodable, Bytes
    <3> QED BY <1>13, <3>1, <3>2, <3>3, <3>4, <3>5
  <2>2. Width[kind] \in Nat
        BY WidthOf
  <2> QED BY <1>13, <2>1, <2>2, ByteSeq
<1> QED BY KindsAre, <1>1, <1>2, <1>3, <1>4, <1>5, <1>6, <1>7, <1>8, <1>9, <1>10, <1>11,
           <1>12, <1>13

(* The bytes b lie in m behind the first at bytes.                           *)
Placed(m, at, b) == \A j \in 1..Len(b) : at + j \in 1..Len(m) /\ m[at + j] = b[j]

(* Bytes that lie somewhere are the bytes read there.                        *)
LEMMA PlacedIsRead ==
  ASSUME NEW m \in Seq(Byte), NEW i \in Nat, NEW b \in Seq(Byte), Placed(m, i, b)
  PROVE  BytesFrom(m, i, Len(b)) = b
BY DEF Placed, BytesFrom

(* A field that lies somewhere in a message is decoded there as its getter   *)
(* promises, whatever its kind: signs, flags, quality and time stamps        *)
(* included.                                                                 *)
LEMMA FieldComesBack ==
  ASSUME NEW kind \in Kinds, NEW v \in Encodable(kind), kind # "lostLof", SurvivesSign(kind, v),
         NEW m \in Seq(Byte), NEW i \in Nat, Placed(m, i, Bytes(kind, v))
  PROVE  Value(kind, m, i) = Promised(kind, v)
<1>0. Bytes(kind, v) \in Seq(Byte)
      BY FieldBytes
<1>a. kind # "segment" => BytesFrom(m, i, Width[kind]) = Bytes(kind, v)
      BY <1>0, FieldBytes, PlacedIsRead
<1> DEFINE b == Bytes(kind, v)
<1>1. CASE kind = "siq"
  <2>1. v \in [value : BOOLEAN, quality : {q \in Byte : q % 16 = 0}]
        BY <1>1 DEF Encodable
  <2>2. b = <<v.quality + (IF v.value THEN 1 ELSE 0)>>
        BY <1>1 DEF Bytes
  <2>3. Value(kind, m, i) = [value |-> b[1] % 2 = 1, quality |-> b[1] - (b[1] % 16)]
        BY <1>1, <1>a DEF Value
  <2>4. Promised(kind, v) = [value |-> v.value, quality |-> v.quality]
        BY <1>1, <2>1 DEF Promised
  <2>5. PICK q \in Byte : v.quality = q /\ q % 16 = 0
        BY <2>1
  <2>a. q \in Nat /\ q % 2 = 0
    <3>1. q \in Nat
          BY DEF Byte, Below
    <3>2. q = 16 * (q \div 16) /\ q \div 16 \in Nat
          BY <2>5, <3>1
    <3> QED BY <3>1, <3>2
  <2>6. CASE v.value = TRUE
    <3>1. b[1] = v.quality + 1
          BY <2>2, <2>6
    <3>2. (q + 1) % 2 = 1 /\ (q + 1) - ((q + 1) % 16) = q
          BY <2>5, <2>a
    <3> QED BY <2>3, <2>4, <2>5, <2>6, <3>1, <3>2
  <2>7. CASE v.value = FALSE
    <3>1. b[1] = v.quality
          BY <2>2, <2>5, <2>7, <2>a
    <3>2. q % 2 # 1 /\ q - (q % 16) = q
          BY <2>5, <2>a
    <3> QED BY <2>3, <2>4, <2>5, <2>7, <3>1, <3>2
  <2> QED BY <2>1, <2>6, <2>7
<1>2. CASE kind = "diq"
  <2>1. v \in [value : 0..3, quality : {q \in Byte : q % 16 = 0}]
        BY <1>2 DEF Encodable
  <2>2. b = <<v.quality + v.value>>
        BY <1>2 DEF Bytes
  <2>3. Value(kind, m, i) = [value |-> b[1] % 4, quality |-> b[1] - (b[1] % 16)]
        BY <1>2, <1>a DEF Value
  <2>4. Promised(kind, v) = [value |-> v.value, quality |-> v.quality]
        BY <1>2, <2>1 DEF Promised
  <2>5. PICK q \in Byte, x \in 0..3 : v.quality = q /\ v.value = x /\ q % 16 = 0
        BY <2>1
  <2>a. q \in Nat /\ q % 4 = 0
        BY <2>5, SMTT(20) DEF Byte, Below
  <2>6. (q + x) % 4 = x /\ (q + x) % 16 = x /\ (q + x) - x = q
        BY <2>5, <2>a
  <2> QED BY <2>2, <2>3, <2>4, <2>5, <2>6
<1>3. CASE kind = "vti"
  <2>1. v \in [value : Int, transient : BOOLEAN]
        BY <1>3 DEF Encodable
  <2>2. b = <<VtiByte(v)>> /\ Value(kind, m, i) = VtiValue(b[1])
        BY <1>3, <1>a DEF Bytes, Value
  <2>3. Promised(kind, v) = [v EXCEPT !.value = Clamp(@, -64, 63)]
        BY <1>3 DEF Promised
  <2> QED BY <2>1, <2>2, <2>3, VtiComesBack
<1>4. CASE kind = "sco"
  <2>1. v \in [qu : Int, state : 0..(2 - 1), select : BOOLEAN]
        BY <1>4 DEF Encodable
  <2>2. b = <<CommandByte(v)>> /\ Value(kind, m, i) = CommandValue(b[1], 2)
        BY <1>4, <1>a DEF Bytes, Value
  <2>3. Promised(kind, v) = [v EXCEPT !.qu = @ % 32]
        BY <1>4 DEF Promised
  <2> QED BY <2>1, <2>2, <2>3, CommandComesBack
<1>5. CASE kind = "dco"
  <2>1. v \in [qu : Int, state : 0..(4 - 1), select : BOOLEAN]
        BY <1>5 DEF Encodable
  <2>2. b = <<CommandByte(v)>> /\ Value(kind, m, i) = CommandValue(b[1], 4)
        BY <1>5, <1>a DEF Bytes, Value
  <2>3. Promised(kind, v) = [v EXCEPT !.qu = @ % 32]
        BY <1>5 DEF Promised
  <2> QED BY <2>1, <2>2, <2>3, CommandComesBack
<1>6. CASE kind = "qos"
  <2>1. v \in [ql : Below(128), select : BOOLEAN]
        BY <1>6 DEF Encodable
  <2>a. PICK q \in Below(128) : v.ql = q
        BY <2>1
  <2>2. q % 128 = q /\ q % 256 = q /\ q \in Nat /\ q < 128
        BY DEF Below
  <2>3. b = <<IF v.select THEN 128 + q ELSE q>>
        BY <1>6, <2>2, <2>a DEF Bytes
  <2>4. Value(kind, m, i) = [ql |-> b[1] % 128, select |-> b[1] >= 128]
        BY <1>6, <1>a DEF Value
  <2>5. Promised(kind, v) = [ql |-> q, select |-> v.select]
        BY <1>6, <2>1, <2>a DEF Promised
  <2>6. CASE v.select = TRUE
    <3>1. b[1] = 128 + q
          BY <2>3, <2>6
    <3>2. (128 + q) % 128 = q /\ 128 + q >= 128
          BY <2>2
    <3> QED BY <3>1, <2>4, <2>5, <2>6, <3>2
  <2>7. CASE v.select = FALSE
    <3>1. b[1] = q
          BY <2>3, <2>7
    <3>2. q % 128 = q /\ (q >= 128) = FALSE
          BY <2>2
    <3> QED BY <3>1, <2>4, <2>5, <2>7, <3>2
  <2> QED BY <2>1, <2>6, <2>7
<1>7. CASE kind \in {"byte", "noQuality"}
  <2>1. b = <<v>> /\ Value(kind, m, i) = b[1] /\ Promised(kind, v) = v
        BY <1>7, <1>a DEF Bytes, Value, Promised
  <2> QED BY <2>1
<1>8. CASE kind \in {"nva", "nvb", "sva"}
  <2>1. PICK w \in Int : -32768 <= w /\ w < 32768 /\ b = ScaledBytes(w) /\ Promised(kind, v) = w
    <3>1. CASE kind = "nva"
          BY <3>1 DEF Encodable, Bytes, Clamp, Promised
    <3>2. CASE kind = "nvb"
          BY <3>2 DEF Encodable, Bytes, Clamp, Promised
    <3>3. CASE kind = "sva"
      <4>1. v \in Int16 /\ b = ScaledBytes(v) /\ Promised(kind, v) = v
            BY <3>3 DEF Encodable, Bytes, Promised
      <4> QED BY <4>1, Int16Is
    <3> QED BY <1>8, <3>1, <3>2, <3>3
  <2>2. ScaledValue(ScaledBytes(w)) = w
        BY <2>1, ScaledComesBack
  <2>3. Value(kind, m, i) = ScaledValue(b)
        BY <1>8, <1>a DEF Value
  <2> QED BY <2>1, <2>2, <2>3
<1>9. CASE kind = "bsi"
  <2>1. v \in Int32 /\ b = BitStringBytes(v) /\ Promised(kind, v) = v
        BY <1>9 DEF Encodable, Bytes, Promised
  <2>2. v >= 0 \/ v % Power[4] = 0
        BY <1>9 DEF SurvivesSign
  <2>3. BitStringValue(BitStringBytes(v)) = v
        BY <2>1, <2>2, BitStringComesBack
  <2>4. Value(kind, m, i) = BitStringValue(b)
        BY <1>9, <1>a DEF Value
  <2> QED BY <2>1, <2>3, <2>4
<1>10. CASE kind \in {"nof", "lof"}
  <2>1. PICK n \in 1..3 : v \in Below(Power[n + 1]) /\ b = LittleEndian(v, n)
    <3>1. CASE kind = "nof"
      <4>1. 2 + 1 = 3 /\ Power[3] = 65536 /\ Width[kind] = 2
            BY <3>1 DEF Width, Power
      <4>2. v \in Below(65536) /\ b = LittleEndian(v, 2)
            BY <3>1, <4>1 DEF Encodable, Bytes
      <4> QED BY <4>1, <4>2
    <3>2. CASE kind = "lof"
      <4>1. 3 + 1 = 4 /\ Width[kind] = 3
            BY <3>2 DEF Width
      <4>2. v \in Below(Power[4]) /\ b = LittleEndian(v, 3)
            BY <3>2, <4>1 DEF Encodable, Bytes
      <4> QED BY <4>1, <4>2
    <3> QED BY <1>10, <3>1, <3>2
  <2>2. FromLittleEndian(b) = v
        BY <2>1, LittleEndianComesBack
  <2>3. Value(kind, m, i) = FromLittleEndian(b) /\ Promised(kind, v) = v
        BY <1>10, <1>a DEF Value, Promised
  <2> QED BY <2>2, <2>3
<1>11. CASE kind = "segment"
  <2>1. v \in Seq(Byte) /\ Len(v) <= 255 /\ b = <<Len(v)>> \o v /\ Len(v) \in Nat
        BY <1>11 DEF Encodable, Bytes
  <2>2. Len(b) = 1 + Len(v) /\ b[1] = Len(v) /\ \A j \in 1..Len(v) : b[1 + j] = v[j]
        BY <2>1
  <2>3. /\ i + 1 \in 1..Len(m) /\ m[i + 1] = Len(v)
        /\ \A j \in 1..Len(v) : (i + 1) + j \in 1..Len(m) /\ m[(i + 1) + j] = v[j]
        BY <2>1, <2>2 DEF Placed
  <2>4. BytesFrom(m, i + 1, Len(v)) = v
        BY <2>1, <2>3 DEF BytesFrom
  <2>5. Value(kind, m, i) = BytesFrom(m, i + 1, BytesFrom(m, i, Width[kind])[1])
        BY <1>11 DEF Value
  <2>6. BytesFrom(m, i, Width[kind])[1] = Len(v)
        BY <1>11, <2>3, WidthIs DEF BytesFrom
  <2> QED BY <1>11, <2>4, <2>5, <2>6 DEF Promised
<1>12. CASE kind \in {"testPattern", "cp16", "cp24", "r32", "bcr", "cp56"}
  <2> HIDE DEF b
  <2>1. CASE kind = "testPattern"
        BY <2>1, <1>a DEF Bytes, Value, Promised
  <2>2. CASE kind = "cp16"
        BY <2>2, <1>a DEF Bytes, Value, Promised
  <2>3. CASE kind = "cp24"
        BY <2>3, <1>a DEF Bytes, Value, Promised
  <2>4. CASE kind = "r32"
        BY <2>4, <1>a DEF Bytes, Value, Promised
  <2>5. CASE kind = "bcr"
        BY <2>5, <1>a DEF Bytes, Value, Promised
  <2>6. CASE kind = "cp56"
        BY <2>6, <1>a DEF Bytes, Value, Promised
  <2> QED BY <1>12, <2>1, <2>2, <2>3, <2>4, <2>5, <2>6
<1> QED BY KindsAre, <1>1, <1>2, <1>3, <1>4, <1>5, <1>6, <1>7, <1>8, <1>9, <1>10, <1>11, <1>12

(* Induction, in a form without operator parameters: a set that holds 0 and  *)
(* with a number the next one holds all.                                     *)
LEMMA BelowIsWellFounded ==
  IsWellFoundedOn({ss \in Nat \X Nat : ss[1] < ss[2]}, Nat)
BY NatLessThanWellFounded DEF OpToRel

(************************ Fields one after the other *************************)

(* Induction over the natural numbers for a set: no operator parameter is    *)
(* needed, so it can be cited.                                               *)
LEMMA SetInduction ==
  ASSUME NEW S, 0 \in S, \A n \in Nat : n \in S => n + 1 \in S
  PROVE  \A n \in Nat : n \in S
<1> SUFFICES ASSUME Nat \ S # {} PROVE FALSE
    OBVIOUS
<1> DEFINE R == {ss \in Nat \X Nat : ss[1] < ss[2]}
<1>1. Nat \ S \subseteq Nat
      OBVIOUS
<1>2. PICK x \in Nat \ S : \A y \in Nat \ S : ~(<<y, x>> \in R)
      BY <1>1, BelowIsWellFounded, WFMin, Zenon
<1>3. x # 0 /\ x - 1 \in Nat /\ x - 1 < x
      OBVIOUS
<1>4. x - 1 \in S
      BY <1>2, <1>3
<1> QED BY <1>3, <1>4

(* A function on 1..(n + 1) that is given by its first value and by a table  *)
(* of what follows a value at a place exists.                                *)
StaysIn(S, n, next) == \A k \in 1..n : \A v \in S : next[<<k, v>>] \in S
Iterates(f, S, n, first, next) ==
  f \in [1..(n + 1) -> S] /\ f[1] = first /\ \A k \in 1..n : f[k + 1] = next[<<k, f[k]>>]

(* A function defined by its first value and its steps exists: what CHOOSE   *)
(* picks in Places and FlattenSeq is such a function.                        *)
LEMMA StepsExist ==
  ASSUME NEW S, NEW n \in Nat, NEW first \in S, NEW next, StaysIn(S, n, next)
  PROVE  \E f : Iterates(f, S, n, first, next)
<1> USE DEF StaysIn, Iterates
<1> DEFINE Good(m) == \E f \in [1..(m + 1) -> S] :
             f[1] = first /\ \A k \in 1..m : f[k + 1] = next[<<k, f[k]>>]
           T == {m \in Nat : m <= n => Good(m)}
<1>1. 0 \in T
  <2>1. PICK f \in [1..(0 + 1) -> S] : f[1] = first
    <3> DEFINE f == [k \in 1..(0 + 1) |-> first]
    <3>1. f \in [1..(0 + 1) -> S] /\ f[1] = first
          OBVIOUS
    <3> QED BY <3>1
  <2> QED BY <2>1
<1>2. ASSUME NEW m \in Nat, m \in T PROVE m + 1 \in T
  <2> SUFFICES ASSUME m + 1 <= n PROVE Good(m + 1)
      OBVIOUS
  <2>1. PICK f \in [1..(m + 1) -> S] : f[1] = first /\ \A k \in 1..m : f[k + 1] = next[<<k, f[k]>>]
        BY <1>2
  <2>2. m + 1 \in 1..n /\ m + 1 \in 1..(m + 1) /\ f[m + 1] \in S
        OBVIOUS
  <2>3. PICK v \in S : v = next[<<m + 1, f[m + 1]>>]
        BY <2>2
  <2>4. PICK g : g = [k \in 1..((m + 1) + 1) |-> IF k = m + 2 THEN v ELSE f[k]]
        OBVIOUS
  <2>5. /\ g \in [1..((m + 1) + 1) -> S] /\ g[1] = first /\ g[(m + 1) + 1] = v
        /\ \A k \in 1..(m + 1) : g[k] = f[k]
        BY <2>1, <2>4
  <2>6. ASSUME NEW k \in 1..(m + 1) PROVE g[k + 1] = next[<<k, g[k]>>]
    <3>1. CASE k = m + 1
          BY <2>2, <2>3, <2>5, <3>1
    <3>2. CASE k # m + 1
      <4>1. k \in 1..m /\ k + 1 \in 1..(m + 1)
            BY <3>2
      <4> QED BY <2>1, <2>5, <4>1
    <3> QED BY <3>1, <3>2
  <2> QED BY <2>5, <2>6
<1> HIDE DEF T
<1>3. n \in T
      BY <1>1, <1>2, SetInduction
<1> QED BY <1>3 DEF T

(* Places adds up the steps: the recursive definition, unfolded once for     *)
(* every n.                                                                  *)
LEMMA PlacesProperties ==
  ASSUME NEW steps \in Seq(Nat)
  PROVE  /\ Places(steps) \in [1..(Len(steps) + 1) -> Nat]
         /\ Places(steps)[1] = 0
         /\ \A k \in 1..Len(steps) : Places(steps)[k + 1] = Places(steps)[k] + steps[k]
<1>0. PICK n \in Nat : n = Len(steps)
      OBVIOUS
<1> DEFINE Body(f) == [k \in 1..(n + 1) |-> IF k = 1 THEN 0 ELSE f[k - 1] + steps[k - 1]]
<1>a. 0 \in Nat /\ \A k \in 1..n : steps[k] \in Nat
      BY <1>0
<1>1. PICK next : next = [kv \in (1..n) \X Nat |-> kv[2] + steps[kv[1]]]
      OBVIOUS
<1>2. StaysIn(Nat, n, next)
      BY <1>a, <1>1 DEF StaysIn
<1>3. PICK f \in [1..(n + 1) -> Nat] : f[1] = 0 /\ \A k \in 1..n : f[k + 1] = next[<<k, f[k]>>]
  <2>1. PICK f : Iterates(f, Nat, n, 0, next)
        BY <1>a, <1>2, StepsExist
  <2> QED BY <2>1 DEF Iterates
<1>4. f = Body(f)
  <2>1. ASSUME NEW k \in 1..(n + 1) PROVE f[k] = Body(f)[k]
    <3>1. CASE k = 1
          BY <1>3, <3>1
    <3>2. CASE k # 1
      <4>1. k - 1 \in 1..n /\ (k - 1) + 1 = k /\ f[k - 1] \in Nat
            BY <1>0, <3>2, SMTT(20)
      <4>2. f[k] = next[<<k - 1, f[k - 1]>>]
            BY <1>3, <4>1
      <4> QED BY <1>1, <3>2, <4>1, <4>2
    <3> QED BY <3>1, <3>2
  <2> QED BY <2>1
<1>5. PICK g : g = Places(steps)
      OBVIOUS
<1>6. g = Body(g)
      BY <1>0, <1>4, <1>5 DEF Places
<1>7. g[1] = 0 /\ \A k \in 1..n : g[k + 1] = g[k] + steps[k]
  <2>1. 1 \in 1..(n + 1)
        BY <1>0
  <2>2. g[1] = 0
        BY <1>6, <2>1
  <2>3. ASSUME NEW k \in 1..n PROVE g[k + 1] = g[k] + steps[k]
    <3>1. k + 1 \in 1..(n + 1) /\ k + 1 # 1 /\ (k + 1) - 1 = k
          BY <1>0
    <3> QED BY <1>6, <3>1
  <2> QED BY <2>2, <2>3
<1>8. g \in [1..(n + 1) -> Nat]
  <2> DEFINE T == {m \in Nat : m <= n => g[m + 1] \in Nat}
  <2>1. 0 \in T
        BY <1>7
  <2>2. ASSUME NEW m \in Nat, m \in T PROVE m + 1 \in T
    <3> SUFFICES ASSUME m + 1 <= n PROVE g[(m + 1) + 1] \in Nat
        OBVIOUS
    <3>1. m + 1 \in 1..n /\ g[m + 1] \in Nat /\ steps[m + 1] \in Nat
          BY <1>a, <2>2
    <3> QED BY <1>7, <3>1
  <2> HIDE DEF T
  <2>3. \A m \in Nat : m \in T
        BY <2>1, <2>2, SetInduction
  <2>4. ASSUME NEW k \in 1..(n + 1) PROVE g[k] \in Nat
    <3>1. k - 1 \in Nat /\ k - 1 <= n /\ (k - 1) + 1 = k
          BY <1>0
    <3> QED BY <2>3, <3>1 DEF T
  <2> QED BY <1>6, <2>4
<1> QED BY <1>0, <1>5, <1>7, <1>8

(* A sequence without elements is the empty one.                             *)
LEMMA NothingIsEmpty ==
  ASSUME NEW s \in Seq(Seq(Byte)), Len(s) = 0
  PROVE  s = <<>> /\ <<>> \in Seq(Byte) /\ Len(<<>>) = 0
BY EmptySeq

(* In a concatenation the second part lies after the first.                  *)
LEMMA PlacedNext ==
  ASSUME NEW a \in Seq(Byte), NEW b \in Seq(Byte)
  PROVE  /\ a \o b \in Seq(Byte) /\ Len(a \o b) = Len(a) + Len(b)
         /\ Placed(a \o b, Len(a), b)
BY DEF Placed

(* What lies in a message still lies there when bytes are appended.          *)
LEMMA PlacedBefore ==
  ASSUME NEW a \in Seq(Byte), NEW b \in Seq(Byte), NEW at \in Nat, NEW c \in Seq(Byte), Placed(a, at, c)
  PROVE  Placed(a \o b, at, c)
BY DEF Placed

(* FlattenSeq joins its sequences from the left, one at each step.           *)
LEMMA FlattenSteps ==
  ASSUME NEW seqs \in Seq(Seq(Byte)), Len(seqs) # 0
  PROVE  \E f \in [1..Len(seqs) -> Seq(Byte)] :
           /\ f[1] = seqs[1] /\ FlattenSeq(seqs) = f[Len(seqs)]
           /\ \A k \in 1..(Len(seqs) - 1) : f[k + 1] = f[k] \o seqs[k + 1]
<1>a. PICK n \in Nat : n = Len(seqs)
      OBVIOUS
<1> DEFINE Body(f) == [k \in 1..n |-> IF k = 1 THEN seqs[k] ELSE f[k - 1] \o seqs[k]]
<1>0. n - 1 \in Nat /\ (n - 1) + 1 = n /\ \A k \in 1..n : seqs[k] \in Seq(Byte)
      BY <1>a
<1>1. PICK next : next = [kv \in (1..(n - 1)) \X Seq(Byte) |-> kv[2] \o seqs[kv[1] + 1]]
      OBVIOUS
<1>2. StaysIn(Seq(Byte), n - 1, next)
  <2>1. ASSUME NEW k \in 1..(n - 1), NEW v \in Seq(Byte) PROVE v \o seqs[k + 1] \in Seq(Byte)
    <3>1. seqs[k + 1] \in Seq(Byte)
          BY <1>0
    <3> QED BY <3>1
  <2> QED BY <1>1, <2>1 DEF StaysIn
<1>3. seqs[1] \in Seq(Byte)
      BY <1>0
<1>4. PICK f \in [1..((n - 1) + 1) -> Seq(Byte)] :
        f[1] = seqs[1] /\ \A k \in 1..(n - 1) : f[k + 1] = next[<<k, f[k]>>]
  <2>1. PICK f : Iterates(f, Seq(Byte), n - 1, seqs[1], next)
        BY <1>0, <1>2, <1>3, StepsExist
  <2> QED BY <2>1 DEF Iterates
<1>5. f = Body(f)
  <2>1. ASSUME NEW k \in 1..n PROVE f[k] = Body(f)[k]
    <3>1. CASE k = 1
          BY <1>4, <3>1
    <3>2. CASE k # 1
      <4>1. k - 1 \in 1..(n - 1) /\ (k - 1) + 1 = k /\ f[k - 1] \in Seq(Byte)
            BY <1>0, <1>4, <3>2
      <4>2. f[k] = next[<<k - 1, f[k - 1]>>]
            BY <1>4, <4>1
      <4> QED BY <1>1, <3>2, <4>1, <4>2
    <3> QED BY <3>1, <3>2
  <2> QED BY <1>0, <1>4, <2>1
<1>6. PICK g : g = CHOOSE h : h = Body(h)
      OBVIOUS
<1>7. g = Body(g) /\ FlattenSeq(seqs) = g[n]
      BY <1>a, <1>5, <1>6 DEF FlattenSeq
<1>8. g[1] = seqs[1] /\ \A k \in 1..(n - 1) : g[k + 1] = g[k] \o seqs[k + 1]
  <2>1. 1 \in 1..n
        BY <1>0
  <2>2. g[1] = seqs[1]
        BY <1>7, <2>1
  <2>3. ASSUME NEW k \in 1..(n - 1) PROVE g[k + 1] = g[k] \o seqs[k + 1]
    <3>1. k + 1 \in 1..n /\ k + 1 # 1 /\ (k + 1) - 1 = k
          BY <1>0
    <3> QED BY <1>7, <3>1
  <2> QED BY <2>2, <2>3
<1>9. g \in [1..n -> Seq(Byte)]
  <2> DEFINE T == {m \in Nat : m + 1 <= n => g[m + 1] \in Seq(Byte)}
  <2>1. 0 \in T
        BY <1>3, <1>8
  <2>2. ASSUME NEW m \in Nat, m \in T PROVE m + 1 \in T
    <3> SUFFICES ASSUME (m + 1) + 1 <= n PROVE g[(m + 1) + 1] \in Seq(Byte)
        OBVIOUS
    <3>1. m + 1 \in 1..(n - 1) /\ (m + 1) + 1 \in 1..n /\ g[m + 1] \in Seq(Byte)
          BY <1>0, <2>2
    <3>2. seqs[(m + 1) + 1] \in Seq(Byte)
          BY <1>0, <3>1
    <3> QED BY <1>8, <3>1, <3>2, ConcatProperties
  <2> HIDE DEF T
  <2>3. \A m \in Nat : m \in T
        BY <2>1, <2>2, SetInduction
  <2>4. ASSUME NEW k \in 1..n PROVE g[k] \in Seq(Byte)
    <3>1. k - 1 \in Nat /\ (k - 1) + 1 <= n /\ (k - 1) + 1 = k
          BY <1>0
    <3> QED BY <2>3, <3>1 DEF T
  <2> QED BY <1>7, <2>4
<1> QED BY <1>a, <1>7, <1>8, <1>9

(* Concatenation puts every part where the parts before it end.              *)
LEMMA FlattenLays ==
  ASSUME NEW seqs \in Seq(Seq(Byte))
  PROVE  LET place == Places([k \in 1..Len(seqs) |-> Len(seqs[k])])
         IN  /\ FlattenSeq(seqs) \in Seq(Byte)
             /\ Len(FlattenSeq(seqs)) = place[Len(seqs) + 1]
             /\ \A k \in 1..Len(seqs) : Placed(FlattenSeq(seqs), place[k], seqs[k])
<1>n. PICK n \in Nat : n = Len(seqs)
      OBVIOUS
<1> DEFINE lens == [k \in 1..n |-> Len(seqs[k])]
<1>0. lens \in Seq(Nat) /\ Len(lens) = n /\ \A k \in 1..n : lens[k] = Len(seqs[k])
      BY <1>n
<1>b. \A k \in 1..n : seqs[k] \in Seq(Byte) /\ Len(seqs[k]) \in Nat
      BY <1>n
<1>c. [k \in 1..Len(seqs) |-> Len(seqs[k])] = lens
      BY <1>n
<1> HIDE DEF lens
<1>1. PICK p \in [1..(n + 1) -> Nat] :
        p = Places(lens) /\ p[1] = 0 /\ \A k \in 1..n : p[k + 1] = p[k] + Len(seqs[k])
  BY <1>0, PlacesProperties
<1>2. CASE n = 0
  <2>0. Len(seqs) = 0 /\ seqs = <<>>
        BY <1>n, <1>2, NothingIsEmpty
  <2>1. FlattenSeq(seqs) = seqs
        BY <2>0, Zenon DEF FlattenSeq
  <2>2. FlattenSeq(seqs) \in Seq(Byte) /\ Len(FlattenSeq(seqs)) = p[n + 1]
    <3>1. FlattenSeq(seqs) \in Seq(Byte) /\ Len(FlattenSeq(seqs)) = 0
          BY <2>0, <2>1, NothingIsEmpty, Zenon
    <3>2. p[n + 1] = 0
          BY <1>1, <1>2
    <3> QED BY <3>1, <3>2
  <2> QED BY <1>c, <1>n, <1>1, <1>2, <2>2
<1>3. CASE n # 0
  <2>1. PICK f \in [1..n -> Seq(Byte)] :
          /\ f[1] = seqs[1] /\ FlattenSeq(seqs) = f[n]
          /\ \A k \in 1..(n - 1) : f[k + 1] = f[k] \o seqs[k + 1]
        BY <1>n, <1>3, FlattenSteps
  <2> DEFINE Good(m) == Len(f[m]) = p[m + 1] /\ \A k \in 1..m : Placed(f[m], p[k], seqs[k])
             T == {m \in Nat : m + 1 <= n => Good(m + 1)}
  <2>2. 0 \in T
    <3>1. p[1 + 1] = Len(seqs[1]) /\ f[1] = seqs[1] /\ seqs[1] \in Seq(Byte) /\ p[1] = 0
          BY <1>b, <1>1, <1>3, <2>1
    <3>2. Good(0 + 1)
          BY <3>1, SMTT(20) DEF Placed
    <3> QED BY <3>2
  <2>3. ASSUME NEW m \in Nat, m \in T PROVE m + 1 \in T
    <3> SUFFICES ASSUME (m + 1) + 1 <= n PROVE Good((m + 1) + 1)
        OBVIOUS
    <3>1. PICK i \in 1..(n - 1) : i = m + 1 /\ Good(i)
          BY <1>0, <2>3, SMTT(20)
    <3>a. i \in 1..n /\ i + 1 \in 1..n /\ i + 1 \in 1..(n + 1)
          OBVIOUS
    <3>2. /\ f[i] \in Seq(Byte) /\ seqs[i + 1] \in Seq(Byte) /\ f[i + 1] = f[i] \o seqs[i + 1]
          /\ p[i + 1] \in Nat /\ p[(i + 1) + 1] = p[i + 1] + Len(seqs[i + 1]) /\ Len(f[i]) = p[i + 1]
          BY <1>b, <1>1, <2>1, <3>1, <3>a
    <3>3. Len(f[i + 1]) = p[(i + 1) + 1] /\ Placed(f[i + 1], p[i + 1], seqs[i + 1])
          BY <3>2, PlacedNext
    <3>5. ASSUME NEW k \in 1..i PROVE Placed(f[i + 1], p[k], seqs[k])
      <4>1. Placed(f[i], p[k], seqs[k])
            BY <3>1
      <4>2. p[k] \in Nat /\ seqs[k] \in Seq(Byte)
            BY <1>b, <1>1, SMTT(20)
      <4> QED BY <3>2, <4>1, <4>2, PlacedBefore
    <3>6. \A k \in 1..(i + 1) : k \in 1..i \/ k = i + 1
          OBVIOUS
    <3> QED BY <3>1, <3>3, <3>5, <3>6
  <2> HIDE DEF T
  <2>4. \A m \in Nat : m \in T
        BY <2>2, <2>3, SetInduction
  <2>5. n - 1 \in Nat /\ (n - 1) + 1 = n
        BY <1>0, <1>3
  <2>6. PICK m \in Nat : n = m + 1
        BY <2>5
  <2>8. Good(n)
        BY <2>4, <2>6 DEF T
  <2>7. f[n] \in Seq(Byte)
        BY <2>5
  <2> QED BY <1>n, <1>1, <2>1, <2>8, <2>7 DEF lens
<1> QED BY <1>2, <1>3

(* A sequence that is appended is joined last.                               *)
LEMMA FlattenAppend ==
  ASSUME NEW seqs \in Seq(Seq(Byte)), NEW x \in Seq(Byte)
  PROVE  FlattenSeq(Append(seqs, x)) = FlattenSeq(seqs) \o x
<1>n. PICK n \in Nat : n = Len(seqs)
      OBVIOUS
<1> DEFINE all == Append(seqs, x)
<1>0. /\ all \in Seq(Seq(Byte)) /\ Len(all) = n + 1 /\ all[n + 1] = x
      /\ \A k \in 1..n : all[k] = seqs[k]
      BY <1>n
<1> HIDE DEF all
<1>1. PICK g \in [1..Len(all) -> Seq(Byte)] :
          /\ g[1] = all[1] /\ FlattenSeq(all) = g[Len(all)]
          /\ \A k \in 1..(Len(all) - 1) : g[k + 1] = g[k] \o all[k + 1]
  <2>1. Len(all) # 0
        BY <1>0
  <2> QED BY <1>0, <2>1, FlattenSteps
<1>2. CASE n = 0
  <2>0. Len(seqs) = 0 /\ seqs = <<>>
        BY <1>n, <1>2, NothingIsEmpty
  <2>1. FlattenSeq(seqs) = seqs
        BY <2>0, Zenon DEF FlattenSeq
  <2>2. FlattenSeq(all) = x
        BY <1>0, <1>1, <1>2
  <2> QED BY <2>0, <2>1, <2>2, ConcatEmptySeq DEF all
<1>3. CASE n # 0
  <2>1. PICK f \in [1..n -> Seq(Byte)] :
          /\ f[1] = seqs[1] /\ FlattenSeq(seqs) = f[n]
          /\ \A k \in 1..(n - 1) : f[k + 1] = f[k] \o seqs[k + 1]
        BY <1>n, <1>3, FlattenSteps
  <2> DEFINE T == {m \in Nat : m + 1 <= n => g[m + 1] = f[m + 1]}
  <2>2. 0 \in T
        BY <1>0, <1>1, <2>1
  <2>3. ASSUME NEW m \in Nat, m \in T PROVE m + 1 \in T
    <3> SUFFICES ASSUME (m + 1) + 1 <= n PROVE g[(m + 1) + 1] = f[(m + 1) + 1]
        OBVIOUS
    <3>1. /\ m + 1 \in 1..(n - 1) /\ m + 1 \in 1..(Len(all) - 1) /\ (m + 1) + 1 \in 1..n
          /\ g[m + 1] = f[m + 1]
          BY <1>0, <2>3
    <3> QED BY <1>0, <1>1, <2>1, <3>1
  <2> HIDE DEF T
  <2>4. \A m \in Nat : m \in T
        BY <2>2, <2>3, SetInduction
  <2>5. n - 1 \in Nat /\ (n - 1) + 1 = n
        BY <1>0, <1>3
  <2>a. PICK m \in Nat : n = m + 1
        BY <2>5
  <2>6. g[n] = f[n]
        BY <2>4, <2>a DEF T
  <2>7. g[n + 1] = g[n] \o all[n + 1]
    <3>1. n \in 1..(Len(all) - 1)
          BY <1>0, <1>3
    <3> QED BY <1>1, <3>1
  <2> QED BY <1>0, <1>1, <2>1, <2>5, <2>6, <2>7 DEF all
<1> QED BY <1>2, <1>3

(* Steps that agree up to n lead to the same places up to n + 1.             *)
LEMMA PlacesAgree ==
  ASSUME NEW s \in Seq(Nat), NEW r \in Seq(Nat), NEW n \in Nat, n <= Len(s), n <= Len(r),
         \A k \in 1..n : s[k] = r[k]
  PROVE  \A k \in 1..(n + 1) : Places(s)[k] = Places(r)[k]
<1> DEFINE T == {m \in Nat : m <= n => Places(s)[m + 1] = Places(r)[m + 1]}
<1>0. Len(s) \in Nat /\ Len(r) \in Nat
      OBVIOUS
<1>1. PICK p \in [1..(Len(s) + 1) -> Nat] :
        p = Places(s) /\ p[1] = 0 /\ \A k \in 1..Len(s) : p[k + 1] = p[k] + s[k]
      BY PlacesProperties
<1>2. PICK q \in [1..(Len(r) + 1) -> Nat] :
        q = Places(r) /\ q[1] = 0 /\ \A k \in 1..Len(r) : q[k + 1] = q[k] + r[k]
      BY PlacesProperties
<1>3. 0 \in T
      BY <1>1, <1>2
<1>4. ASSUME NEW m \in Nat, m \in T PROVE m + 1 \in T
  <2> SUFFICES ASSUME m + 1 <= n PROVE p[(m + 1) + 1] = q[(m + 1) + 1]
      BY <1>1, <1>2
  <2>1. m + 1 \in 1..n /\ m + 1 \in 1..Len(s) /\ m + 1 \in 1..Len(r) /\ p[m + 1] = q[m + 1]
        BY <1>0, <1>1, <1>2, <1>4
  <2> QED BY <1>1, <1>2, <2>1
<1> HIDE DEF T
<1>5. \A m \in Nat : m \in T
      BY <1>3, <1>4, SetInduction
<1>6. ASSUME NEW k \in 1..(n + 1) PROVE Places(s)[k] = Places(r)[k]
  <2>1. PICK m \in Nat : k = m + 1 /\ m <= n
    <3>1. k - 1 \in Nat /\ k = (k - 1) + 1 /\ k - 1 <= n
          OBVIOUS
    <3> QED BY <3>1
  <2> QED BY <1>5, <2>1 DEF T
<1> QED BY <1>6

(* How many bytes each field of a type takes.                                *)
Widths(fields) == [k \in DOMAIN fields |-> Width[fields[k]]]

(* The widths of the fields of a type, and their sum.                        *)
LEMMA WidthsType ==
  ASSUME NEW fields \in Seq(Kinds)
  PROVE  /\ Widths(fields) \in Seq(Nat) /\ Len(Widths(fields)) = Len(fields)
         /\ \A k \in 1..Len(fields) : Widths(fields)[k] = Width[fields[k]]
         /\ SizeOf(fields) = Places(Widths(fields))[Len(fields) + 1] /\ SizeOf(fields) \in Nat
<1>1. \A k \in 1..Len(fields) : Width[fields[k]] \in Nat
      BY WidthOf
<1>2. /\ Widths(fields) \in Seq(Nat) /\ Len(Widths(fields)) = Len(fields)
      /\ \A k \in 1..Len(fields) : Widths(fields)[k] = Width[fields[k]]
      BY <1>1 DEF Widths
<1>3. SizeOf(fields) = Places(Widths(fields))[Len(fields) + 1]
      BY DEF SizeOf, Widths
<1>4. Places(Widths(fields)) \in [1..(Len(fields) + 1) -> Nat]
      BY <1>2, PlacesProperties
<1> QED BY <1>2, <1>3, <1>4

(* Where the fields of a type start.                                         *)
LEMMA FieldPlaces ==
  ASSUME NEW fields \in Seq(Kinds)
  PROVE  \E p \in [1..(Len(fields) + 1) -> Nat] :
           /\ p = Places(Widths(fields)) /\ p[1] = 0 /\ SizeOf(fields) = p[Len(fields) + 1]
           /\ \A k \in 1..Len(fields) :
                p[k + 1] = p[k] + Width[fields[k]] /\ Width[fields[k]] \in Nat
<1>0. \A k \in 1..Len(fields) : fields[k] \in Kinds
      OBVIOUS
<1>1. \A k \in 1..Len(fields) : Width[fields[k]] \in 1..7
      BY <1>0, WidthOf
<1> QED BY <1>1, WidthsType, PlacesProperties, SMTT(20)

(* The size of up to three fields is the sum of their widths.                *)
LEMMA SizeOfFields ==
  /\ SizeOf(<<>>) = 0
  /\ \A a \in Kinds :
       SizeOf(<<a>>) = Width[a]
  /\ \A a \in Kinds, b \in Kinds :
       SizeOf(<<a, b>>) = Width[a] + Width[b]
  /\ \A a \in Kinds, b \in Kinds, c \in Kinds :
       SizeOf(<<a, b, c>>) = Width[a] + Width[b] + Width[c]
  /\ \A a \in Kinds, b \in Kinds, c \in Kinds, d \in Kinds :
       SizeOf(<<a, b, c, d>>) = Width[a] + Width[b] + Width[c] + Width[d]
<1>1. SizeOf(<<>>) = 0
  <2>1. PICK f : f \in Seq(Kinds) /\ f = <<>> /\ Len(f) = 0
        BY EmptySeq
  <2>2. PICK p : p = Places(Widths(f)) /\ p[1] = 0 /\ SizeOf(f) = p[Len(f) + 1]
        BY <2>1, FieldPlaces
  <2> QED BY <2>1, <2>2
<1>2. ASSUME NEW a \in Kinds
      PROVE  SizeOf(<<a>>) = Width[a]
  <2>1. PICK f : f = <<a>>
        OBVIOUS
  <2>2. f \in Seq(Kinds) /\ Len(f) = 1 /\ f[1] = a
        BY <2>1
  <2>3. PICK p \in [1..(1 + 1) -> Nat] :
          /\ p[1] = 0 /\ SizeOf(f) = p[1 + 1]
          /\ \A k \in 1..1 : p[k + 1] = p[k] + Width[f[k]] /\ Width[f[k]] \in Nat
        BY <2>2, FieldPlaces
  <2>4. /\ p[2] = p[1] + Width[a] /\ Width[a] \in Nat
        BY <2>2, <2>3
  <2> QED BY <2>1, <2>3, <2>4
<1>3. ASSUME NEW a \in Kinds, NEW b \in Kinds
      PROVE  SizeOf(<<a, b>>) = Width[a] + Width[b]
  <2>1. PICK f : f = <<a, b>>
        OBVIOUS
  <2>2. f \in Seq(Kinds) /\ Len(f) = 2 /\ f[1] = a /\ f[2] = b
        BY <2>1
  <2>3. PICK p \in [1..(2 + 1) -> Nat] :
          /\ p[1] = 0 /\ SizeOf(f) = p[2 + 1]
          /\ \A k \in 1..2 : p[k + 1] = p[k] + Width[f[k]] /\ Width[f[k]] \in Nat
        BY <2>2, FieldPlaces
  <2>4. /\ p[2] = p[1] + Width[a] /\ Width[a] \in Nat
        /\ p[3] = p[2] + Width[b] /\ Width[b] \in Nat
        BY <2>2, <2>3
  <2> QED BY <2>1, <2>3, <2>4
<1>4. ASSUME NEW a \in Kinds, NEW b \in Kinds, NEW c \in Kinds
      PROVE  SizeOf(<<a, b, c>>) = Width[a] + Width[b] + Width[c]
  <2>1. PICK f : f = <<a, b, c>>
        OBVIOUS
  <2>2. f \in Seq(Kinds) /\ Len(f) = 3 /\ f[1] = a /\ f[2] = b /\ f[3] = c
        BY <2>1
  <2>3. PICK p \in [1..(3 + 1) -> Nat] :
          /\ p[1] = 0 /\ SizeOf(f) = p[3 + 1]
          /\ \A k \in 1..3 : p[k + 1] = p[k] + Width[f[k]] /\ Width[f[k]] \in Nat
        BY <2>2, FieldPlaces
  <2>4. /\ p[2] = p[1] + Width[a] /\ Width[a] \in Nat
        /\ p[3] = p[2] + Width[b] /\ Width[b] \in Nat
        /\ p[4] = p[3] + Width[c] /\ Width[c] \in Nat
        BY <2>2, <2>3
  <2> QED BY <2>1, <2>3, <2>4
<1>5. ASSUME NEW a \in Kinds, NEW b \in Kinds, NEW c \in Kinds, NEW d \in Kinds
      PROVE  SizeOf(<<a, b, c, d>>) = Width[a] + Width[b] + Width[c] + Width[d]
  <2>1. PICK f : f = <<a, b, c, d>>
        OBVIOUS
  <2>2. f \in Seq(Kinds) /\ Len(f) = 4 /\ f[1] = a /\ f[2] = b /\ f[3] = c /\ f[4] = d
        BY <2>1
  <2>3. PICK p \in [1..(4 + 1) -> Nat] :
          /\ p[1] = 0 /\ SizeOf(f) = p[4 + 1]
          /\ \A k \in 1..4 : p[k + 1] = p[k] + Width[f[k]] /\ Width[f[k]] \in Nat
        BY <2>2, FieldPlaces
  <2>4. /\ p[2] = p[1] + Width[a] /\ Width[a] \in Nat
        /\ p[3] = p[2] + Width[b] /\ Width[b] \in Nat
        /\ p[4] = p[3] + Width[c] /\ Width[c] \in Nat
        /\ p[5] = p[4] + Width[d] /\ Width[d] \in Nat
        BY <2>2, <2>3
  <2> QED BY <2>1, <2>3, <2>4
<1> QED BY <1>1, <1>2, <1>3, <1>4, <1>5

(* Values that create makes of the fields; only the last may be a segment.   *)
Filling(fields, values) == \A k \in 1..Len(fields) : values[k] \in Encodable(fields[k])
SegmentLast(fields) == \A k \in 1..Len(fields) : fields[k] = "segment" => k = Len(fields)

Lengths(seqs) == [k \in 1..Len(seqs) |-> Len(seqs[k])]

(* The encoded fields of an object lie in its bytes one after the other, and *)
(* together they are as long as the type says.                               *)
LEMMA EncodedLays ==
  ASSUME NEW fields \in Seq(Kinds), NEW values, Filling(fields, values), SegmentLast(fields)
  PROVE  /\ Encoded(fields, values) \in Seq(Byte)
         /\ \A k \in 1..Len(fields) :
              Placed(Encoded(fields, values), Places(Widths(fields))[k], Bytes(fields[k], values[k]))
         /\ (\A k \in 1..Len(fields) : fields[k] # "segment") =>
              Len(Encoded(fields, values)) = SizeOf(fields)
<1>n. PICK n \in Nat : n = Len(fields)
      OBVIOUS
<1>1. PICK seqs : seqs = [k \in 1..n |-> Bytes(fields[k], values[k])]
      OBVIOUS
<1>2. ASSUME NEW k \in 1..n
      PROVE  /\ seqs[k] = Bytes(fields[k], values[k]) /\ seqs[k] \in Seq(Byte)
             /\ fields[k] # "segment" => Len(seqs[k]) = Width[fields[k]]
  <2>1. fields[k] \in Kinds /\ values[k] \in Encodable(fields[k])
        BY <1>n DEF Filling
  <2> QED BY <1>1, <2>1, FieldBytes
<1>3. seqs \in Seq(Seq(Byte)) /\ Len(seqs) = n
      BY <1>1, <1>2
<1>4. Encoded(fields, values) = FlattenSeq(seqs)
      BY <1>n, <1>1, SMTT(20) DEF Encoded
<1>5. /\ FlattenSeq(seqs) \in Seq(Byte)
      /\ Len(FlattenSeq(seqs)) = Places(Lengths(seqs))[Len(seqs) + 1]
      /\ \A k \in 1..Len(seqs) : Placed(FlattenSeq(seqs), Places(Lengths(seqs))[k], seqs[k])
      BY <1>3, FlattenLays DEF Lengths
<1>6. PICK lens : lens = Lengths(seqs)
      OBVIOUS
<1>7. lens \in Seq(Nat) /\ Len(lens) = n /\ \A k \in 1..n : lens[k] = Len(seqs[k])
  <2>1. \A k \in 1..n : Len(seqs[k]) \in Nat
        BY <1>2
  <2> QED BY <1>3, <1>6, <2>1 DEF Lengths
<1>8. PICK widths \in Seq(Nat) :
        /\ widths = Widths(fields) /\ Len(widths) = n
        /\ \A k \in 1..n : widths[k] = Width[fields[k]]
        /\ SizeOf(fields) = Places(widths)[n + 1]
      BY <1>n, WidthsType
<1> DEFINE NoSegment(m) == \A k \in 1..m : fields[k] # "segment"
<1>9. ASSUME NEW m \in Nat, m <= n, NoSegment(m)
      PROVE  Places(lens)[m + 1] = Places(widths)[m + 1]
  <2>1. \A k \in 1..m : lens[k] = widths[k]
    <3>1. ASSUME NEW k \in 1..m PROVE lens[k] = widths[k]
      <4>1. k \in 1..n
            BY <1>9
      <4> QED BY <1>2, <1>7, <1>8, <1>9, <4>1
    <3> QED BY <3>1
  <2>2. \A k \in 1..(m + 1) : Places(lens)[k] = Places(widths)[k]
        BY <1>7, <1>8, <1>9, <2>1, PlacesAgree
  <2>3. m + 1 \in 1..(m + 1)
        OBVIOUS
  <2> QED BY <2>2, <2>3
<1> HIDE DEF NoSegment
<1>10. ASSUME NEW k \in 1..n
       PROVE  Placed(Encoded(fields, values), Places(Widths(fields))[k], Bytes(fields[k], values[k]))
  <2>1. PICK m \in Nat : k = m + 1 /\ m <= n
    <3>1. k - 1 \in Nat /\ k = (k - 1) + 1 /\ k - 1 <= n
          OBVIOUS
    <3> QED BY <3>1
  <2>2. NoSegment(m)
        BY <1>n, <2>1 DEF SegmentLast, NoSegment
  <2>3. Places(lens)[k] = Places(widths)[k]
        BY <1>9, <2>1, <2>2
  <2> QED BY <1>2, <1>3, <1>4, <1>5, <1>6, <1>8, <2>3
<1>11. ASSUME \A k \in 1..n : fields[k] # "segment"
       PROVE  Len(Encoded(fields, values)) = SizeOf(fields)
  <2>1. Places(lens)[n + 1] = Places(widths)[n + 1]
        BY <1>9, <1>11 DEF NoSegment
  <2> QED BY <1>3, <1>4, <1>5, <1>6, <1>8, <2>1
<1> QED BY <1>n, <1>4, <1>5, <1>10, <1>11

(* One field more is encoded behind the others.                              *)
LEMMA EncodedMore ==
  ASSUME NEW fields \in Seq(Kinds), NEW last \in Kinds, NEW values,
         Filling(Append(fields, last), values)
  PROVE  LET n == Len(fields) + 1
         IN  Encoded(Append(fields, last), values) =
               Encoded(fields, values) \o Bytes(last, values[n])
<1>n. PICK n \in Nat : n = Len(fields)
      OBVIOUS
<1>1. PICK all : all = Append(fields, last)
      OBVIOUS
<1>2. all \in Seq(Kinds) /\ Len(all) = n + 1 /\ all[n + 1] = last /\ \A k \in 1..n : all[k] = fields[k]
      BY <1>n, <1>1
<1>3. PICK seqs : seqs = [k \in 1..n |-> Bytes(fields[k], values[k])]
      OBVIOUS
<1>4. PICK more : more = [k \in 1..(n + 1) |-> Bytes(all[k], values[k])]
      OBVIOUS
<1>5. \A k \in 1..(n + 1) : Bytes(all[k], values[k]) \in Seq(Byte)
  <2>1. ASSUME NEW k \in 1..(n + 1) PROVE Bytes(all[k], values[k]) \in Seq(Byte)
    <3>1. all[k] \in Kinds /\ values[k] \in Encodable(all[k])
          BY <1>1, <1>2 DEF Filling
    <3> QED BY <3>1, FieldBytes
  <2> QED BY <2>1
<1>6. \A k \in 1..n : Bytes(all[k], values[k]) = Bytes(fields[k], values[k])
      BY <1>2
<1>7. seqs \in Seq(Seq(Byte)) /\ Len(seqs) = n
      BY <1>3, <1>5, <1>6
<1>8. more = Append(seqs, Bytes(last, values[n + 1]))
  <2>1. \A k \in 1..n : more[k] = seqs[k]
        BY <1>3, <1>4, <1>6
  <2>2. more \in Seq(Seq(Byte)) /\ Len(more) = n + 1
        BY <1>4, <1>5
  <2>3. more[n + 1] = Bytes(last, values[n + 1]) /\ Bytes(last, values[n + 1]) \in Seq(Byte)
        BY <1>2, <1>4, <1>5
  <2>4. PICK s : s = Append(seqs, more[n + 1])
        OBVIOUS
  <2>5. /\ s \in Seq(Seq(Byte)) /\ Len(s) = n + 1 /\ s[n + 1] = more[n + 1]
        /\ \A k \in 1..n : s[k] = seqs[k]
    <3>1. PICK x \in Seq(Byte) : x = more[n + 1]
          BY <2>3
    <3> QED BY <1>7, <2>4, <3>1
  <2>6. ASSUME NEW k \in 1..(n + 1) PROVE s[k] = more[k]
    <3>1. k \in 1..n \/ k = n + 1
          OBVIOUS
    <3> QED BY <2>1, <2>5, <3>1
  <2> QED BY <2>2, <2>3, <2>4, <2>5, <2>6, SeqEqual
<1>9. Bytes(last, values[n + 1]) \in Seq(Byte)
      BY <1>2, <1>5
<1>10. FlattenSeq(more) = FlattenSeq(seqs) \o Bytes(last, values[n + 1])
       BY <1>7, <1>8, <1>9, FlattenAppend
<1>11. Encoded(all, values) = FlattenSeq(more) /\ Encoded(fields, values) = FlattenSeq(seqs)
  <2>1. DOMAIN all = 1..(n + 1) /\ DOMAIN fields = 1..n
        BY <1>n, <1>2
  <2>2. Encoded(all, values) = FlattenSeq(more)
        BY <1>4, <2>1 DEF Encoded
  <2>3. Encoded(fields, values) = FlattenSeq(seqs)
        BY <1>3, <2>1 DEF Encoded
  <2> QED BY <2>2, <2>3
<1> QED BY <1>n, <1>1, <1>10, <1>11

(* A sequence of at most one element.                                        *)
LEMMA AtMostOne ==
  ASSUME NEW S, NEW s \in Seq(S), Len(s) <= 1
  PROVE  Len(s) = 0 \/ (Len(s) = 1 /\ s[1] \in S /\ s = <<s[1]>>)
<1>1. PICK n \in Nat : n = Len(s) /\ \A k \in 1..n : s[k] \in S
      OBVIOUS
<1>2. n <= 1
      BY <1>1
<1>3. ASSUME n = 1 PROVE s[1] \in S /\ s = <<s[1]>>
  <2>1. PICK x \in S : x = s[1]
        BY <1>1, <1>3
  <2>2. <<x>> \in Seq(S) /\ Len(<<x>>) = 1 /\ <<x>>[1] = x
        OBVIOUS
  <2>3. PICK t : t = <<x>>
        OBVIOUS
  <2>4. t \in Seq(S) /\ Len(s) = Len(t) /\ \A k \in 1..Len(s) : s[k] = t[k]
        BY <1>1, <1>3, <2>1, <2>2, <2>3
  <2> QED BY <2>1, <2>3, <2>4, SeqEqual
<1> QED BY <1>1, <1>2, <1>3

(* Encoded fields are bytes.                                                 *)
LEMMA EncodedTyped ==
  ASSUME NEW fields \in Seq(Kinds), NEW values, Filling(fields, values)
  PROVE  Encoded(fields, values) \in Seq(Byte)
<1>n. PICK n \in Nat : n = Len(fields)
      OBVIOUS
<1>1. ASSUME NEW k \in 1..n PROVE Bytes(fields[k], values[k]) \in Seq(Byte)
  <2>1. fields[k] \in Kinds /\ values[k] \in Encodable(fields[k])
        BY <1>n DEF Filling
  <2> QED BY <2>1, FieldBytes
<1>2. PICK seqs : seqs = [k \in 1..n |-> Bytes(fields[k], values[k])]
      OBVIOUS
<1>3. seqs \in Seq(Seq(Byte))
      BY <1>1, <1>2
<1>4. Encoded(fields, values) = FlattenSeq(seqs)
      BY <1>n, <1>2, SMTT(20) DEF Encoded
<1> QED BY <1>3, <1>4, FlattenLays

(* Values that fill the fields fill those of the head and those of the tail. *)
LEMMA FillingParts ==
  ASSUME NEW head \in Seq(Kinds), NEW tail \in Seq(Kinds),
         NEW values, Filling(head \o tail, values),
         NEW S, values \in Seq(S), Len(values) = Len(head) + Len(tail)
  PROVE  /\ Filling(head, SubSeq(values, 1, Len(head)))
         /\ Filling(tail, SubSeq(values, Len(head) + 1, Len(values)))
<1>n. PICK n \in Nat, m \in Nat : n = Len(head) /\ m = Len(tail)
      OBVIOUS
<1>1. PICK first : first = SubSeq(values, 1, n)
      OBVIOUS
<1>2. PICK rest : rest = SubSeq(values, n + 1, n + m)
      OBVIOUS
<1>3. \A k \in 1..n : first[k] = values[k]
      BY <1>n, <1>1
<1>4. \A k \in 1..m : rest[k] = values[n + k]
      BY <1>n, <1>2
<1>5. /\ \A k \in 1..n : k \in 1..Len(head \o tail) /\ (head \o tail)[k] = head[k]
      /\ \A k \in 1..m : n + k \in 1..Len(head \o tail) /\ (head \o tail)[n + k] = tail[k]
      BY <1>n
<1>6. Filling(head, first)
      BY <1>n, <1>3, <1>5 DEF Filling
<1>7. Filling(tail, rest)
      BY <1>n, <1>4, <1>5 DEF Filling
<1> QED BY <1>n, <1>1, <1>2, <1>6, <1>7

(* What encode writes in two parts is what the fields are encoded to.        *)
LEMMA EncodedParts ==
  ASSUME NEW head \in Seq(Kinds), NEW tail \in Seq(Kinds), Len(tail) <= 1,
         NEW values, Filling(head \o tail, values),
         NEW S, values \in Seq(S), Len(values) = Len(head) + Len(tail)
  PROVE  Encoded(head, SubSeq(values, 1, Len(head)))
           \o Encoded(tail, SubSeq(values, Len(head) + 1, Len(values)))
         = Encoded(head \o tail, values)
<1>n. PICK n \in Nat : n = Len(head)
      OBVIOUS
<1>1. PICK first : first = SubSeq(values, 1, n)
      OBVIOUS
<1>2. PICK rest : rest = SubSeq(values, n + 1, Len(values))
      OBVIOUS
<1>3. \A k \in 1..n : first[k] = values[k]
      BY <1>n, <1>1
<1>4. Encoded(head, first) = Encoded(head, values)
  <2>1. [k \in DOMAIN head |-> Bytes(head[k], first[k])] =
          [k \in DOMAIN head |-> Bytes(head[k], values[k])]
        BY <1>n, <1>3
  <2> QED BY <2>1 DEF Encoded
<1>5. CASE Len(tail) = 0
  <2>1. tail = <<>> /\ head \o tail = head
        BY <1>5, EmptySeq
  <2>2. PICK seqs : seqs = [k \in DOMAIN tail |-> Bytes(tail[k], rest[k])]
        OBVIOUS
  <2>3. seqs \in Seq(Seq(Byte)) /\ Len(seqs) = 0
        BY <1>5, <2>2
  <2>4. Encoded(tail, rest) = FlattenSeq(seqs) /\ seqs = <<>>
        BY <2>2, <2>3, NothingIsEmpty DEF Encoded
  <2>5. FlattenSeq(seqs) = <<>>
        BY <2>4, Zenon DEF FlattenSeq
  <2>6. /\ Filling(head, values)
        /\ Encoded(head, values) = FlattenSeq([k \in DOMAIN head |-> Bytes(head[k], values[k])])
        BY <2>1 DEF Encoded
  <2>7. Encoded(head, values) \in Seq(Byte)
    <3>1. ASSUME NEW k \in 1..n PROVE Bytes(head[k], values[k]) \in Seq(Byte)
      <4>1. head[k] \in Kinds /\ values[k] \in Encodable(head[k])
            BY <1>n, <2>6 DEF Filling
      <4> QED BY <4>1, FieldBytes
    <3>2. [k \in DOMAIN head |-> Bytes(head[k], values[k])] \in Seq(Seq(Byte))
          BY <1>n, <3>1
    <3> QED BY <2>6, <3>2, FlattenLays
  <2> QED BY <1>n, <1>1, <1>2, <1>4, <2>1, <2>4, <2>5, <2>7
<1>6. CASE Len(tail) = 1 /\ tail[1] \in Kinds /\ tail = <<tail[1]>>
  <2>1. PICK last \in Kinds : last = tail[1] /\ tail = <<last>>
        BY <1>6
  <2>2. head \o tail = Append(head, last)
        BY <2>1
  <2>3. Encoded(head \o tail, values) = Encoded(head, values) \o Bytes(last, values[n + 1])
        BY <1>n, <2>2, EncodedMore
  <2>4. rest[1] = values[n + 1]
        BY <1>n, <1>2, <1>6
  <2>5. Encoded(tail, rest) = Bytes(last, values[n + 1])
    <3>1. <<>> \in Seq(Kinds) /\ Len(<<>>) = 0 /\ tail = Append(<<>>, last)
          BY <2>1
    <3>2. last \in Kinds /\ values[n + 1] \in Encodable(last)
      <4>1. (head \o tail)[n + 1] = last /\ n + 1 \in 1..Len(head \o tail)
            BY <1>n, <2>1, <2>2
      <4> QED BY <4>1 DEF Filling
    <3>3. PICK b \in Seq(Byte) : b = Bytes(last, values[n + 1])
          BY <3>2, FieldBytes
    <3>4. /\ Filling(tail, rest)
          /\ Encoded(tail, rest) = FlattenSeq([k \in DOMAIN tail |-> Bytes(tail[k], rest[k])])
          BY <2>1, <2>4, <3>2 DEF Filling, Encoded
    <3>5. [k \in DOMAIN tail |-> Bytes(tail[k], rest[k])] = <<b>>
          BY <2>1, <2>4, <3>3
    <3>6. <<>> \in Seq(Seq(Byte)) /\ <<b>> = Append(<<>>, b)
          BY <3>3
    <3>7. FlattenSeq(<<b>>) = FlattenSeq(<<>>) \o b
          BY <3>3, <3>6, FlattenAppend
    <3>8. FlattenSeq(<<>>) = <<>>
          BY Zenon DEF FlattenSeq
    <3>9. <<>> \o b = b
          BY <3>3
    <3> QED BY <3>3, <3>4, <3>5, <3>7, <3>8, <3>9
  <2> QED BY <1>n, <1>1, <1>2, <1>4, <2>3, <2>5
<1> QED BY <1>5, <1>6, AtMostOne

(**************************** The table of types *****************************)

(* What is wanted of a row of the table, with the fields f, whose encode     *)
(* tests for all of the numbers asks and whose getFromBuffer for all of      *)
(* needs.                                                                    *)

(* Where getFromBuffer reads the fields.                                     *)
ReadPlaces(row) == Places([k \in DOMAIN row.reads |-> row.reads[k][2]])

(* Misread, of a type.                                                       *)
MisreadOf(t) ==
  CASE t = "StepPositionWithCP24Time2a" -> {3}
    [] t = "FileLastSegmentOrSection" -> {4}
    [] t = "FileDirectory" -> {2}
    [] OTHER -> {}

(* At most one field, the time stamp, is added by the function of a type to  *)
(* what its base type wrote.                                                 *)
RowTyped(row) ==
  /\ row.head \in Seq(Kinds) /\ row.tail \in Seq(Kinds) /\ Len(row.tail) <= 1
  /\ row.sequence \in BOOLEAN /\ row.result \in BOOLEAN

(* The base type asks for no more than its caller did before.                *)
BaseFits(row) ==
  row.inner \subseteq Nat /\ \A m \in row.inner : \E n \in row.asks : m <= n

(* getFromBuffer reads every field, and where it lies, but for those that    *)
(* are misread.                                                              *)
ReadsRow(row, f, misread) ==
  /\ DOMAIN row.reads = 1..Len(f)
  /\ \A k \in 1..Len(f) : row.reads[k][1] = f[k]
  /\ \A k \in 1..Len(f) :
       k \notin misread => f[k] # "lostLof" /\ ReadPlaces(row)[k] = Places(Widths(f))[k]

(* Only a file segment has a segment, as its last field.                     *)
Segments(t, f) ==
  /\ \A k \in 1..Len(f) : f[k] = "segment" => t = "FileSegment"
  /\ t = "FileSegment" => f = <<"nof", "byte", "segment">> /\ Layout[t].sequence = FALSE

(* The test of encode: it asks for all that is written, and for no more.     *)
Asks(t, asks, size) ==
  /\ asks \subseteq Nat
  /\ t \notin AskForTooLittle => \E n \in asks : size <= n
  /\ t \notin RefusedWithRoomLeft => \A n \in asks : n <= size

(* The test of getFromBuffer: it demands no more than a field list has, in a *)
(* sequence even with an address, which is at most three bytes.              *)
Needs(t, needs, size) ==
  /\ needs \subseteq Nat
  /\ \A n \in needs :
       /\ t # "FileSegment" => n <= size
       /\ Layout[t].sequence => n + 3 <= 2 * size
       /\ Layout[t].sequence /\ t \notin DemandAddressInSequence => n + 3 <= size

(* What encode returns after it has written the object.                      *)
Result(t, result) == result = (t # "StepPositionWithCP56Time2a")

(* A sound row.                                                              *)
Known(t) ==
  /\ RowTyped(Layout[t]) /\ BaseFits(Layout[t])
  /\ ReadsRow(Layout[t], FieldsOf(t), MisreadOf(t)) /\ Segments(t, FieldsOf(t))
  /\ Asks(t, Layout[t].asks, SizeOf(FieldsOf(t)))
  /\ Needs(t, Layout[t].needs, SizeOf(FieldsOf(t)))
  /\ Result(t, Layout[t].result)

(* Rows of types without a base type, and with one.                          *)
Plain(row, f, asks, needs, sequence) ==
  /\ row.head = f /\ row.tail = <<>> /\ row.asks = {asks} /\ row.inner = {}
  /\ row.result = TRUE /\ row.needs = needs /\ row.reads = Reads(f) /\ row.sequence = sequence

Timed(row, f, time, base, asks, needs, sequence) ==
  /\ row.head = f /\ row.tail = <<time>> /\ row.asks = {asks} /\ row.inner = {base}
  /\ row.result = TRUE /\ row.needs = needs /\ row.sequence = sequence
  /\ row.reads = Append(Reads(f), <<time, Width[time]>>)

(* The size of an object of a base type with its time stamp.                 *)
LongerBy(f, time, size) ==
  /\ f \in Seq(Kinds) /\ time \in {"cp24", "cp56"} /\ size = SizeOf(f) + Width[time]

Within(base, asks) == base \in Nat /\ asks \in Nat /\ base <= asks

(* Neither a segment nor the length of a file that create leaves out.        *)
NoOdd(f) == \A k \in 1..Len(f) : f[k] # "segment" /\ f[k] # "lostLof"

(* One more field makes an object larger by its width.                       *)
LEMMA SizeOfMore ==
  ASSUME NEW f \in Seq(Kinds), NEW x \in Kinds
  PROVE  SizeOf(Append(f, x)) = SizeOf(f) + Width[x]
<1>n. PICK n \in Nat : n = Len(f)
      OBVIOUS
<1>1. PICK all : all = Append(f, x)
      OBVIOUS
<1>2. all \in Seq(Kinds) /\ Len(all) = n + 1 /\ all[n + 1] = x /\ \A k \in 1..n : all[k] = f[k]
      BY <1>n, <1>1
<1>3. PICK w \in Seq(Nat) :
        /\ w = Widths(f) /\ Len(w) = n /\ \A k \in 1..n : w[k] = Width[f[k]]
        /\ SizeOf(f) = Places(w)[n + 1]
      BY <1>n, WidthsType
<1>4. PICK v \in Seq(Nat) :
        /\ v = Widths(all) /\ Len(v) = n + 1 /\ \A k \in 1..(n + 1) : v[k] = Width[all[k]]
        /\ SizeOf(all) = Places(v)[(n + 1) + 1]
      BY <1>2, WidthsType
<1>5. \A k \in 1..n : v[k] = w[k]
      BY <1>2, <1>3, <1>4
<1>6. \A k \in 1..(n + 1) : Places(v)[k] = Places(w)[k]
  <2>1. n <= Len(v) /\ n <= Len(w)
        BY <1>3, <1>4
  <2> QED BY <1>5, <2>1, PlacesAgree
<1>7. Places(v)[(n + 1) + 1] = Places(v)[n + 1] + v[n + 1]
  <2>1. n + 1 \in 1..Len(v)
        BY <1>4
  <2> QED BY <2>1, PlacesProperties
<1>8. Places(v)[n + 1] = Places(w)[n + 1] /\ v[n + 1] = Width[x]
      BY <1>2, <1>4, <1>6
<1> QED BY <1>1, <1>3, <1>4, <1>7, <1>8

(* Reads describes a getFromBuffer that reads every field with its own       *)
(* width.                                                                    *)
LEMMA ReadsType ==
  ASSUME NEW f \in Seq(Kinds)
  PROVE  /\ DOMAIN Reads(f) = 1..Len(f)
         /\ \A k \in 1..Len(f) : Reads(f)[k][1] = f[k] /\ Reads(f)[k][2] = Width[f[k]]
         /\ [k \in DOMAIN Reads(f) |-> Reads(f)[k][2]] = Widths(f)
<1>1. DOMAIN f = 1..Len(f)
      OBVIOUS
<1> QED BY <1>1 DEF Reads, Widths

(* Such a getFromBuffer reads every field where the encode function put it.  *)
LEMMA PlainReads ==
  ASSUME NEW f \in Seq(Kinds), NoOdd(f), NEW row, row.reads = Reads(f), NEW misread
  PROVE  ReadsRow(row, f, misread)
<1>1. ReadPlaces(row) = Places(Widths(f))
      BY ReadsType DEF ReadPlaces
<1> QED BY <1>1, ReadsType DEF ReadsRow, NoOdd

(* A row is sound if its functions write and read the same fields and test   *)
(* for their size.                                                           *)
LEMMA PlainKnown ==
  ASSUME NEW t, NEW f \in Seq(Kinds), NoOdd(f), NEW asks \in Nat, NEW needs, NEW size, size = SizeOf(f),
         NEW sequence \in BOOLEAN, Plain(Layout[t], f, asks, needs, sequence),
         t \notin {"StepPositionWithCP56Time2a", "FileSegment"},
         Asks(t, {asks}, size), Needs(t, needs, size)
  PROVE  Known(t)
<1>1. PICK row : row = Layout[t]
      OBVIOUS
<1>2. Plain(row, f, asks, needs, sequence)
      BY <1>1
<1>3. FieldsOf(t) = f
      BY <1>1, <1>2 DEF FieldsOf, Plain
<1>4. RowTyped(row) /\ BaseFits(row)
  <2>1. <<>> \in Seq(Kinds) /\ Len(<<>>) = 0
        BY EmptySeq
  <2>2. /\ row.head = f /\ row.tail = <<>> /\ row.asks = {asks} /\ row.inner = {}
        /\ row.result = TRUE /\ row.needs = needs /\ row.sequence = sequence
        BY <1>2 DEF Plain
  <2>3. row.head \in Seq(Kinds) /\ row.tail \in Seq(Kinds) /\ Len(row.tail) <= 1
        BY <2>1, <2>2
  <2>5. row.sequence \in BOOLEAN /\ row.result \in BOOLEAN
        BY <2>2
  <2> QED BY <2>2, <2>3, <2>5 DEF RowTyped, BaseFits
<1>5. ReadsRow(row, f, MisreadOf(t))
      BY <1>2, PlainReads DEF Plain
<1>6. Segments(t, f)
      BY DEF Segments, NoOdd
<1>7. Asks(t, row.asks, SizeOf(f)) /\ Needs(t, row.needs, SizeOf(f)) /\ row.result = TRUE
      BY <1>2 DEF Plain
<1> QED BY <1>1, <1>3, <1>4, <1>5, <1>6, <1>7 DEF Known, Result

(* A row is sound if it writes a base type and then a time stamp, and tests  *)
(* for no less than the base and for no more than both.                      *)
LEMMA TimedKnown ==
  ASSUME NEW t, NEW f, NEW time, NEW size, LongerBy(f, time, size), NoOdd(f),
         NEW base, NEW asks, Within(base, asks), NEW needs, NEW sequence \in BOOLEAN,
         Timed(Layout[t], f, time, base, asks, needs, sequence),
         t \notin {"StepPositionWithCP56Time2a", "FileSegment"},
         Asks(t, {asks}, size), Needs(t, needs, size)
  PROVE  Known(t)
<1>1. PICK row : row = Layout[t]
      OBVIOUS
<1>2. Timed(row, f, time, base, asks, needs, sequence)
      BY <1>1
<1>d. f \in Seq(Kinds) /\ time \in {"cp24", "cp56"} /\ size = SizeOf(f) + Width[time]
      BY DEF LongerBy
<1>a. time \in Kinds /\ time # "segment" /\ time # "lostLof"
      BY <1>d, KindsAre
<1>n. PICK n \in Nat : n = Len(f)
      BY <1>d
<1>3. PICK all : all = Append(f, time)
      OBVIOUS
<1>b. /\ all \in Seq(Kinds) /\ Len(all) = n + 1 /\ all[n + 1] = time
      /\ \A k \in 1..n : all[k] = f[k]
      BY <1>a, <1>d, <1>n, <1>3
<1>4. FieldsOf(t) = all /\ SizeOf(all) = SizeOf(f) + Width[time]
  <2>1. f \o <<time>> = Append(f, time)
        BY <1>a, <1>d
  <2> QED BY <1>1, <1>2, <1>3, <1>a, <1>d, <2>1, SizeOfMore DEF FieldsOf, Timed
<1>5. RowTyped(row) /\ BaseFits(row)
  <2>1. <<time>> \in Seq(Kinds) /\ Len(<<time>>) = 1
        BY <1>a
  <2>2. /\ row.head = f /\ row.tail = <<time>> /\ row.asks = {asks} /\ row.inner = {base}
        /\ row.result = TRUE /\ row.needs = needs /\ row.sequence = sequence
        /\ base \in Nat /\ asks \in Nat /\ base <= asks
        BY <1>2 DEF Timed, Within
  <2>3. row.head \in Seq(Kinds) /\ row.tail \in Seq(Kinds) /\ Len(row.tail) <= 1
        BY <1>d, <2>1, <2>2
  <2>5. row.sequence \in BOOLEAN /\ row.result \in BOOLEAN
        BY <2>2
  <2>6. BaseFits(row)
        BY <2>2 DEF BaseFits
  <2> QED BY <2>3, <2>5, <2>6 DEF RowTyped
<1>6. NoOdd(all)
  <2>1. ASSUME NEW k \in 1..(n + 1) PROVE all[k] # "segment" /\ all[k] # "lostLof"
    <3>1. k \in 1..n \/ k = n + 1
          OBVIOUS
    <3> QED BY <1>a, <1>b, <1>n, <3>1 DEF NoOdd
  <2> QED BY <1>b, <2>1 DEF NoOdd
<1>7. Reads(all) = Append(Reads(f), <<time, Width[time]>>)
  <2>1. PICK r : r = Reads(f)
        OBVIOUS
  <2>2. r = [k \in 1..n |-> <<f[k], Width[f[k]]>>]
        BY <1>n, <2>1 DEF Reads
  <2>3. PICK s : s = [k \in 1..(n + 1) |-> <<all[k], Width[all[k]]>>]
        OBVIOUS
  <2>4. Reads(all) = s
        BY <1>b, <2>3 DEF Reads
  <2>5. Append(r, <<time, Width[time]>>) = s
    <3>1. \A k \in 1..n : s[k] = r[k]
          BY <1>b, <2>2, <2>3
    <3>2. s[n + 1] = <<time, Width[time]>>
          BY <1>b, <2>3
    <3> DEFINE D == Kinds \X Nat
    <3>3. \A k \in 1..(n + 1) : s[k] \in D
      <4>1. ASSUME NEW k \in 1..(n + 1) PROVE s[k] \in D
        <5>1. all[k] \in Kinds
              BY <1>b
        <5>2. Width[all[k]] \in 1..7
              BY <5>1, WidthOf
        <5> QED BY <2>3, <5>1, <5>2
      <4> QED BY <4>1
    <3> HIDE DEF D
    <3>4. s \in Seq(D) /\ Len(s) = n + 1 /\ s[n + 1] \in D
          BY <2>3, <3>3
    <3>5. r \in Seq(D) /\ Len(r) = n
      <4>1. ASSUME NEW k \in 1..n PROVE r[k] \in D
        <5>1. k \in 1..(n + 1)
              OBVIOUS
        <5> QED BY <3>1, <3>3, <5>1
      <4> QED BY <2>2, <4>1
    <3>6. PICK q : q = Append(r, s[n + 1])
          OBVIOUS
    <3>7. q \in Seq(D) /\ Len(q) = n + 1 /\ q[n + 1] = s[n + 1] /\ \A k \in 1..n : q[k] = r[k]
      <4>1. PICK x \in D : x = s[n + 1]
            BY <3>4
      <4> QED BY <3>5, <3>6, <4>1
    <3>8. ASSUME NEW k \in 1..(n + 1) PROVE q[k] = s[k]
      <4>1. k \in 1..n \/ k = n + 1
            OBVIOUS
      <4> QED BY <3>1, <3>7, <4>1
    <3>9. q = s
          BY <3>4, <3>7, <3>8, SeqEqual
    <3> QED BY <3>2, <3>6, <3>9
  <2> QED BY <2>1, <2>4, <2>5
<1>8. ReadsRow(row, all, MisreadOf(t))
      BY <1>2, <1>b, <1>6, <1>7, PlainReads DEF Timed
<1>9. Segments(t, all)
      BY <1>6 DEF Segments, NoOdd
<1>10. Asks(t, row.asks, SizeOf(all)) /\ Needs(t, row.needs, SizeOf(all)) /\ row.result = TRUE
       BY <1>2, <1>4, <1>d DEF Timed
<1> QED BY <1>1, <1>4, <1>5, <1>8, <1>9, <1>10 DEF Known, Result

(* Fields of one row after the other, and their length.                      *)
Regular(f, size) == f \in Seq(Kinds) /\ NoOdd(f) /\ SizeOf(f) = size

(* Sizes of the objects of the types, time stamps included.                  *)
LEMMA FieldSizes ==
  /\ Regular(<<"siq">>, 1)
  /\ Regular(<<"siq", "cp24">>, 4)
  /\ Regular(<<"siq", "cp56">>, 8)
  /\ Regular(<<"diq">>, 1)
  /\ Regular(<<"diq", "cp24">>, 4)
  /\ Regular(<<"diq", "cp56">>, 8)
  /\ Regular(<<"vti", "byte">>, 2)
  /\ Regular(<<"bsi", "noQuality">>, 5)
  /\ Regular(<<"bsi", "noQuality", "cp24">>, 8)
  /\ Regular(<<"bsi", "noQuality", "cp56">>, 12)
  /\ Regular(<<"nva", "byte">>, 3)
  /\ Regular(<<"nvb">>, 2)
  /\ Regular(<<"sva", "byte">>, 3)
  /\ Regular(<<"r32", "byte">>, 5)
  /\ Regular(<<"bcr">>, 5)
  /\ Regular(<<"byte", "cp16", "cp24">>, 6)
  /\ Regular(<<"byte", "cp16", "cp56">>, 10)
  /\ Regular(<<"byte", "byte", "cp16", "cp24">>, 7)
  /\ Regular(<<"byte", "byte", "cp16", "cp56">>, 11)
  /\ Regular(<<"sco">>, 1)
  /\ Regular(<<"dco">>, 1)
  /\ Regular(<<"sva", "qos">>, 3)
  /\ Regular(<<"r32", "qos">>, 5)
  /\ Regular(<<"r32">>, 4)
  /\ Regular(<<"cp56">>, 7)
  /\ Regular(<<"byte">>, 1)
  /\ Regular(<<"testPattern">>, 2)
  /\ Regular(<<"cp16">>, 2)
  /\ Regular(<<"nof", "lof", "byte">>, 6)
  /\ Regular(<<"nof", "byte", "lof", "byte">>, 7)
  /\ Regular(<<"nof", "byte", "byte">>, 4)
  /\ Regular(<<"vti", "byte", "cp24">>, 5)
  /\ Regular(<<"vti", "byte", "cp56">>, 9)
  /\ Regular(<<"nof", "byte", "byte", "byte">>, 5)
  /\ Regular(<<>>, 0)
<1>0. {"bcr", "bsi", "byte", "cp16", "cp24", "cp56", "dco", "diq", "lof", "noQuality", "nof",
       "nva", "nvb", "qos", "r32", "sco", "siq", "sva", "testPattern", "vti"} \subseteq Kinds
      BY KindsAre
<1>1. Regular(<<"siq">>, 1)
  <2>1. SizeOf(<<"siq">>) = 1
        BY <1>0, SizeOfFields, WidthIs
  <2> QED BY <1>0, <2>1 DEF Regular, NoOdd
<1>2. Regular(<<"siq", "cp24">>, 4)
  <2>1. SizeOf(<<"siq", "cp24">>) = 4
        BY <1>0, SizeOfFields, WidthIs
  <2> QED BY <1>0, <2>1 DEF Regular, NoOdd
<1>3. Regular(<<"siq", "cp56">>, 8)
  <2>1. SizeOf(<<"siq", "cp56">>) = 8
        BY <1>0, SizeOfFields, WidthIs
  <2> QED BY <1>0, <2>1 DEF Regular, NoOdd
<1>4. Regular(<<"diq">>, 1)
  <2>1. SizeOf(<<"diq">>) = 1
        BY <1>0, SizeOfFields, WidthIs
  <2> QED BY <1>0, <2>1 DEF Regular, NoOdd
<1>5. Regular(<<"diq", "cp24">>, 4)
  <2>1. SizeOf(<<"diq", "cp24">>) = 4
        BY <1>0, SizeOfFields, WidthIs
  <2> QED BY <1>0, <2>1 DEF Regular, NoOdd
<1>6. Regular(<<"diq", "cp56">>, 8)
  <2>1. SizeOf(<<"diq", "cp56">>) = 8
        BY <1>0, SizeOfFields, WidthIs
  <2> QED BY <1>0, <2>1 DEF Regular, NoOdd
<1>7. Regular(<<"vti", "byte">>, 2)
  <2>1. SizeOf(<<"vti", "byte">>) = 2
        BY <1>0, SizeOfFields, WidthIs
  <2> QED BY <1>0, <2>1 DEF Regular, NoOdd
<1>8. Regular(<<"bsi", "noQuality">>, 5)
  <2>1. SizeOf(<<"bsi", "noQuality">>) = 5
        BY <1>0, SizeOfFields, WidthIs
  <2> QED BY <1>0, <2>1 DEF Regular, NoOdd
<1>9. Regular(<<"bsi", "noQuality", "cp24">>, 8)
  <2>1. SizeOf(<<"bsi", "noQuality", "cp24">>) = 8
        BY <1>0, SizeOfFields, WidthIs
  <2> QED BY <1>0, <2>1 DEF Regular, NoOdd
<1>10. Regular(<<"bsi", "noQuality", "cp56">>, 12)
  <2>1. SizeOf(<<"bsi", "noQuality", "cp56">>) = 12
        BY <1>0, SizeOfFields, WidthIs
  <2> QED BY <1>0, <2>1 DEF Regular, NoOdd
<1>11. Regular(<<"nva", "byte">>, 3)
  <2>1. SizeOf(<<"nva", "byte">>) = 3
        BY <1>0, SizeOfFields, WidthIs
  <2> QED BY <1>0, <2>1 DEF Regular, NoOdd
<1>12. Regular(<<"nvb">>, 2)
  <2>1. SizeOf(<<"nvb">>) = 2
        BY <1>0, SizeOfFields, WidthIs
  <2> QED BY <1>0, <2>1 DEF Regular, NoOdd
<1>13. Regular(<<"sva", "byte">>, 3)
  <2>1. SizeOf(<<"sva", "byte">>) = 3
        BY <1>0, SizeOfFields, WidthIs
  <2> QED BY <1>0, <2>1 DEF Regular, NoOdd
<1>14. Regular(<<"r32", "byte">>, 5)
  <2>1. SizeOf(<<"r32", "byte">>) = 5
        BY <1>0, SizeOfFields, WidthIs
  <2> QED BY <1>0, <2>1 DEF Regular, NoOdd
<1>15. Regular(<<"bcr">>, 5)
  <2>1. SizeOf(<<"bcr">>) = 5
        BY <1>0, SizeOfFields, WidthIs
  <2> QED BY <1>0, <2>1 DEF Regular, NoOdd
<1>16. Regular(<<"byte", "cp16", "cp24">>, 6)
  <2>1. SizeOf(<<"byte", "cp16", "cp24">>) = 6
        BY <1>0, SizeOfFields, WidthIs
  <2> QED BY <1>0, <2>1 DEF Regular, NoOdd
<1>17. Regular(<<"byte", "cp16", "cp56">>, 10)
  <2>1. SizeOf(<<"byte", "cp16", "cp56">>) = 10
        BY <1>0, SizeOfFields, WidthIs
  <2> QED BY <1>0, <2>1 DEF Regular, NoOdd
<1>18. Regular(<<"byte", "byte", "cp16", "cp24">>, 7)
  <2>1. SizeOf(<<"byte", "byte", "cp16", "cp24">>) = 7
        BY <1>0, SizeOfFields, WidthIs
  <2> QED BY <1>0, <2>1 DEF Regular, NoOdd
<1>19. Regular(<<"byte", "byte", "cp16", "cp56">>, 11)
  <2>1. SizeOf(<<"byte", "byte", "cp16", "cp56">>) = 11
        BY <1>0, SizeOfFields, WidthIs
  <2> QED BY <1>0, <2>1 DEF Regular, NoOdd
<1>20. Regular(<<"sco">>, 1)
  <2>1. SizeOf(<<"sco">>) = 1
        BY <1>0, SizeOfFields, WidthIs
  <2> QED BY <1>0, <2>1 DEF Regular, NoOdd
<1>21. Regular(<<"dco">>, 1)
  <2>1. SizeOf(<<"dco">>) = 1
        BY <1>0, SizeOfFields, WidthIs
  <2> QED BY <1>0, <2>1 DEF Regular, NoOdd
<1>22. Regular(<<"sva", "qos">>, 3)
  <2>1. SizeOf(<<"sva", "qos">>) = 3
        BY <1>0, SizeOfFields, WidthIs
  <2> QED BY <1>0, <2>1 DEF Regular, NoOdd
<1>23. Regular(<<"r32", "qos">>, 5)
  <2>1. SizeOf(<<"r32", "qos">>) = 5
        BY <1>0, SizeOfFields, WidthIs
  <2> QED BY <1>0, <2>1 DEF Regular, NoOdd
<1>24. Regular(<<"r32">>, 4)
  <2>1. SizeOf(<<"r32">>) = 4
        BY <1>0, SizeOfFields, WidthIs
  <2> QED BY <1>0, <2>1 DEF Regular, NoOdd
<1>25. Regular(<<"cp56">>, 7)
  <2>1. SizeOf(<<"cp56">>) = 7
        BY <1>0, SizeOfFields, WidthIs
  <2> QED BY <1>0, <2>1 DEF Regular, NoOdd
<1>26. Regular(<<"byte">>, 1)
  <2>1. SizeOf(<<"byte">>) = 1
        BY <1>0, SizeOfFields, WidthIs
  <2> QED BY <1>0, <2>1 DEF Regular, NoOdd
<1>27. Regular(<<"testPattern">>, 2)
  <2>1. SizeOf(<<"testPattern">>) = 2
        BY <1>0, SizeOfFields, WidthIs
  <2> QED BY <1>0, <2>1 DEF Regular, NoOdd
<1>28. Regular(<<"cp16">>, 2)
  <2>1. SizeOf(<<"cp16">>) = 2
        BY <1>0, SizeOfFields, WidthIs
  <2> QED BY <1>0, <2>1 DEF Regular, NoOdd
<1>29. Regular(<<"nof", "lof", "byte">>, 6)
  <2>1. SizeOf(<<"nof", "lof", "byte">>) = 6
        BY <1>0, SizeOfFields, WidthIs
  <2> QED BY <1>0, <2>1 DEF Regular, NoOdd
<1>30. Regular(<<"nof", "byte", "lof", "byte">>, 7)
  <2>1. SizeOf(<<"nof", "byte", "lof", "byte">>) = 7
        BY <1>0, SizeOfFields, WidthIs
  <2> QED BY <1>0, <2>1 DEF Regular, NoOdd
<1>31. Regular(<<"nof", "byte", "byte">>, 4)
  <2>1. SizeOf(<<"nof", "byte", "byte">>) = 4
        BY <1>0, SizeOfFields, WidthIs
  <2> QED BY <1>0, <2>1 DEF Regular, NoOdd
<1>32. Regular(<<"vti", "byte", "cp24">>, 5)
  <2>1. SizeOf(<<"vti", "byte", "cp24">>) = 5
        BY <1>0, SizeOfFields, WidthIs
  <2> QED BY <1>0, <2>1 DEF Regular, NoOdd
<1>33. Regular(<<"vti", "byte", "cp56">>, 9)
  <2>1. SizeOf(<<"vti", "byte", "cp56">>) = 9
        BY <1>0, SizeOfFields, WidthIs
  <2> QED BY <1>0, <2>1 DEF Regular, NoOdd
<1>34. Regular(<<"nof", "byte", "byte", "byte">>, 5)
  <2>1. SizeOf(<<"nof", "byte", "byte", "byte">>) = 5
        BY <1>0, SizeOfFields, WidthIs
  <2> QED BY <1>0, <2>1 DEF Regular, NoOdd
<1>35. Regular(<<>>, 0)
  <2>1. SizeOf(<<>>) = 0
        BY <1>0, SizeOfFields, WidthIs
  <2> QED BY <2>1, EmptySeq DEF Regular, NoOdd
<1> QED BY <1>1, <1>2, <1>3, <1>4, <1>5, <1>6, <1>7, <1>8, <1>9, <1>10, <1>11, <1>12,
           <1>13, <1>14, <1>15, <1>16, <1>17, <1>18, <1>19, <1>20, <1>21, <1>22, <1>23,
           <1>24, <1>25, <1>26, <1>27, <1>28, <1>29, <1>30, <1>31, <1>32, <1>33, <1>34,
           <1>35

(* The rows of single points, double points, step positions and bit strings  *)
(* and of some measured values.                                              *)
LEMMA MonitorRows ==
  /\ Known("SinglePointInformation")
  /\ Known("SinglePointWithCP24Time2a")
  /\ Known("SinglePointWithCP56Time2a")
  /\ Known("DoublePointInformation")
  /\ Known("DoublePointWithCP24Time2a")
  /\ Known("DoublePointWithCP56Time2a")
  /\ Known("StepPositionInformation")
  /\ Known("BitString32")
  /\ Known("Bitstring32WithCP24Time2a")
  /\ Known("Bitstring32WithCP56Time2a")
  /\ Known("MeasuredValueNormalized")
  /\ Known("MeasuredValueNormalizedWithoutQuality")
  /\ Known("MeasuredValueNormalizedWithCP24Time2a")
  /\ Known("MeasuredValueNormalizedWithCP56Time2a")
  /\ Known("MeasuredValueScaled")
  /\ Known("MeasuredValueScaledWithCP24Time2a")
  /\ Known("MeasuredValueScaledWithCP56Time2a")
  /\ Known("MeasuredValueShort")
<1>1. Known("SinglePointInformation")
  <2>1. Plain(Layout["SinglePointInformation"], <<"siq">>, 1, {}, TRUE)
        BY DEF Plain, Layout, SinglePointInformation, Monitor
  <2>2. Asks("SinglePointInformation", {1}, 1) /\ Needs("SinglePointInformation", {}, 1)
        BY <2>1 DEF Plain, Asks, Needs, AskForTooLittle, RefusedWithRoomLeft,
                    DemandAddressInSequence
  <2>3. <<"siq">> \in Seq(Kinds) /\ NoOdd(<<"siq">>) /\ SizeOf(<<"siq">>) = 1
        BY FieldSizes DEF Regular
  <2> QED BY <2>1, <2>2, <2>3, PlainKnown
<1>2. Known("SinglePointWithCP24Time2a")
  <2>1. Plain(Layout["SinglePointWithCP24Time2a"], <<"siq", "cp24">>, 4, {}, TRUE)
        BY DEF Plain, Layout, SinglePointWithCP24Time2a, Monitor
  <2>2. Asks("SinglePointWithCP24Time2a", {4}, 4) /\ Needs("SinglePointWithCP24Time2a", {}, 4)
        BY <2>1 DEF Plain, Asks, Needs, AskForTooLittle, RefusedWithRoomLeft,
                    DemandAddressInSequence
  <2>3. /\ <<"siq", "cp24">> \in Seq(Kinds)
        /\ NoOdd(<<"siq", "cp24">>)
        /\ SizeOf(<<"siq", "cp24">>) = 4
        BY FieldSizes DEF Regular
  <2> QED BY <2>1, <2>2, <2>3, PlainKnown
<1>3. Known("SinglePointWithCP56Time2a")
  <2>1. Plain(Layout["SinglePointWithCP56Time2a"], <<"siq", "cp56">>, 8, {}, TRUE)
        BY DEF Plain, Layout, SinglePointWithCP56Time2a, Monitor
  <2>2. Asks("SinglePointWithCP56Time2a", {8}, 8) /\ Needs("SinglePointWithCP56Time2a", {}, 8)
        BY <2>1 DEF Plain, Asks, Needs, AskForTooLittle, RefusedWithRoomLeft,
                    DemandAddressInSequence
  <2>3. /\ <<"siq", "cp56">> \in Seq(Kinds)
        /\ NoOdd(<<"siq", "cp56">>)
        /\ SizeOf(<<"siq", "cp56">>) = 8
        BY FieldSizes DEF Regular
  <2> QED BY <2>1, <2>2, <2>3, PlainKnown
<1>4. Known("DoublePointInformation")
  <2>1. Plain(Layout["DoublePointInformation"], <<"diq">>, 1, {}, TRUE)
        BY DEF Plain, Layout, DoublePointInformation, Monitor
  <2>2. Asks("DoublePointInformation", {1}, 1) /\ Needs("DoublePointInformation", {}, 1)
        BY <2>1 DEF Plain, Asks, Needs, AskForTooLittle, RefusedWithRoomLeft,
                    DemandAddressInSequence
  <2>3. <<"diq">> \in Seq(Kinds) /\ NoOdd(<<"diq">>) /\ SizeOf(<<"diq">>) = 1
        BY FieldSizes DEF Regular
  <2> QED BY <2>1, <2>2, <2>3, PlainKnown
<1>5. Known("DoublePointWithCP24Time2a")
  <2>1. Plain(Layout["DoublePointWithCP24Time2a"], <<"diq", "cp24">>, 4, {}, TRUE)
        BY DEF Plain, Layout, DoublePointWithCP24Time2a, Monitor
  <2>2. Asks("DoublePointWithCP24Time2a", {4}, 4) /\ Needs("DoublePointWithCP24Time2a", {}, 4)
        BY <2>1 DEF Plain, Asks, Needs, AskForTooLittle, RefusedWithRoomLeft,
                    DemandAddressInSequence
  <2>3. /\ <<"diq", "cp24">> \in Seq(Kinds)
        /\ NoOdd(<<"diq", "cp24">>)
        /\ SizeOf(<<"diq", "cp24">>) = 4
        BY FieldSizes DEF Regular
  <2> QED BY <2>1, <2>2, <2>3, PlainKnown
<1>6. Known("DoublePointWithCP56Time2a")
  <2>1. Plain(Layout["DoublePointWithCP56Time2a"], <<"diq", "cp56">>, 8, {}, TRUE)
        BY DEF Plain, Layout, DoublePointWithCP56Time2a, Monitor
  <2>2. Asks("DoublePointWithCP56Time2a", {8}, 8) /\ Needs("DoublePointWithCP56Time2a", {}, 8)
        BY <2>1 DEF Plain, Asks, Needs, AskForTooLittle, RefusedWithRoomLeft,
                    DemandAddressInSequence
  <2>3. /\ <<"diq", "cp56">> \in Seq(Kinds)
        /\ NoOdd(<<"diq", "cp56">>)
        /\ SizeOf(<<"diq", "cp56">>) = 8
        BY FieldSizes DEF Regular
  <2> QED BY <2>1, <2>2, <2>3, PlainKnown
<1>7. Known("StepPositionInformation")
  <2>1. Plain(Layout["StepPositionInformation"], <<"vti", "byte">>, 2, {}, TRUE)
        BY DEF Plain, Layout, StepPositionInformation, Monitor
  <2>2. Asks("StepPositionInformation", {2}, 2) /\ Needs("StepPositionInformation", {}, 2)
        BY <2>1 DEF Plain, Asks, Needs, AskForTooLittle, RefusedWithRoomLeft,
                    DemandAddressInSequence
  <2>3. /\ <<"vti", "byte">> \in Seq(Kinds)
        /\ NoOdd(<<"vti", "byte">>)
        /\ SizeOf(<<"vti", "byte">>) = 2
        BY FieldSizes DEF Regular
  <2> QED BY <2>1, <2>2, <2>3, PlainKnown
<1>8. Known("BitString32")
  <2>1. Plain(Layout["BitString32"], <<"bsi", "noQuality">>, 5, {}, TRUE)
        BY DEF Plain, Layout, BitString32, Monitor
  <2>2. Asks("BitString32", {5}, 5) /\ Needs("BitString32", {}, 5)
        BY <2>1 DEF Plain, Asks, Needs, AskForTooLittle, RefusedWithRoomLeft,
                    DemandAddressInSequence
  <2>3. /\ <<"bsi", "noQuality">> \in Seq(Kinds)
        /\ NoOdd(<<"bsi", "noQuality">>)
        /\ SizeOf(<<"bsi", "noQuality">>) = 5
        BY FieldSizes DEF Regular
  <2> QED BY <2>1, <2>2, <2>3, PlainKnown
<1>9. Known("Bitstring32WithCP24Time2a")
  <2>1. Plain(Layout["Bitstring32WithCP24Time2a"],
                <<"bsi", "noQuality", "cp24">>, 8, {}, TRUE)
        BY DEF Plain, Layout, Bitstring32WithCP24Time2a, Monitor
  <2>2. Asks("Bitstring32WithCP24Time2a", {8}, 8) /\ Needs("Bitstring32WithCP24Time2a", {}, 8)
        BY <2>1 DEF Plain, Asks, Needs, AskForTooLittle, RefusedWithRoomLeft,
                    DemandAddressInSequence
  <2>3. /\ <<"bsi", "noQuality", "cp24">> \in Seq(Kinds)
        /\ NoOdd(<<"bsi", "noQuality", "cp24">>)
        /\ SizeOf(<<"bsi", "noQuality", "cp24">>) = 8
        BY FieldSizes DEF Regular
  <2> QED BY <2>1, <2>2, <2>3, PlainKnown
<1>10. Known("Bitstring32WithCP56Time2a")
  <2>1. Plain(Layout["Bitstring32WithCP56Time2a"],
                <<"bsi", "noQuality", "cp56">>, 12, {}, TRUE)
        BY DEF Plain, Layout, Bitstring32WithCP56Time2a, Monitor
  <2>2. /\ Asks("Bitstring32WithCP56Time2a", {12}, 12)
        /\ Needs("Bitstring32WithCP56Time2a", {}, 12)
        BY <2>1 DEF Plain, Asks, Needs, AskForTooLittle, RefusedWithRoomLeft,
                    DemandAddressInSequence
  <2>3. /\ <<"bsi", "noQuality", "cp56">> \in Seq(Kinds)
        /\ NoOdd(<<"bsi", "noQuality", "cp56">>)
        /\ SizeOf(<<"bsi", "noQuality", "cp56">>) = 12
        BY FieldSizes DEF Regular
  <2> QED BY <2>1, <2>2, <2>3, PlainKnown
<1>11. Known("MeasuredValueNormalized")
  <2>1. Plain(Layout["MeasuredValueNormalized"], <<"nva", "byte">>, 3, {}, TRUE)
        BY DEF Plain, Layout, MeasuredValueNormalized, Monitor
  <2>2. Asks("MeasuredValueNormalized", {3}, 3) /\ Needs("MeasuredValueNormalized", {}, 3)
        BY <2>1 DEF Plain, Asks, Needs, AskForTooLittle, RefusedWithRoomLeft,
                    DemandAddressInSequence
  <2>3. /\ <<"nva", "byte">> \in Seq(Kinds)
        /\ NoOdd(<<"nva", "byte">>)
        /\ SizeOf(<<"nva", "byte">>) = 3
        BY FieldSizes DEF Regular
  <2> QED BY <2>1, <2>2, <2>3, PlainKnown
<1>12. Known("MeasuredValueNormalizedWithoutQuality")
  <2>1. Plain(Layout["MeasuredValueNormalizedWithoutQuality"], <<"nvb">>, 2, {}, TRUE)
        BY DEF Plain, Layout, MeasuredValueNormalizedWithoutQuality, Monitor
  <2>2. /\ Asks("MeasuredValueNormalizedWithoutQuality", {2}, 2)
        /\ Needs("MeasuredValueNormalizedWithoutQuality", {}, 2)
        BY <2>1 DEF Plain, Asks, Needs, AskForTooLittle, RefusedWithRoomLeft,
                    DemandAddressInSequence
  <2>3. <<"nvb">> \in Seq(Kinds) /\ NoOdd(<<"nvb">>) /\ SizeOf(<<"nvb">>) = 2
        BY FieldSizes DEF Regular
  <2> QED BY <2>1, <2>2, <2>3, PlainKnown
<1>13. Known("MeasuredValueNormalizedWithCP24Time2a")
  <2>1. Timed(Layout["MeasuredValueNormalizedWithCP24Time2a"],
                <<"nva", "byte">>, "cp24", 3, 6, {}, TRUE)
        BY DEF Timed, Layout, MeasuredValueNormalizedWithCP24Time2a,
               MeasuredValueNormalized, WithTime, Monitor
  <2>2. /\ Asks("MeasuredValueNormalizedWithCP24Time2a", {6}, 6)
        /\ Needs("MeasuredValueNormalizedWithCP24Time2a", {}, 6)
        BY <2>1 DEF Timed, Asks, Needs, AskForTooLittle, RefusedWithRoomLeft,
                    DemandAddressInSequence
  <2>3. LongerBy(<<"nva", "byte">>, "cp24", 6) /\ NoOdd(<<"nva", "byte">>) /\ Within(3, 6)
        BY FieldSizes, WidthIs DEF Regular, LongerBy, Within
  <2> QED BY <2>1, <2>2, <2>3, TimedKnown
<1>14. Known("MeasuredValueNormalizedWithCP56Time2a")
  <2>1. Timed(Layout["MeasuredValueNormalizedWithCP56Time2a"],
                <<"nva", "byte">>, "cp56", 3, 10, {}, TRUE)
        BY DEF Timed, Layout, MeasuredValueNormalizedWithCP56Time2a,
               MeasuredValueNormalized, WithTime, Monitor
  <2>2. /\ Asks("MeasuredValueNormalizedWithCP56Time2a", {10}, 10)
        /\ Needs("MeasuredValueNormalizedWithCP56Time2a", {}, 10)
        BY <2>1 DEF Timed, Asks, Needs, AskForTooLittle, RefusedWithRoomLeft,
                    DemandAddressInSequence
  <2>3. LongerBy(<<"nva", "byte">>, "cp56", 10) /\ NoOdd(<<"nva", "byte">>) /\ Within(3, 10)
        BY FieldSizes, WidthIs DEF Regular, LongerBy, Within
  <2> QED BY <2>1, <2>2, <2>3, TimedKnown
<1>15. Known("MeasuredValueScaled")
  <2>1. Plain(Layout["MeasuredValueScaled"], <<"sva", "byte">>, 3, {}, TRUE)
        BY DEF Plain, Layout, MeasuredValueScaled, Monitor
  <2>2. Asks("MeasuredValueScaled", {3}, 3) /\ Needs("MeasuredValueScaled", {}, 3)
        BY <2>1 DEF Plain, Asks, Needs, AskForTooLittle, RefusedWithRoomLeft,
                    DemandAddressInSequence
  <2>3. /\ <<"sva", "byte">> \in Seq(Kinds)
        /\ NoOdd(<<"sva", "byte">>)
        /\ SizeOf(<<"sva", "byte">>) = 3
        BY FieldSizes DEF Regular
  <2> QED BY <2>1, <2>2, <2>3, PlainKnown
<1>16. Known("MeasuredValueScaledWithCP24Time2a")
  <2>1. Timed(Layout["MeasuredValueScaledWithCP24Time2a"],
                <<"sva", "byte">>, "cp24", 3, 6, {}, TRUE)
        BY DEF Timed, Layout, MeasuredValueScaledWithCP24Time2a, MeasuredValueScaled,
               WithTime, Monitor
  <2>2. /\ Asks("MeasuredValueScaledWithCP24Time2a", {6}, 6)
        /\ Needs("MeasuredValueScaledWithCP24Time2a", {}, 6)
        BY <2>1 DEF Timed, Asks, Needs, AskForTooLittle, RefusedWithRoomLeft,
                    DemandAddressInSequence
  <2>3. LongerBy(<<"sva", "byte">>, "cp24", 6) /\ NoOdd(<<"sva", "byte">>) /\ Within(3, 6)
        BY FieldSizes, WidthIs DEF Regular, LongerBy, Within
  <2> QED BY <2>1, <2>2, <2>3, TimedKnown
<1>17. Known("MeasuredValueScaledWithCP56Time2a")
  <2>1. Timed(Layout["MeasuredValueScaledWithCP56Time2a"],
                <<"sva", "byte">>, "cp56", 3, 10, {}, TRUE)
        BY DEF Timed, Layout, MeasuredValueScaledWithCP56Time2a, MeasuredValueScaled,
               WithTime, Monitor
  <2>2. /\ Asks("MeasuredValueScaledWithCP56Time2a", {10}, 10)
        /\ Needs("MeasuredValueScaledWithCP56Time2a", {}, 10)
        BY <2>1 DEF Timed, Asks, Needs, AskForTooLittle, RefusedWithRoomLeft,
                    DemandAddressInSequence
  <2>3. LongerBy(<<"sva", "byte">>, "cp56", 10) /\ NoOdd(<<"sva", "byte">>) /\ Within(3, 10)
        BY FieldSizes, WidthIs DEF Regular, LongerBy, Within
  <2> QED BY <2>1, <2>2, <2>3, TimedKnown
<1>18. Known("MeasuredValueShort")
  <2>1. Plain(Layout["MeasuredValueShort"], <<"r32", "byte">>, 5, {}, TRUE)
        BY DEF Plain, Layout, MeasuredValueShort, Monitor
  <2>2. Asks("MeasuredValueShort", {5}, 5) /\ Needs("MeasuredValueShort", {}, 5)
        BY <2>1 DEF Plain, Asks, Needs, AskForTooLittle, RefusedWithRoomLeft,
                    DemandAddressInSequence
  <2>3. /\ <<"r32", "byte">> \in Seq(Kinds)
        /\ NoOdd(<<"r32", "byte">>)
        /\ SizeOf(<<"r32", "byte">>) = 5
        BY FieldSizes DEF Regular
  <2> QED BY <2>1, <2>2, <2>3, PlainKnown
<1> QED BY <1>1, <1>2, <1>3, <1>4, <1>5, <1>6, <1>7, <1>8, <1>9, <1>10, <1>11, <1>12,
           <1>13, <1>14, <1>15, <1>16, <1>17, <1>18

(* The rows of the other measured values, of totals, of protection equipment *)
(* and of parameters.                                                        *)
LEMMA MeasuredRows ==
  /\ Known("MeasuredValueShortWithCP24Time2a")
  /\ Known("MeasuredValueShortWithCP56Time2a")
  /\ Known("IntegratedTotals")
  /\ Known("IntegratedTotalsWithCP24Time2a")
  /\ Known("IntegratedTotalsWithCP56Time2a")
  /\ Known("EventOfProtectionEquipment")
  /\ Known("EventOfProtectionEquipmentWithCP56Time2a")
  /\ Known("PackedStartEventsOfProtectionEquipment")
  /\ Known("PackedStartEventsOfProtectionEquipmentWithCP56Time2a")
  /\ Known("PackedOutputCircuitInfo")
  /\ Known("PackedOutputCircuitInfoWithCP56Time2a")
  /\ Known("PackedSinglePointWithSCD")
  /\ Known("ParameterNormalizedValue")
  /\ Known("ParameterScaledValue")
  /\ Known("ParameterFloatValue")
  /\ Known("ParameterActivation")
<1>1. Known("MeasuredValueShortWithCP24Time2a")
  <2>1. Timed(Layout["MeasuredValueShortWithCP24Time2a"],
                <<"r32", "byte">>, "cp24", 5, 8, {}, TRUE)
        BY DEF Timed, Layout, MeasuredValueShortWithCP24Time2a, MeasuredValueShort,
               WithTime, Monitor
  <2>2. /\ Asks("MeasuredValueShortWithCP24Time2a", {8}, 8)
        /\ Needs("MeasuredValueShortWithCP24Time2a", {}, 8)
        BY <2>1 DEF Timed, Asks, Needs, AskForTooLittle, RefusedWithRoomLeft,
                    DemandAddressInSequence
  <2>3. LongerBy(<<"r32", "byte">>, "cp24", 8) /\ NoOdd(<<"r32", "byte">>) /\ Within(5, 8)
        BY FieldSizes, WidthIs DEF Regular, LongerBy, Within
  <2> QED BY <2>1, <2>2, <2>3, TimedKnown
<1>2. Known("MeasuredValueShortWithCP56Time2a")
  <2>1. Timed(Layout["MeasuredValueShortWithCP56Time2a"],
                <<"r32", "byte">>, "cp56", 5, 12, {}, TRUE)
        BY DEF Timed, Layout, MeasuredValueShortWithCP56Time2a, MeasuredValueShort,
               WithTime, Monitor
  <2>2. /\ Asks("MeasuredValueShortWithCP56Time2a", {12}, 12)
        /\ Needs("MeasuredValueShortWithCP56Time2a", {}, 12)
        BY <2>1 DEF Timed, Asks, Needs, AskForTooLittle, RefusedWithRoomLeft,
                    DemandAddressInSequence
  <2>3. LongerBy(<<"r32", "byte">>, "cp56", 12) /\ NoOdd(<<"r32", "byte">>) /\ Within(5, 12)
        BY FieldSizes, WidthIs DEF Regular, LongerBy, Within
  <2> QED BY <2>1, <2>2, <2>3, TimedKnown
<1>3. Known("IntegratedTotals")
  <2>1. Plain(Layout["IntegratedTotals"], <<"bcr">>, 5, {}, TRUE)
        BY DEF Plain, Layout, IntegratedTotals, Monitor
  <2>2. Asks("IntegratedTotals", {5}, 5) /\ Needs("IntegratedTotals", {}, 5)
        BY <2>1 DEF Plain, Asks, Needs, AskForTooLittle, RefusedWithRoomLeft,
                    DemandAddressInSequence
  <2>3. <<"bcr">> \in Seq(Kinds) /\ NoOdd(<<"bcr">>) /\ SizeOf(<<"bcr">>) = 5
        BY FieldSizes DEF Regular
  <2> QED BY <2>1, <2>2, <2>3, PlainKnown
<1>4. Known("IntegratedTotalsWithCP24Time2a")
  <2>1. Timed(Layout["IntegratedTotalsWithCP24Time2a"], <<"bcr">>, "cp24", 5, 8, {}, TRUE)
        BY DEF Timed, Layout, IntegratedTotalsWithCP24Time2a, IntegratedTotals, WithTime,
               Monitor
  <2>2. /\ Asks("IntegratedTotalsWithCP24Time2a", {8}, 8)
        /\ Needs("IntegratedTotalsWithCP24Time2a", {}, 8)
        BY <2>1 DEF Timed, Asks, Needs, AskForTooLittle, RefusedWithRoomLeft,
                    DemandAddressInSequence
  <2>3. LongerBy(<<"bcr">>, "cp24", 8) /\ NoOdd(<<"bcr">>) /\ Within(5, 8)
        BY FieldSizes, WidthIs DEF Regular, LongerBy, Within
  <2> QED BY <2>1, <2>2, <2>3, TimedKnown
<1>5. Known("IntegratedTotalsWithCP56Time2a")
  <2>1. Timed(Layout["IntegratedTotalsWithCP56Time2a"], <<"bcr">>, "cp56", 5, 12, {}, TRUE)
        BY DEF Timed, Layout, IntegratedTotalsWithCP56Time2a, IntegratedTotals, WithTime,
               Monitor
  <2>2. /\ Asks("IntegratedTotalsWithCP56Time2a", {12}, 12)
        /\ Needs("IntegratedTotalsWithCP56Time2a", {}, 12)
        BY <2>1 DEF Timed, Asks, Needs, AskForTooLittle, RefusedWithRoomLeft,
                    DemandAddressInSequence
  <2>3. LongerBy(<<"bcr">>, "cp56", 12) /\ NoOdd(<<"bcr">>) /\ Within(5, 12)
        BY FieldSizes, WidthIs DEF Regular, LongerBy, Within
  <2> QED BY <2>1, <2>2, <2>3, TimedKnown
<1>6. Known("EventOfProtectionEquipment")
  <2>1. Plain(Layout["EventOfProtectionEquipment"],
                <<"byte", "cp16", "cp24">>, 6, {6}, TRUE)
        BY DEF Plain, Layout, EventOfProtectionEquipment, Checked, Monitor
  <2>2. /\ Asks("EventOfProtectionEquipment", {6}, 6)
        /\ Needs("EventOfProtectionEquipment", {6}, 6)
        BY <2>1 DEF Plain, Asks, Needs, AskForTooLittle, RefusedWithRoomLeft,
                    DemandAddressInSequence
  <2>3. /\ <<"byte", "cp16", "cp24">> \in Seq(Kinds)
        /\ NoOdd(<<"byte", "cp16", "cp24">>)
        /\ SizeOf(<<"byte", "cp16", "cp24">>) = 6
        BY FieldSizes DEF Regular
  <2> QED BY <2>1, <2>2, <2>3, PlainKnown
<1>7. Known("EventOfProtectionEquipmentWithCP56Time2a")
  <2>1. Plain(Layout["EventOfProtectionEquipmentWithCP56Time2a"],
                <<"byte", "cp16", "cp56">>, 10, {10}, TRUE)
        BY DEF Plain, Layout, EventOfProtectionEquipmentWithCP56Time2a, Checked, Monitor
  <2>2. /\ Asks("EventOfProtectionEquipmentWithCP56Time2a", {10}, 10)
        /\ Needs("EventOfProtectionEquipmentWithCP56Time2a", {10}, 10)
        BY <2>1 DEF Plain, Asks, Needs, AskForTooLittle, RefusedWithRoomLeft,
                    DemandAddressInSequence
  <2>3. /\ <<"byte", "cp16", "cp56">> \in Seq(Kinds)
        /\ NoOdd(<<"byte", "cp16", "cp56">>)
        /\ SizeOf(<<"byte", "cp16", "cp56">>) = 10
        BY FieldSizes DEF Regular
  <2> QED BY <2>1, <2>2, <2>3, PlainKnown
<1>8. Known("PackedStartEventsOfProtectionEquipment")
  <2>1. Plain(Layout["PackedStartEventsOfProtectionEquipment"],
                <<"byte", "byte", "cp16", "cp24">>, 7, {7}, TRUE)
        BY DEF Plain, Layout, PackedStartEventsOfProtectionEquipment, Checked, Monitor
  <2>2. /\ Asks("PackedStartEventsOfProtectionEquipment", {7}, 7)
        /\ Needs("PackedStartEventsOfProtectionEquipment", {7}, 7)
        BY <2>1 DEF Plain, Asks, Needs, AskForTooLittle, RefusedWithRoomLeft,
                    DemandAddressInSequence
  <2>3. /\ <<"byte", "byte", "cp16", "cp24">> \in Seq(Kinds)
        /\ NoOdd(<<"byte", "byte", "cp16", "cp24">>)
        /\ SizeOf(<<"byte", "byte", "cp16", "cp24">>) = 7
        BY FieldSizes DEF Regular
  <2> QED BY <2>1, <2>2, <2>3, PlainKnown
<1>9. Known("PackedStartEventsOfProtectionEquipmentWithCP56Time2a")
  <2>1. Plain(Layout["PackedStartEventsOfProtectionEquipmentWithCP56Time2a"],
                <<"byte", "byte", "cp16", "cp56">>, 11, {7}, TRUE)
        BY DEF Plain, Layout, PackedStartEventsOfProtectionEquipmentWithCP56Time2a,
               Checked, Monitor
  <2>2. /\ Asks("PackedStartEventsOfProtectionEquipmentWithCP56Time2a", {11}, 11)
        /\ Needs("PackedStartEventsOfProtectionEquipmentWithCP56Time2a", {7}, 11)
        BY <2>1 DEF Plain, Asks, Needs, AskForTooLittle, RefusedWithRoomLeft,
                    DemandAddressInSequence
  <2>3. /\ <<"byte", "byte", "cp16", "cp56">> \in Seq(Kinds)
        /\ NoOdd(<<"byte", "byte", "cp16", "cp56">>)
        /\ SizeOf(<<"byte", "byte", "cp16", "cp56">>) = 11
        BY FieldSizes DEF Regular
  <2> QED BY <2>1, <2>2, <2>3, PlainKnown
<1>10. Known("PackedOutputCircuitInfo")
  <2>1. Plain(Layout["PackedOutputCircuitInfo"],
                <<"byte", "byte", "cp16", "cp24">>, 7, {7}, TRUE)
        BY DEF Plain, Layout, PackedOutputCircuitInfo, Checked, Monitor
  <2>2. Asks("PackedOutputCircuitInfo", {7}, 7) /\ Needs("PackedOutputCircuitInfo", {7}, 7)
        BY <2>1 DEF Plain, Asks, Needs, AskForTooLittle, RefusedWithRoomLeft,
                    DemandAddressInSequence
  <2>3. /\ <<"byte", "byte", "cp16", "cp24">> \in Seq(Kinds)
        /\ NoOdd(<<"byte", "byte", "cp16", "cp24">>)
        /\ SizeOf(<<"byte", "byte", "cp16", "cp24">>) = 7
        BY FieldSizes DEF Regular
  <2> QED BY <2>1, <2>2, <2>3, PlainKnown
<1>11. Known("PackedOutputCircuitInfoWithCP56Time2a")
  <2>1. Plain(Layout["PackedOutputCircuitInfoWithCP56Time2a"],
                <<"byte", "byte", "cp16", "cp56">>, 11, {7}, TRUE)
        BY DEF Plain, Layout, PackedOutputCircuitInfoWithCP56Time2a, Checked, Monitor
  <2>2. /\ Asks("PackedOutputCircuitInfoWithCP56Time2a", {11}, 11)
        /\ Needs("PackedOutputCircuitInfoWithCP56Time2a", {7}, 11)
        BY <2>1 DEF Plain, Asks, Needs, AskForTooLittle, RefusedWithRoomLeft,
                    DemandAddressInSequence
  <2>3. /\ <<"byte", "byte", "cp16", "cp56">> \in Seq(Kinds)
        /\ NoOdd(<<"byte", "byte", "cp16", "cp56">>)
        /\ SizeOf(<<"byte", "byte", "cp16", "cp56">>) = 11
        BY FieldSizes DEF Regular
  <2> QED BY <2>1, <2>2, <2>3, PlainKnown
<1>12. Known("PackedSinglePointWithSCD")
  <2>1. Plain(Layout["PackedSinglePointWithSCD"], <<"r32", "byte">>, 5, {5}, TRUE)
        BY DEF Plain, Layout, PackedSinglePointWithSCD, Checked, Monitor
  <2>2. Asks("PackedSinglePointWithSCD", {5}, 5) /\ Needs("PackedSinglePointWithSCD", {5}, 5)
        BY <2>1 DEF Plain, Asks, Needs, AskForTooLittle, RefusedWithRoomLeft,
                    DemandAddressInSequence
  <2>3. /\ <<"r32", "byte">> \in Seq(Kinds)
        /\ NoOdd(<<"r32", "byte">>)
        /\ SizeOf(<<"r32", "byte">>) = 5
        BY FieldSizes DEF Regular
  <2> QED BY <2>1, <2>2, <2>3, PlainKnown
<1>13. Known("ParameterNormalizedValue")
  <2>1. Plain(Layout["ParameterNormalizedValue"], <<"nva", "byte">>, 3, {}, FALSE)
        BY DEF Plain, Layout, ParameterNormalizedValue, MeasuredValueNormalized, Monitor
  <2>2. Asks("ParameterNormalizedValue", {3}, 3) /\ Needs("ParameterNormalizedValue", {}, 3)
        BY <2>1 DEF Plain, Asks, Needs, AskForTooLittle, RefusedWithRoomLeft,
                    DemandAddressInSequence
  <2>3. /\ <<"nva", "byte">> \in Seq(Kinds)
        /\ NoOdd(<<"nva", "byte">>)
        /\ SizeOf(<<"nva", "byte">>) = 3
        BY FieldSizes DEF Regular
  <2> QED BY <2>1, <2>2, <2>3, PlainKnown
<1>14. Known("ParameterScaledValue")
  <2>1. Plain(Layout["ParameterScaledValue"], <<"sva", "byte">>, 3, {}, FALSE)
        BY DEF Plain, Layout, ParameterScaledValue, MeasuredValueScaled, Monitor
  <2>2. Asks("ParameterScaledValue", {3}, 3) /\ Needs("ParameterScaledValue", {}, 3)
        BY <2>1 DEF Plain, Asks, Needs, AskForTooLittle, RefusedWithRoomLeft,
                    DemandAddressInSequence
  <2>3. /\ <<"sva", "byte">> \in Seq(Kinds)
        /\ NoOdd(<<"sva", "byte">>)
        /\ SizeOf(<<"sva", "byte">>) = 3
        BY FieldSizes DEF Regular
  <2> QED BY <2>1, <2>2, <2>3, PlainKnown
<1>15. Known("ParameterFloatValue")
  <2>1. Plain(Layout["ParameterFloatValue"], <<"r32", "byte">>, 5, {}, FALSE)
        BY DEF Plain, Layout, ParameterFloatValue, MeasuredValueShort, Monitor
  <2>2. Asks("ParameterFloatValue", {5}, 5) /\ Needs("ParameterFloatValue", {}, 5)
        BY <2>1 DEF Plain, Asks, Needs, AskForTooLittle, RefusedWithRoomLeft,
                    DemandAddressInSequence
  <2>3. /\ <<"r32", "byte">> \in Seq(Kinds)
        /\ NoOdd(<<"r32", "byte">>)
        /\ SizeOf(<<"r32", "byte">>) = 5
        BY FieldSizes DEF Regular
  <2> QED BY <2>1, <2>2, <2>3, PlainKnown
<1>16. Known("ParameterActivation")
  <2>1. Plain(Layout["ParameterActivation"], <<"byte">>, 1, {}, FALSE)
        BY DEF Plain, Layout, ParameterActivation, Monitor
  <2>2. Asks("ParameterActivation", {1}, 1) /\ Needs("ParameterActivation", {}, 1)
        BY <2>1 DEF Plain, Asks, Needs, AskForTooLittle, RefusedWithRoomLeft,
                    DemandAddressInSequence
  <2>3. <<"byte">> \in Seq(Kinds) /\ NoOdd(<<"byte">>) /\ SizeOf(<<"byte">>) = 1
        BY FieldSizes DEF Regular
  <2> QED BY <2>1, <2>2, <2>3, PlainKnown
<1> QED BY <1>1, <1>2, <1>3, <1>4, <1>5, <1>6, <1>7, <1>8, <1>9, <1>10, <1>11, <1>12,
           <1>13, <1>14, <1>15, <1>16

(* The rows of commands, of system information and of file transfer.         *)
LEMMA CommandRows ==
  /\ Known("SingleCommand")
  /\ Known("SingleCommandWithCP56Time2a")
  /\ Known("DoubleCommand")
  /\ Known("DoubleCommandWithCP56Time2a")
  /\ Known("StepCommand")
  /\ Known("StepCommandWithCP56Time2a")
  /\ Known("SetpointCommandNormalized")
  /\ Known("SetpointCommandNormalizedWithCP56Time2a")
  /\ Known("SetpointCommandScaled")
  /\ Known("SetpointCommandScaledWithCP56Time2a")
  /\ Known("SetpointCommandShort")
  /\ Known("SetpointCommandShortWithCP56Time2a")
  /\ Known("Bitstring32Command")
  /\ Known("Bitstring32CommandWithCP56Time2a")
  /\ Known("ClockSynchronizationCommand")
  /\ Known("InterrogationCommand")
  /\ Known("CounterInterrogationCommand")
  /\ Known("TestCommand")
  /\ Known("ResetProcessCommand")
  /\ Known("DelayAcquisitionCommand")
  /\ Known("EndOfInitialization")
  /\ Known("FileReady")
  /\ Known("SectionReady")
  /\ Known("FileCallOrSelect")
<1>1. Known("SingleCommand")
  <2>1. Plain(Layout["SingleCommand"], <<"sco">>, 1, {1}, FALSE)
        BY DEF Plain, Layout, SingleCommand, Command, Checked, Monitor
  <2>2. Asks("SingleCommand", {1}, 1) /\ Needs("SingleCommand", {1}, 1)
        BY <2>1 DEF Plain, Asks, Needs, AskForTooLittle, RefusedWithRoomLeft,
                    DemandAddressInSequence
  <2>3. <<"sco">> \in Seq(Kinds) /\ NoOdd(<<"sco">>) /\ SizeOf(<<"sco">>) = 1
        BY FieldSizes DEF Regular
  <2> QED BY <2>1, <2>2, <2>3, PlainKnown
<1>2. Known("SingleCommandWithCP56Time2a")
  <2>1. Timed(Layout["SingleCommandWithCP56Time2a"], <<"sco">>, "cp56", 1, 8, {1}, FALSE)
        BY DEF Timed, Layout, SingleCommandWithCP56Time2a, SingleCommand,
               CommandWithTime, WithTime, Command, Checked, Monitor
  <2>2. /\ Asks("SingleCommandWithCP56Time2a", {8}, 8)
        /\ Needs("SingleCommandWithCP56Time2a", {1}, 8)
        BY <2>1 DEF Timed, Asks, Needs, AskForTooLittle, RefusedWithRoomLeft,
                    DemandAddressInSequence
  <2>3. LongerBy(<<"sco">>, "cp56", 8) /\ NoOdd(<<"sco">>) /\ Within(1, 8)
        BY FieldSizes, WidthIs DEF Regular, LongerBy, Within
  <2> QED BY <2>1, <2>2, <2>3, TimedKnown
<1>3. Known("DoubleCommand")
  <2>1. Plain(Layout["DoubleCommand"], <<"dco">>, 1, {1}, FALSE)
        BY DEF Plain, Layout, DoubleCommand, Command, Checked, Monitor
  <2>2. Asks("DoubleCommand", {1}, 1) /\ Needs("DoubleCommand", {1}, 1)
        BY <2>1 DEF Plain, Asks, Needs, AskForTooLittle, RefusedWithRoomLeft,
                    DemandAddressInSequence
  <2>3. <<"dco">> \in Seq(Kinds) /\ NoOdd(<<"dco">>) /\ SizeOf(<<"dco">>) = 1
        BY FieldSizes DEF Regular
  <2> QED BY <2>1, <2>2, <2>3, PlainKnown
<1>4. Known("DoubleCommandWithCP56Time2a")
  <2>1. Timed(Layout["DoubleCommandWithCP56Time2a"], <<"dco">>, "cp56", 1, 8, {1}, FALSE)
        BY DEF Timed, Layout, DoubleCommandWithCP56Time2a, DoubleCommand,
               CommandWithTime, WithTime, Command, Checked, Monitor
  <2>2. /\ Asks("DoubleCommandWithCP56Time2a", {8}, 8)
        /\ Needs("DoubleCommandWithCP56Time2a", {1}, 8)
        BY <2>1 DEF Timed, Asks, Needs, AskForTooLittle, RefusedWithRoomLeft,
                    DemandAddressInSequence
  <2>3. LongerBy(<<"dco">>, "cp56", 8) /\ NoOdd(<<"dco">>) /\ Within(1, 8)
        BY FieldSizes, WidthIs DEF Regular, LongerBy, Within
  <2> QED BY <2>1, <2>2, <2>3, TimedKnown
<1>5. Known("StepCommand")
  <2>1. Plain(Layout["StepCommand"], <<"dco">>, 1, {1}, FALSE)
        BY DEF Plain, Layout, StepCommand, Command, Checked, Monitor
  <2>2. Asks("StepCommand", {1}, 1) /\ Needs("StepCommand", {1}, 1)
        BY <2>1 DEF Plain, Asks, Needs, AskForTooLittle, RefusedWithRoomLeft,
                    DemandAddressInSequence
  <2>3. <<"dco">> \in Seq(Kinds) /\ NoOdd(<<"dco">>) /\ SizeOf(<<"dco">>) = 1
        BY FieldSizes DEF Regular
  <2> QED BY <2>1, <2>2, <2>3, PlainKnown
<1>6. Known("StepCommandWithCP56Time2a")
  <2>1. Timed(Layout["StepCommandWithCP56Time2a"], <<"dco">>, "cp56", 1, 8, {8}, FALSE)
        BY DEF Timed, Layout, StepCommandWithCP56Time2a, StepCommand, CommandWithTime,
               WithTime, Command, Checked, Monitor
  <2>2. /\ Asks("StepCommandWithCP56Time2a", {8}, 8)
        /\ Needs("StepCommandWithCP56Time2a", {8}, 8)
        BY <2>1 DEF Timed, Asks, Needs, AskForTooLittle, RefusedWithRoomLeft,
                    DemandAddressInSequence
  <2>3. LongerBy(<<"dco">>, "cp56", 8) /\ NoOdd(<<"dco">>) /\ Within(1, 8)
        BY FieldSizes, WidthIs DEF Regular, LongerBy, Within
  <2> QED BY <2>1, <2>2, <2>3, TimedKnown
<1>7. Known("SetpointCommandNormalized")
  <2>1. Plain(Layout["SetpointCommandNormalized"], <<"sva", "qos">>, 3, {3}, FALSE)
        BY DEF Plain, Layout, SetpointCommandNormalized, Command, Checked, Monitor
  <2>2. /\ Asks("SetpointCommandNormalized", {3}, 3)
        /\ Needs("SetpointCommandNormalized", {3}, 3)
        BY <2>1 DEF Plain, Asks, Needs, AskForTooLittle, RefusedWithRoomLeft,
                    DemandAddressInSequence
  <2>3. /\ <<"sva", "qos">> \in Seq(Kinds)
        /\ NoOdd(<<"sva", "qos">>)
        /\ SizeOf(<<"sva", "qos">>) = 3
        BY FieldSizes DEF Regular
  <2> QED BY <2>1, <2>2, <2>3, PlainKnown
<1>8. Known("SetpointCommandNormalizedWithCP56Time2a")
  <2>1. Timed(Layout["SetpointCommandNormalizedWithCP56Time2a"],
                <<"sva", "qos">>, "cp56", 3, 10, {10}, FALSE)
        BY DEF Timed, Layout, SetpointCommandNormalizedWithCP56Time2a,
               SetpointCommandNormalized, CommandWithTime, WithTime, Command, Checked, Monitor
  <2>2. /\ Asks("SetpointCommandNormalizedWithCP56Time2a", {10}, 10)
        /\ Needs("SetpointCommandNormalizedWithCP56Time2a", {10}, 10)
        BY <2>1 DEF Timed, Asks, Needs, AskForTooLittle, RefusedWithRoomLeft,
                    DemandAddressInSequence
  <2>3. LongerBy(<<"sva", "qos">>, "cp56", 10) /\ NoOdd(<<"sva", "qos">>) /\ Within(3, 10)
        BY FieldSizes, WidthIs DEF Regular, LongerBy, Within
  <2> QED BY <2>1, <2>2, <2>3, TimedKnown
<1>9. Known("SetpointCommandScaled")
  <2>1. Plain(Layout["SetpointCommandScaled"], <<"sva", "qos">>, 3, {3}, FALSE)
        BY DEF Plain, Layout, SetpointCommandScaled, Command, Checked, Monitor
  <2>2. Asks("SetpointCommandScaled", {3}, 3) /\ Needs("SetpointCommandScaled", {3}, 3)
        BY <2>1 DEF Plain, Asks, Needs, AskForTooLittle, RefusedWithRoomLeft,
                    DemandAddressInSequence
  <2>3. /\ <<"sva", "qos">> \in Seq(Kinds)
        /\ NoOdd(<<"sva", "qos">>)
        /\ SizeOf(<<"sva", "qos">>) = 3
        BY FieldSizes DEF Regular
  <2> QED BY <2>1, <2>2, <2>3, PlainKnown
<1>10. Known("SetpointCommandScaledWithCP56Time2a")
  <2>1. Timed(Layout["SetpointCommandScaledWithCP56Time2a"],
                <<"sva", "qos">>, "cp56", 3, 10, {10}, FALSE)
        BY DEF Timed, Layout, SetpointCommandScaledWithCP56Time2a, SetpointCommandScaled,
               CommandWithTime, WithTime, Command, Checked, Monitor
  <2>2. /\ Asks("SetpointCommandScaledWithCP56Time2a", {10}, 10)
        /\ Needs("SetpointCommandScaledWithCP56Time2a", {10}, 10)
        BY <2>1 DEF Timed, Asks, Needs, AskForTooLittle, RefusedWithRoomLeft,
                    DemandAddressInSequence
  <2>3. LongerBy(<<"sva", "qos">>, "cp56", 10) /\ NoOdd(<<"sva", "qos">>) /\ Within(3, 10)
        BY FieldSizes, WidthIs DEF Regular, LongerBy, Within
  <2> QED BY <2>1, <2>2, <2>3, TimedKnown
<1>11. Known("SetpointCommandShort")
  <2>1. Plain(Layout["SetpointCommandShort"], <<"r32", "qos">>, 5, {5}, FALSE)
        BY DEF Plain, Layout, SetpointCommandShort, Command, Checked, Monitor
  <2>2. Asks("SetpointCommandShort", {5}, 5) /\ Needs("SetpointCommandShort", {5}, 5)
        BY <2>1 DEF Plain, Asks, Needs, AskForTooLittle, RefusedWithRoomLeft,
                    DemandAddressInSequence
  <2>3. /\ <<"r32", "qos">> \in Seq(Kinds)
        /\ NoOdd(<<"r32", "qos">>)
        /\ SizeOf(<<"r32", "qos">>) = 5
        BY FieldSizes DEF Regular
  <2> QED BY <2>1, <2>2, <2>3, PlainKnown
<1>12. Known("SetpointCommandShortWithCP56Time2a")
  <2>1. Timed(Layout["SetpointCommandShortWithCP56Time2a"],
                <<"r32", "qos">>, "cp56", 5, 12, {10}, FALSE)
        BY DEF Timed, Layout, SetpointCommandShortWithCP56Time2a, SetpointCommandShort,
               CommandWithTime, WithTime, Command, Checked, Monitor
  <2>2. /\ Asks("SetpointCommandShortWithCP56Time2a", {12}, 12)
        /\ Needs("SetpointCommandShortWithCP56Time2a", {10}, 12)
        BY <2>1 DEF Timed, Asks, Needs, AskForTooLittle, RefusedWithRoomLeft,
                    DemandAddressInSequence
  <2>3. LongerBy(<<"r32", "qos">>, "cp56", 12) /\ NoOdd(<<"r32", "qos">>) /\ Within(5, 12)
        BY FieldSizes, WidthIs DEF Regular, LongerBy, Within
  <2> QED BY <2>1, <2>2, <2>3, TimedKnown
<1>13. Known("Bitstring32Command")
  <2>1. Plain(Layout["Bitstring32Command"], <<"r32">>, 5, {4}, FALSE)
        BY DEF Plain, Layout, Bitstring32Command, Command, Checked, Monitor
  <2>2. Asks("Bitstring32Command", {5}, 4) /\ Needs("Bitstring32Command", {4}, 4)
        BY <2>1 DEF Plain, Asks, Needs, AskForTooLittle, RefusedWithRoomLeft,
                    DemandAddressInSequence
  <2>3. <<"r32">> \in Seq(Kinds) /\ NoOdd(<<"r32">>) /\ SizeOf(<<"r32">>) = 4
        BY FieldSizes DEF Regular
  <2> QED BY <2>1, <2>2, <2>3, PlainKnown
<1>14. Known("Bitstring32CommandWithCP56Time2a")
  <2>1. Timed(Layout["Bitstring32CommandWithCP56Time2a"],
                <<"r32">>, "cp56", 5, 12, {11}, FALSE)
        BY DEF Timed, Layout, Bitstring32CommandWithCP56Time2a, Bitstring32Command,
               CommandWithTime, WithTime, Command, Checked, Monitor
  <2>2. /\ Asks("Bitstring32CommandWithCP56Time2a", {12}, 11)
        /\ Needs("Bitstring32CommandWithCP56Time2a", {11}, 11)
        BY <2>1 DEF Timed, Asks, Needs, AskForTooLittle, RefusedWithRoomLeft,
                    DemandAddressInSequence
  <2>3. LongerBy(<<"r32">>, "cp56", 11) /\ NoOdd(<<"r32">>) /\ Within(5, 12)
        BY FieldSizes, WidthIs DEF Regular, LongerBy, Within
  <2> QED BY <2>1, <2>2, <2>3, TimedKnown
<1>15. Known("ClockSynchronizationCommand")
  <2>1. Plain(Layout["ClockSynchronizationCommand"], <<"cp56">>, 7, {7}, FALSE)
        BY DEF Plain, Layout, ClockSynchronizationCommand, Command, Checked, Monitor
  <2>2. /\ Asks("ClockSynchronizationCommand", {7}, 7)
        /\ Needs("ClockSynchronizationCommand", {7}, 7)
        BY <2>1 DEF Plain, Asks, Needs, AskForTooLittle, RefusedWithRoomLeft,
                    DemandAddressInSequence
  <2>3. <<"cp56">> \in Seq(Kinds) /\ NoOdd(<<"cp56">>) /\ SizeOf(<<"cp56">>) = 7
        BY FieldSizes DEF Regular
  <2> QED BY <2>1, <2>2, <2>3, PlainKnown
<1>16. Known("InterrogationCommand")
  <2>1. Plain(Layout["InterrogationCommand"], <<"byte">>, 1, {1}, FALSE)
        BY DEF Plain, Layout, InterrogationCommand, Command, Checked, Monitor
  <2>2. Asks("InterrogationCommand", {1}, 1) /\ Needs("InterrogationCommand", {1}, 1)
        BY <2>1 DEF Plain, Asks, Needs, AskForTooLittle, RefusedWithRoomLeft,
                    DemandAddressInSequence
  <2>3. <<"byte">> \in Seq(Kinds) /\ NoOdd(<<"byte">>) /\ SizeOf(<<"byte">>) = 1
        BY FieldSizes DEF Regular
  <2> QED BY <2>1, <2>2, <2>3, PlainKnown
<1>17. Known("CounterInterrogationCommand")
  <2>1. Plain(Layout["CounterInterrogationCommand"], <<"byte">>, 1, {1}, FALSE)
        BY DEF Plain, Layout, CounterInterrogationCommand, Command, Checked, Monitor
  <2>2. /\ Asks("CounterInterrogationCommand", {1}, 1)
        /\ Needs("CounterInterrogationCommand", {1}, 1)
        BY <2>1 DEF Plain, Asks, Needs, AskForTooLittle, RefusedWithRoomLeft,
                    DemandAddressInSequence
  <2>3. <<"byte">> \in Seq(Kinds) /\ NoOdd(<<"byte">>) /\ SizeOf(<<"byte">>) = 1
        BY FieldSizes DEF Regular
  <2> QED BY <2>1, <2>2, <2>3, PlainKnown
<1>18. Known("TestCommand")
  <2>1. Plain(Layout["TestCommand"], <<"testPattern">>, 2, {1}, FALSE)
        BY DEF Plain, Layout, TestCommand, Command, Checked, Monitor
  <2>2. Asks("TestCommand", {2}, 2) /\ Needs("TestCommand", {1}, 2)
        BY <2>1 DEF Plain, Asks, Needs, AskForTooLittle, RefusedWithRoomLeft,
                    DemandAddressInSequence
  <2>3. /\ <<"testPattern">> \in Seq(Kinds)
        /\ NoOdd(<<"testPattern">>)
        /\ SizeOf(<<"testPattern">>) = 2
        BY FieldSizes DEF Regular
  <2> QED BY <2>1, <2>2, <2>3, PlainKnown
<1>19. Known("ResetProcessCommand")
  <2>1. Plain(Layout["ResetProcessCommand"], <<"byte">>, 1, {1}, FALSE)
        BY DEF Plain, Layout, ResetProcessCommand, Command, Checked, Monitor
  <2>2. Asks("ResetProcessCommand", {1}, 1) /\ Needs("ResetProcessCommand", {1}, 1)
        BY <2>1 DEF Plain, Asks, Needs, AskForTooLittle, RefusedWithRoomLeft,
                    DemandAddressInSequence
  <2>3. <<"byte">> \in Seq(Kinds) /\ NoOdd(<<"byte">>) /\ SizeOf(<<"byte">>) = 1
        BY FieldSizes DEF Regular
  <2> QED BY <2>1, <2>2, <2>3, PlainKnown
<1>20. Known("DelayAcquisitionCommand")
  <2>1. Plain(Layout["DelayAcquisitionCommand"], <<"cp16">>, 2, {1}, FALSE)
        BY DEF Plain, Layout, DelayAcquisitionCommand, Command, Checked, Monitor
  <2>2. Asks("DelayAcquisitionCommand", {2}, 2) /\ Needs("DelayAcquisitionCommand", {1}, 2)
        BY <2>1 DEF Plain, Asks, Needs, AskForTooLittle, RefusedWithRoomLeft,
                    DemandAddressInSequence
  <2>3. <<"cp16">> \in Seq(Kinds) /\ NoOdd(<<"cp16">>) /\ SizeOf(<<"cp16">>) = 2
        BY FieldSizes DEF Regular
  <2> QED BY <2>1, <2>2, <2>3, PlainKnown
<1>21. Known("EndOfInitialization")
  <2>1. Plain(Layout["EndOfInitialization"], <<"byte">>, 1, {1}, FALSE)
        BY DEF Plain, Layout, EndOfInitialization, Command, Checked, Monitor
  <2>2. Asks("EndOfInitialization", {1}, 1) /\ Needs("EndOfInitialization", {1}, 1)
        BY <2>1 DEF Plain, Asks, Needs, AskForTooLittle, RefusedWithRoomLeft,
                    DemandAddressInSequence
  <2>3. <<"byte">> \in Seq(Kinds) /\ NoOdd(<<"byte">>) /\ SizeOf(<<"byte">>) = 1
        BY FieldSizes DEF Regular
  <2> QED BY <2>1, <2>2, <2>3, PlainKnown
<1>22. Known("FileReady")
  <2>1. Plain(Layout["FileReady"], <<"nof", "lof", "byte">>, 1, {6}, FALSE)
        BY DEF Plain, Layout, FileReady, Command, Checked, Monitor
  <2>2. Asks("FileReady", {1}, 6) /\ Needs("FileReady", {6}, 6)
        BY <2>1 DEF Plain, Asks, Needs, AskForTooLittle, RefusedWithRoomLeft,
                    DemandAddressInSequence
  <2>3. /\ <<"nof", "lof", "byte">> \in Seq(Kinds)
        /\ NoOdd(<<"nof", "lof", "byte">>)
        /\ SizeOf(<<"nof", "lof", "byte">>) = 6
        BY FieldSizes DEF Regular
  <2> QED BY <2>1, <2>2, <2>3, PlainKnown
<1>23. Known("SectionReady")
  <2>1. Plain(Layout["SectionReady"], <<"nof", "byte", "lof", "byte">>, 1, {7}, FALSE)
        BY DEF Plain, Layout, SectionReady, Command, Checked, Monitor
  <2>2. Asks("SectionReady", {1}, 7) /\ Needs("SectionReady", {7}, 7)
        BY <2>1 DEF Plain, Asks, Needs, AskForTooLittle, RefusedWithRoomLeft,
                    DemandAddressInSequence
  <2>3. /\ <<"nof", "byte", "lof", "byte">> \in Seq(Kinds)
        /\ NoOdd(<<"nof", "byte", "lof", "byte">>)
        /\ SizeOf(<<"nof", "byte", "lof", "byte">>) = 7
        BY FieldSizes DEF Regular
  <2> QED BY <2>1, <2>2, <2>3, PlainKnown
<1>24. Known("FileCallOrSelect")
  <2>1. Plain(Layout["FileCallOrSelect"], <<"nof", "byte", "byte">>, 1, {4}, FALSE)
        BY DEF Plain, Layout, FileCallOrSelect, Command, Checked, Monitor
  <2>2. Asks("FileCallOrSelect", {1}, 4) /\ Needs("FileCallOrSelect", {4}, 4)
        BY <2>1 DEF Plain, Asks, Needs, AskForTooLittle, RefusedWithRoomLeft,
                    DemandAddressInSequence
  <2>3. /\ <<"nof", "byte", "byte">> \in Seq(Kinds)
        /\ NoOdd(<<"nof", "byte", "byte">>)
        /\ SizeOf(<<"nof", "byte", "byte">>) = 4
        BY FieldSizes DEF Regular
  <2> QED BY <2>1, <2>2, <2>3, PlainKnown
<1> QED BY <1>1, <1>2, <1>3, <1>4, <1>5, <1>6, <1>7, <1>8, <1>9, <1>10, <1>11, <1>12,
           <1>13, <1>14, <1>15, <1>16, <1>17, <1>18, <1>19, <1>20, <1>21, <1>22, <1>23,
           <1>24

(* The other rows: the base is not called, and no time is added.             *)
Odd(row, f, asks, needs, result, sequence) ==
  /\ row.head = f /\ row.tail = <<>> /\ row.asks = asks /\ row.inner = {}
  /\ row.result = result /\ row.needs = needs /\ row.sequence = sequence

(* A row whose functions differ from what its fields say is sound if each    *)
(* difference is one that the properties name.                               *)
LEMMA OddKnown ==
  ASSUME NEW t, NEW f \in Seq(Kinds), NEW asks, NEW needs, NEW size, size = SizeOf(f),
         NEW result \in BOOLEAN, NEW sequence \in BOOLEAN,
         Odd(Layout[t], f, asks, needs, result, sequence),
         ReadsRow(Layout[t], f, MisreadOf(t)), Segments(t, f),
         Asks(t, asks, size), Needs(t, needs, size), Result(t, result)
  PROVE  Known(t)
<1>1. PICK row : row = Layout[t]
      OBVIOUS
<1>2. /\ row.head = f /\ row.tail = <<>> /\ row.asks = asks /\ row.inner = {}
      /\ row.result = result /\ row.needs = needs /\ row.sequence = sequence
      BY <1>1 DEF Odd
<1>3. FieldsOf(t) = f
      BY <1>1, <1>2 DEF FieldsOf
<1>4. RowTyped(row) /\ BaseFits(row)
  <2>1. <<>> \in Seq(Kinds) /\ Len(<<>>) = 0
        BY EmptySeq
  <2>2. row.head \in Seq(Kinds) /\ row.tail \in Seq(Kinds) /\ Len(row.tail) <= 1
        BY <1>2, <2>1
  <2>4. row.sequence \in BOOLEAN /\ row.result \in BOOLEAN
        BY <1>2
  <2> QED BY <1>2, <2>2, <2>4 DEF RowTyped, BaseFits
<1>5. /\ ReadsRow(row, f, MisreadOf(t))
      /\ Asks(t, row.asks, SizeOf(f))
      /\ Needs(t, row.needs, SizeOf(f))
      /\ Result(t, row.result)
      BY <1>1, <1>2
<1> QED BY <1>1, <1>3, <1>4, <1>5 DEF Known

(* A field is read from the right place when the fields before it are read in *)
(* their full length.                                                        *)
ReadsFully(row, f, n) ==
  /\ n \in Nat /\ n <= Len(f) /\ DOMAIN row.reads = 1..Len(f)
  /\ \A k \in 1..Len(f) : row.reads[k][2] \in Nat
  /\ \A k \in 1..n : row.reads[k][2] = Width[f[k]]

(* A getFromBuffer that reads the first n fields with their widths knows     *)
(* where they, and the next one, start.                                      *)
LEMMA ReadsUpTo ==
  ASSUME NEW row, NEW f \in Seq(Kinds), NEW n, ReadsFully(row, f, n)
  PROVE  \A k \in 1..(n + 1) : ReadPlaces(row)[k] = Places(Widths(f))[k]
<1>m. PICK m \in Nat : m = Len(f)
      OBVIOUS
<1>0. /\ n \in Nat /\ n <= m /\ DOMAIN row.reads = 1..m
      /\ \A k \in 1..m : row.reads[k][2] \in Nat
      /\ \A k \in 1..n : row.reads[k][2] = Width[f[k]]
      BY <1>m DEF ReadsFully
<1>1. PICK steps : steps = [k \in 1..m |-> row.reads[k][2]]
      OBVIOUS
<1>2. steps \in Seq(Nat) /\ Len(steps) = m /\ \A k \in 1..n : steps[k] = Width[f[k]]
      BY <1>0, <1>1
<1>3. ReadPlaces(row) = Places(steps)
      BY <1>0, <1>1 DEF ReadPlaces
<1>4. PICK w \in Seq(Nat) : w = Widths(f) /\ Len(w) = m /\ \A k \in 1..m : w[k] = Width[f[k]]
      BY <1>m, WidthsType
<1>5. \A k \in 1..n : steps[k] = w[k]
      BY <1>0, <1>2, <1>4, SMTT(20)
<1>6. n \in Nat /\ n <= Len(steps) /\ n <= Len(w)
      BY <1>0, <1>2, <1>4
<1>7. \A k \in 1..(n + 1) : Places(steps)[k] = Places(w)[k]
      BY <1>2, <1>4, <1>5, <1>6, PlacesAgree
<1> QED BY <1>3, <1>4, <1>7

(* StepPositionWithCP24Time2a: the time stamp is read one byte too early.    *)
LEMMA OddStepPositionShort == Known("StepPositionWithCP24Time2a")
<1>1. Odd(Layout["StepPositionWithCP24Time2a"], <<"vti", "byte", "cp24">>, {5}, {}, TRUE, TRUE)
      BY DEF Odd, Layout, StepPositionWithCP24Time2a, Monitor
<1>2. Layout["StepPositionWithCP24Time2a"].reads = <<<<"vti", 1>>, <<"byte", 0>>, <<"cp24", 3>>>>
      BY DEF Layout, StepPositionWithCP24Time2a, Monitor
<1>3. /\ <<"vti", "byte", "cp24">> \in Seq(Kinds) /\ NoOdd(<<"vti", "byte", "cp24">>)
      /\ SizeOf(<<"vti", "byte", "cp24">>) = 5
      BY FieldSizes DEF Regular
<1>4. PICK f \in Seq(Kinds) : f = <<"vti", "byte", "cp24">>
      BY <1>3
<1>5. PICK row : row = Layout["StepPositionWithCP24Time2a"]
      OBVIOUS
<1>6. ReadsRow(row, f, {3})
  <2>1. Len(f) = 3 /\ f[1] = "vti" /\ f[2] = "byte" /\ f[3] = "cp24"
        BY <1>4
  <2>2. /\ DOMAIN row.reads = 1..3
        /\ row.reads[1] = <<"vti", 1>>
        /\ row.reads[2] = <<"byte", 0>>
        /\ row.reads[3] = <<"cp24", 3>>
        BY <1>2, <1>5
  <2>3. \A k \in 1..1 : row.reads[k][2] = Width[f[k]]
        BY <2>1, <2>2, WidthIs
  <2>4. \A k \in 1..Len(f) : row.reads[k][2] \in Nat /\ row.reads[k][1] = f[k]
        BY <2>1, <2>2
  <2>a. ReadsFully(row, f, 1)
        BY <2>1, <2>2, <2>3, <2>4 DEF ReadsFully
  <2>5. \A k \in 1..(1 + 1) : ReadPlaces(row)[k] = Places(Widths(f))[k]
        BY <2>a, ReadsUpTo
  <2>6. \A k \in 1..Len(f) : k \notin {3} => k \in 1..(1 + 1)
        BY <2>1
  <2> QED BY <1>3, <1>4, <2>1, <2>2, <2>4, <2>5, <2>6 DEF ReadsRow, NoOdd
<1>7. ReadsRow(Layout["StepPositionWithCP24Time2a"], <<"vti", "byte", "cp24">>,
               MisreadOf("StepPositionWithCP24Time2a"))
      BY <1>4, <1>5, <1>6 DEF MisreadOf
<1>8. /\ Asks("StepPositionWithCP24Time2a", {5}, 5)
      /\ Needs("StepPositionWithCP24Time2a", {}, 5)
      /\ Result("StepPositionWithCP24Time2a", TRUE)
      BY DEF Result, Asks, Needs
<1>9. Segments("StepPositionWithCP24Time2a", <<"vti", "byte", "cp24">>)
      BY <1>3 DEF Segments, NoOdd
<1> QED BY <1>1, <1>3, <1>7, <1>8, <1>9, OddKnown

(* StepPositionWithCP56Time2a: encode writes the object and reports failure. *)
LEMMA OddStepPositionLong == Known("StepPositionWithCP56Time2a")
<1>1. Odd(Layout["StepPositionWithCP56Time2a"], <<"vti", "byte", "cp56">>, {9}, {}, FALSE, TRUE)
      BY DEF Odd, Layout, StepPositionWithCP56Time2a, Monitor
<1>2. Layout["StepPositionWithCP56Time2a"].reads = Reads(<<"vti", "byte", "cp56">>)
      BY DEF Layout, StepPositionWithCP56Time2a, Monitor
<1>3. /\ <<"vti", "byte", "cp56">> \in Seq(Kinds) /\ NoOdd(<<"vti", "byte", "cp56">>)
      /\ SizeOf(<<"vti", "byte", "cp56">>) = 9
      BY FieldSizes DEF Regular
<1>4. ReadsRow(Layout["StepPositionWithCP56Time2a"], <<"vti", "byte", "cp56">>,
               MisreadOf("StepPositionWithCP56Time2a"))
      BY <1>2, <1>3, PlainReads
<1>5. /\ Asks("StepPositionWithCP56Time2a", {9}, 9)
      /\ Needs("StepPositionWithCP56Time2a", {}, 9)
      /\ Result("StepPositionWithCP56Time2a", FALSE)
      BY DEF Result, Asks, Needs
<1>6. Segments("StepPositionWithCP56Time2a", <<"vti", "byte", "cp56">>)
      BY <1>3 DEF Segments, NoOdd
<1> QED BY <1>1, <1>3, <1>4, <1>5, <1>6, OddKnown

(* FileLastSegmentOrSection: the checksum is not read back, and encode asks  *)
(* for less than it writes.                                                  *)
LEMMA OddLastSegment == Known("FileLastSegmentOrSection")
<1>1. Odd(Layout["FileLastSegmentOrSection"], <<"nof", "byte", "byte", "byte">>, {}, {5}, TRUE, FALSE)
      BY DEF Odd, Layout, FileLastSegmentOrSection, Command, Checked, Monitor
<1>2. Layout["FileLastSegmentOrSection"].reads =
        <<<<"nof", 2>>, <<"byte", 1>>, <<"byte", 0>>, <<"byte", 1>>>>
      BY DEF Layout, FileLastSegmentOrSection, Command, Checked, Monitor
<1>3. /\ <<"nof", "byte", "byte", "byte">> \in Seq(Kinds)
      /\ NoOdd(<<"nof", "byte", "byte", "byte">>)
      /\ SizeOf(<<"nof", "byte", "byte", "byte">>) = 5
      BY FieldSizes DEF Regular
<1>4. PICK f \in Seq(Kinds) : f = <<"nof", "byte", "byte", "byte">>
      BY <1>3
<1>5. PICK row : row = Layout["FileLastSegmentOrSection"]
      OBVIOUS
<1>6. ReadsRow(row, f, {4})
  <2>1. Len(f) = 4 /\ f[1] = "nof" /\ f[2] = "byte" /\ f[3] = "byte" /\ f[4] = "byte"
        BY <1>4
  <2>2. /\ DOMAIN row.reads = 1..4
        /\ row.reads[1] = <<"nof", 2>>
        /\ row.reads[2] = <<"byte", 1>>
        /\ row.reads[3] = <<"byte", 0>> /\ row.reads[4] = <<"byte", 1>>
        BY <1>2, <1>5
  <2>3. \A k \in 1..2 : row.reads[k][2] = Width[f[k]]
        BY <2>1, <2>2, WidthIs
  <2>4. \A k \in 1..Len(f) : row.reads[k][2] \in Nat /\ row.reads[k][1] = f[k]
        BY <2>1, <2>2
  <2>a. ReadsFully(row, f, 2)
        BY <2>1, <2>2, <2>3, <2>4 DEF ReadsFully
  <2>5. \A k \in 1..(2 + 1) : ReadPlaces(row)[k] = Places(Widths(f))[k]
        BY <2>a, ReadsUpTo
  <2>6. \A k \in 1..Len(f) : k \notin {4} => k \in 1..(2 + 1)
        BY <2>1
  <2> QED BY <1>3, <1>4, <2>1, <2>2, <2>4, <2>5, <2>6 DEF ReadsRow, NoOdd
<1>7. ReadsRow(Layout["FileLastSegmentOrSection"], <<"nof", "byte", "byte", "byte">>,
               MisreadOf("FileLastSegmentOrSection"))
      BY <1>4, <1>5, <1>6 DEF MisreadOf
<1>8. /\ Asks("FileLastSegmentOrSection", {}, 5) /\ Needs("FileLastSegmentOrSection", {5}, 5)
      /\ Result("FileLastSegmentOrSection", TRUE)
  <2>1. Layout["FileLastSegmentOrSection"].sequence = FALSE
        BY <1>1 DEF Odd
  <2> QED BY <2>1 DEF Asks, Needs, AskForTooLittle, Result
<1>9. Segments("FileLastSegmentOrSection", <<"nof", "byte", "byte", "byte">>)
      BY <1>3 DEF Segments, NoOdd
<1> QED BY <1>1, <1>3, <1>7, <1>8, <1>9, OddKnown

(* FileACK: encode asks for less than it writes.                             *)
LEMMA OddACK == Known("FileACK")
<1>1. Odd(Layout["FileACK"], <<"nof", "byte", "byte">>, {}, {4}, TRUE, FALSE)
      BY DEF Odd, Layout, FileACK, Command, Checked, Monitor
<1>2. Layout["FileACK"].reads = Reads(<<"nof", "byte", "byte">>)
      BY DEF Layout, FileACK, Command, Checked, Monitor
<1>3. /\ <<"nof", "byte", "byte">> \in Seq(Kinds) /\ NoOdd(<<"nof", "byte", "byte">>)
      /\ SizeOf(<<"nof", "byte", "byte">>) = 4
      BY FieldSizes DEF Regular
<1>4. ReadsRow(Layout["FileACK"], <<"nof", "byte", "byte">>, MisreadOf("FileACK"))
      BY <1>2, <1>3, PlainReads
<1>5. /\ Asks("FileACK", {}, 4) /\ Needs("FileACK", {4}, 4)
      /\ Result("FileACK", TRUE)
  <2>1. Layout["FileACK"].sequence = FALSE
        BY <1>1 DEF Odd
  <2> QED BY <2>1 DEF Asks, Needs, AskForTooLittle, Result
<1>6. Segments("FileACK", <<"nof", "byte", "byte">>)
      BY <1>3 DEF Segments, NoOdd
<1> QED BY <1>1, <1>3, <1>4, <1>5, <1>6, OddKnown

(* FileSegment: the length of the segment is not part of what encode asks    *)
(* for.                                                                      *)
LEMMA OddSegment == Known("FileSegment")
<1>0. {"nof", "byte", "segment"} \subseteq Kinds
      BY KindsAre
<1>1. Odd(Layout["FileSegment"], <<"nof", "byte", "segment">>, {}, {4}, TRUE, FALSE)
      BY DEF Odd, Layout, FileSegment, Command, Checked, Monitor
<1>2. Layout["FileSegment"].reads = Reads(<<"nof", "byte", "segment">>)
      BY DEF Layout, FileSegment, Command, Checked, Monitor
<1>3. /\ <<"nof", "byte", "segment">> \in Seq(Kinds)
      /\ SizeOf(<<"nof", "byte", "segment">>) = 4
      BY <1>0, SizeOfFields, WidthIs
<1>4. PICK f \in Seq(Kinds) : f = <<"nof", "byte", "segment">>
      BY <1>3
<1>5. PICK row : row = Layout["FileSegment"]
      OBVIOUS
<1>6. \A k \in 1..Len(f) : f[k] # "lostLof"
      BY <1>4
<1>7. ReadsRow(row, f, MisreadOf("FileSegment"))
  <2>1. row.reads = Reads(f)
        BY <1>2, <1>4, <1>5
  <2>2. ReadPlaces(row) = Places(Widths(f))
        BY <2>1, ReadsType DEF ReadPlaces
  <2> QED BY <1>6, <2>1, <2>2, ReadsType DEF ReadsRow
<1>8. /\ Asks("FileSegment", {}, 4) /\ Needs("FileSegment", {4}, 4)
      /\ Result("FileSegment", TRUE)
  <2>1. Layout["FileSegment"].sequence = FALSE
        BY <1>1 DEF Odd
  <2> QED BY <2>1 DEF Asks, Needs, AskForTooLittle, Result
<1>9. Segments("FileSegment", f)
  <2>1. Layout["FileSegment"].sequence = FALSE
        BY <1>1 DEF Odd
  <2> QED BY <1>4, <2>1 DEF Segments
<1> QED BY <1>1, <1>3, <1>4, <1>5, <1>7, <1>8, <1>9, OddKnown

(* FileDirectory: the length of the file is not read back.                   *)
LEMMA OddDirectory == Known("FileDirectory")
<1>0. {"nof", "lostLof", "byte", "cp56"} \subseteq Kinds
      BY KindsAre
<1>1. Odd(Layout["FileDirectory"], <<"nof", "lostLof", "byte", "cp56">>, {13}, {}, TRUE, TRUE)
      BY DEF Odd, Layout, FileDirectory, Monitor
<1>2. Layout["FileDirectory"].reads = Reads(<<"nof", "lostLof", "byte", "cp56">>)
      BY DEF Layout, FileDirectory, Monitor
<1>3. /\ <<"nof", "lostLof", "byte", "cp56">> \in Seq(Kinds)
      /\ SizeOf(<<"nof", "lostLof", "byte", "cp56">>) = 13
      BY <1>0, SizeOfFields, WidthIs
<1>4. PICK f \in Seq(Kinds) : f = <<"nof", "lostLof", "byte", "cp56">>
      BY <1>3
<1>5. PICK row : row = Layout["FileDirectory"]
      OBVIOUS
<1>6. \A k \in 1..Len(f) : f[k] # "segment" /\ (k \notin {2} => f[k] # "lostLof")
      BY <1>4
<1>7. ReadsRow(row, f, {2})
  <2>1. row.reads = Reads(f)
        BY <1>2, <1>4, <1>5
  <2>2. ReadPlaces(row) = Places(Widths(f))
        BY <2>1, ReadsType DEF ReadPlaces
  <2> QED BY <1>6, <2>1, <2>2, ReadsType DEF ReadsRow
<1>a. ReadsRow(Layout["FileDirectory"], f, MisreadOf("FileDirectory"))
      BY <1>5, <1>7 DEF MisreadOf
<1>8. /\ Asks("FileDirectory", {13}, 13) /\ Needs("FileDirectory", {}, 13)
      /\ Result("FileDirectory", TRUE)
      BY DEF Result, Asks, Needs
<1>9. Segments("FileDirectory", f)
      BY <1>6 DEF Segments
<1> QED BY <1>1, <1>3, <1>4, <1>a, <1>8, <1>9, OddKnown

(* ReadCommand: an object without fields.                                    *)
LEMMA OddRead == Known("ReadCommand")
<1>1. Odd(Layout["ReadCommand"], <<>>, {0}, {0}, TRUE, FALSE)
      BY DEF Odd, Layout, ReadCommand, Command, Checked, Monitor
<1>2. Layout["ReadCommand"].reads = Reads(<<>>)
      BY DEF Layout, ReadCommand, Command, Checked, Monitor
<1>3. PICK f \in Seq(Kinds) : f = <<>> /\ NoOdd(f) /\ SizeOf(f) = 0
      BY FieldSizes DEF Regular
<1>4. ReadsRow(Layout["ReadCommand"], f, MisreadOf("ReadCommand"))
      BY <1>2, <1>3, PlainReads
<1>5. /\ Asks("ReadCommand", {0}, 0) /\ Needs("ReadCommand", {0}, 0)
      /\ Result("ReadCommand", TRUE)
  <2>1. Layout["ReadCommand"].sequence = FALSE
        BY <1>1 DEF Odd
  <2> QED BY <2>1 DEF Asks, Needs, Result, AskForTooLittle
<1>6. Segments("ReadCommand", f)
      BY <1>3 DEF Segments, NoOdd
<1>7. Odd(Layout["ReadCommand"], f, {0}, {0}, TRUE, FALSE)
      BY <1>1, <1>3
<1> QED BY <1>3, <1>4, <1>5, <1>6, <1>7, OddKnown

(* Every row is sound.                                                       *)
LEMMA AllKnown ==
  ASSUME NEW t \in ObjectTypes
  PROVE  Known(t)
<1>1. t \in DOMAIN Layout
      BY DEF ObjectTypes
<1>2. t \in {"SinglePointInformation", "SinglePointWithCP24Time2a",
            "SinglePointWithCP56Time2a", "DoublePointInformation",
            "DoublePointWithCP24Time2a", "DoublePointWithCP56Time2a",
            "StepPositionInformation", "BitString32", "Bitstring32WithCP24Time2a",
            "Bitstring32WithCP56Time2a", "MeasuredValueNormalized",
            "MeasuredValueNormalizedWithoutQuality",
            "MeasuredValueNormalizedWithCP24Time2a",
            "MeasuredValueNormalizedWithCP56Time2a", "MeasuredValueScaled",
            "MeasuredValueScaledWithCP24Time2a", "MeasuredValueScaledWithCP56Time2a",
            "MeasuredValueShort", "MeasuredValueShortWithCP24Time2a",
            "MeasuredValueShortWithCP56Time2a", "IntegratedTotals",
            "IntegratedTotalsWithCP24Time2a", "IntegratedTotalsWithCP56Time2a",
            "EventOfProtectionEquipment", "EventOfProtectionEquipmentWithCP56Time2a",
            "PackedStartEventsOfProtectionEquipment",
            "PackedStartEventsOfProtectionEquipmentWithCP56Time2a",
            "PackedOutputCircuitInfo", "PackedOutputCircuitInfoWithCP56Time2a",
            "PackedSinglePointWithSCD", "ParameterNormalizedValue", "ParameterScaledValue",
            "ParameterFloatValue", "ParameterActivation", "SingleCommand",
            "SingleCommandWithCP56Time2a", "DoubleCommand", "DoubleCommandWithCP56Time2a",
            "StepCommand", "StepCommandWithCP56Time2a", "SetpointCommandNormalized",
            "SetpointCommandNormalizedWithCP56Time2a", "SetpointCommandScaled",
            "SetpointCommandScaledWithCP56Time2a", "SetpointCommandShort",
            "SetpointCommandShortWithCP56Time2a", "Bitstring32Command",
            "Bitstring32CommandWithCP56Time2a", "ReadCommand",
            "ClockSynchronizationCommand", "InterrogationCommand",
            "CounterInterrogationCommand", "TestCommand", "ResetProcessCommand",
            "DelayAcquisitionCommand", "EndOfInitialization", "FileReady", "SectionReady",
            "FileCallOrSelect", "StepPositionWithCP24Time2a", "StepPositionWithCP56Time2a",
            "FileLastSegmentOrSection", "FileACK", "FileSegment", "FileDirectory"}
      BY <1>1 DEF Layout
<1> QED BY <1>2, MonitorRows, MeasuredRows, CommandRows, OddStepPositionShort,
           OddStepPositionLong,
           OddLastSegment, OddACK, OddSegment, OddDirectory, OddRead

(************************** The objects of an ASDU ***************************)

(* A value of some field, and an object as the application hands it over.    *)
Values == UNION {Encodable(k) : k \in Kinds}
Given == [ioa : Nat, fields : Seq(Values)]
Good(o) == o \in Given /\ Len(o.fields) = Len(Fields) /\ Filling(Fields, o.fields)

(* Types of the variables.                                                   *)
CodecTyped ==
  /\ type \in ObjectTypes /\ isSequence \in BOOLEAN
  /\ sizeOfIOA \in SizesOfIOA /\ sizeOfIOA \in 1..3
  /\ isSequence => Layout[type].sequence
  /\ maxSize \in Nat /\ frame \in Seq(Byte) /\ sent \in Seq(Given)
  /\ refused \in Nat /\ sending \in BOOLEAN

(* Where the fields of element i start: behind its address, if it has one.   *)
FirstField(i) == IF isSequence THEN Start(i) ELSE Start(i) + sizeOfIOA

(* What was added so far fills the fields of the type; the addresses of a    *)
(* sequence are consecutive.                                                 *)
FilledBy(s) ==
  /\ \A i \in 1..Len(s) :
       /\ Good(s[i])
       /\ isSequence => s[i].ioa = s[1].ioa + (i - 1)
       /\ ~isSequence \/ i = 1 => s[i].ioa \in Below(Power[sizeOfIOA + 1])
  /\ type = "FileSegment" => Len(s) <= 1
  /\ type = "StepPositionWithCP56Time2a" => s = <<>>

(* The bytes f hold every object of s where getElement will look for it,     *)
(* with its address, and end where the next one will start.                  *)
LaidBy(f, s) ==
  /\ \A i \in 1..Len(s) :
       /\ Placed(f, FirstField(i - 1), Encoded(Fields, s[i].fields))
       /\ isSequence /\ i = 1 => Placed(f, 0, LittleEndian(s[i].ioa, sizeOfIOA))
       /\ ~isSequence => Placed(f, Start(i - 1), LittleEndian(s[i].ioa, sizeOfIOA))
  /\ s = <<>> /\ type # "StepPositionWithCP56Time2a" => f = <<>>
  /\ s # <<>> /\ type # "FileSegment" => Len(f) = Start(Len(s))

(* What the row of the type of the ASDU promises.                            *)
LEMMA FieldsKnown ==
  ASSUME CodecTyped
  PROVE  /\ Known(type) /\ Fields \in Seq(Kinds) /\ SizeOf(Fields) \in Nat
         /\ SegmentLast(Fields)
         /\ type # "FileSegment" => \A k \in 1..Len(Fields) : Fields[k] # "segment"
         /\ isSequence => type # "FileSegment"
         /\ isSequence => Layout[type].sequence
<1>1. type \in ObjectTypes /\ isSequence \in BOOLEAN /\ (isSequence => Layout[type].sequence)
      BY DEF CodecTyped
<1>2. Known(type)
      BY <1>1, AllKnown
<1>3. Layout[type].head \in Seq(Kinds) /\ Layout[type].tail \in Seq(Kinds)
      BY <1>2 DEF Known, RowTyped
<1>4. PICK f : f = Fields
      OBVIOUS
<1>5. f \in Seq(Kinds)
      BY <1>3, <1>4, ConcatProperties DEF Fields, FieldsOf
<1>6. SizeOf(f) \in Nat
      BY <1>5, WidthsType
<1>7. Segments(type, f)
      BY <1>2, <1>4 DEF Known, Fields
<1>8. SegmentLast(f)
  <2>1. ASSUME NEW k \in 1..Len(f), f[k] = "segment" PROVE k = Len(f)
    <3>1. f = <<"nof", "byte", "segment">>
          BY <1>7, <2>1 DEF Segments
    <3>2. Len(f) = 3 /\ f[1] = "nof" /\ f[2] = "byte"
          BY <3>1
    <3>3. k \in 1..3
          BY <3>2
    <3> QED BY <2>1, <3>2, <3>3
  <2> QED BY <2>1 DEF SegmentLast
<1>9. /\ type # "FileSegment" => \A k \in 1..Len(f) : f[k] # "segment"
      /\ isSequence => type # "FileSegment"
      BY <1>1, <1>7 DEF Segments
<1> QED BY <1>1, <1>2, <1>4, <1>5, <1>6, <1>8, <1>9

(* Multiplication by the next number.                                        *)
LEMMA TimesNext ==
  ASSUME NEW n \in Nat, NEW s \in Nat
  PROVE  n * s \in Nat /\ (n + 1) * s = n * s + s
OBVIOUS

(* Where getElement looks for the next element.                              *)
LEMMA StartNext ==
  ASSUME CodecTyped, NEW n \in Nat
  PROVE  /\ Start(n) \in Nat /\ FirstField(n) \in Nat
         /\ isSequence => /\ Start(n + 1) = Start(n) + SizeOf(Fields)
                          /\ Start(0) = sizeOfIOA
         /\ ~isSequence => /\ Start(n + 1) = Start(n) + (sizeOfIOA + SizeOf(Fields))
                           /\ Start(0) = 0
<1>1. PICK s \in Nat, a \in Nat : s = SizeOf(Fields) /\ a = sizeOfIOA
  <2>1. sizeOfIOA \in Nat
        BY DEF CodecTyped
  <2> QED BY <2>1, FieldsKnown
<1>2. isSequence \in BOOLEAN
      BY DEF CodecTyped
<1>3. CASE isSequence = TRUE
  <2>1. Start(n) = a + n * s /\ Start(n + 1) = a + (n + 1) * s /\ Start(0) = a + 0 * s
        BY <1>1, <1>3 DEF Start
  <2>2. FirstField(n) = Start(n)
        BY <1>3 DEF FirstField
  <2>3. n * s \in Nat /\ (n + 1) * s = n * s + s /\ 0 * s = 0
        BY TimesNext
  <2> QED BY <1>1, <1>3, <2>1, <2>2, <2>3
<1>4. CASE isSequence = FALSE
  <2>1. PICK b \in Nat : b = a + s
        OBVIOUS
  <2>2. Start(n) = n * b /\ Start(n + 1) = (n + 1) * b /\ Start(0) = 0 * b
        BY <1>1, <1>4, <2>1 DEF Start
  <2>3. FirstField(n) = Start(n) + a
        BY <1>1, <1>4 DEF FirstField
  <2>4. n * b \in Nat /\ (n + 1) * b = n * b + b /\ 0 * b = 0
        BY TimesNext
  <2> QED BY <1>1, <1>4, <2>1, <2>2, <2>3, <2>4
<1> QED BY <1>2, <1>3, <1>4

(* A little-endian number of up to three bytes.                              *)
LEMMA LittleEndianTyped ==
  ASSUME NEW n \in Nat, n <= 3, NEW v \in Nat
  PROVE  LittleEndian(v, n) \in Seq(Byte) /\ Len(LittleEndian(v, n)) = n
<1>1. ASSUME NEW i \in 1..n PROVE (v \div Power[i]) % 256 \in Byte
  <2>1. PICK p \in Nat : p = Power[i] /\ p > 0
        BY DEF Power
  <2>2. PICK q \in Nat : q = v \div p
        BY <2>1
  <2>3. q % 256 \in Int /\ 0 <= q % 256 /\ q % 256 < 256
        OBVIOUS
  <2> QED BY <2>1, <2>2, <2>3, ByteIs
<1> QED BY <1>1 DEF LittleEndian

(* The bytes of the address of the next object; an element of a sequence     *)
(* after the first one has none.                                             *)
LEMMA AddressTyped ==
  ASSUME CodecTyped, NEW ioa \in Nat
  PROVE  /\ AddressSize \in 0..3 /\ AddressBytes(ioa) \in Seq(Byte)
         /\ Len(AddressBytes(ioa)) = AddressSize
<1>1. AddressSize \in 0..3
      BY DEF CodecTyped, AddressSize
<1> QED BY <1>1, LittleEndianTyped DEF AddressBytes

(* The bytes of a whole object: the address and then the fields.             *)
LEMMA WholeLays ==
  ASSUME CodecTyped, NEW o, Good(o)
  PROVE  /\ Encoded(Fields, o.fields) \in Seq(Byte)
         /\ Whole(o) \in Seq(Byte)
         /\ Len(Whole(o)) = AddressSize + Len(Encoded(Fields, o.fields))
         /\ type # "FileSegment" => Len(Encoded(Fields, o.fields)) = SizeOf(Fields)
         /\ type = "FileSegment" =>
              Len(Encoded(Fields, o.fields)) >= SizeOf(Fields) + Len(o.fields[3])
<1>1. o.ioa \in Nat /\ Filling(Fields, o.fields) /\ Len(o.fields) = Len(Fields)
      BY DEF Good, Given
<1>2. PICK f \in Seq(Kinds) : f = Fields /\ SegmentLast(f) /\ SizeOf(f) \in Nat
      BY FieldsKnown
<1>3. PICK e : e = Encoded(f, o.fields)
      OBVIOUS
<1>4. /\ e \in Seq(Byte)
      /\ \A k \in 1..Len(f) : Placed(e, Places(Widths(f))[k], Bytes(f[k], o.fields[k]))
      /\ (\A k \in 1..Len(f) : f[k] # "segment") => Len(e) = SizeOf(f)
      BY <1>1, <1>2, <1>3, EncodedLays
<1>5. PICK a \in Seq(Byte) : a = AddressBytes(o.ioa) /\ Len(a) = AddressSize
      BY <1>1, AddressTyped
<1>6. Whole(o) = a \o e
      BY <1>2, <1>3, <1>5 DEF Whole
<1>7. Whole(o) \in Seq(Byte) /\ Len(Whole(o)) = AddressSize + Len(e)
      BY <1>4, <1>5, <1>6
<1>8. type # "FileSegment" => Len(e) = SizeOf(f)
      BY <1>2, <1>4, FieldsKnown
<1>9. ASSUME type = "FileSegment" PROVE Len(e) >= SizeOf(f) + Len(o.fields[3])
  <2>1. f = <<"nof", "byte", "segment">>
        BY <1>2, <1>9, FieldsKnown DEF Known, Segments, Fields
  <2>2. Len(f) = 3 /\ f[1] = "nof" /\ f[2] = "byte" /\ f[3] = "segment"
        BY <2>1
  <2>3. PICK p \in [1..(3 + 1) -> Nat] :
          /\ p = Places(Widths(f)) /\ SizeOf(f) = p[3 + 1]
          /\ \A k \in 1..3 : p[k + 1] = p[k] + Width[f[k]]
        BY <2>2, FieldPlaces
  <2>4. p[4] = p[3] + 1 /\ p[3] \in Nat
        BY <2>2, <2>3, WidthIs
  <2>5. PICK v \in Encodable("segment") : v = o.fields[3]
        BY <1>1, <1>2, <2>2 DEF Filling
  <2>6. v \in Seq(Byte) /\ Len(v) \in Nat
        BY DEF Encodable
  <2>7. PICK b \in Seq(Byte) : b = Bytes("segment", v) /\ Len(b) = 1 + Len(v)
    <3>1. "segment" \in Kinds
          BY KindsAre
    <3> QED BY <3>1, FieldBytes
  <2>8. Placed(e, p[3], b)
        BY <1>4, <2>2, <2>3, <2>5, <2>7
  <2>9. p[3] + Len(b) \in 1..Len(e)
    <3>1. Len(b) \in 1..Len(b)
          BY <2>6, <2>7
    <3> QED BY <2>8, <3>1 DEF Placed
  <2> QED BY <1>4, <2>3, <2>4, <2>5, <2>6, <2>7, <2>9, SMTT(20)
<1> QED BY <1>2, <1>3, <1>4, <1>7, <1>8, <1>9

(* When encode finds room, what it and the base type write is the object.    *)
LEMMA WrittenIsWhole ==
  ASSUME CodecTyped, NEW o, Good(o), EncodeFits(o)
  PROVE  Written(o) = Whole(o)
<1>1. PICK row : row = Layout[type]
      OBVIOUS
<1>2. Known(type) /\ RowTyped(row) /\ BaseFits(row)
      BY <1>1, FieldsKnown DEF Known
<1>3. PICK head \in Seq(Kinds), tail \in Seq(Kinds) :
        head = row.head /\ tail = row.tail /\ Len(tail) <= 1
      BY <1>2 DEF RowTyped
<1>4. Fields = head \o tail
      BY <1>1, <1>3 DEF Fields, FieldsOf
<1>5. PICK values \in Seq(Values) :
        values = o.fields /\ Len(values) = Len(head) + Len(tail) /\ Filling(head \o tail, values)
  <2>1. Len(head \o tail) = Len(head) + Len(tail)
        BY <1>3
  <2> QED BY <1>4, <2>1 DEF Good, Given
<1>6. \A m \in row.inner : RoomFor(m)
  <2>1. ASSUME NEW m \in row.inner PROVE RoomFor(m)
    <3>0. row.asks \subseteq Nat /\ row.inner \subseteq Nat
          BY <1>1, <1>2 DEF Known, Asks, BaseFits
    <3>1. PICK n \in row.asks : m <= n
          BY <1>2, <2>1 DEF BaseFits
    <3>2. RoomFor(n)
          BY <1>1, <3>1 DEF EncodeFits
    <3>3. AddressSize \in 0..3 /\ maxSize \in Nat /\ Len(frame) \in Nat
          BY DEF CodecTyped, AddressSize
    <3>4. n \in Nat /\ m \in Nat /\ m <= n
          BY <2>1, <3>0, <3>1
    <3> QED BY <3>2, <3>3, <3>4 DEF RoomFor
  <2> QED BY <2>1
<1>7. PICK first : first = SubSeq(values, 1, Len(head))
      OBVIOUS
<1>8. PICK rest : rest = SubSeq(values, Len(head) + 1, Len(values))
      OBVIOUS
<1>9. Filling(head, first) /\ Filling(tail, rest)
      BY <1>3, <1>5, <1>7, <1>8, FillingParts
<1>10. PICK a \in Seq(Byte) : a = AddressBytes(o.ioa)
  <2>1. o.ioa \in Nat
        BY DEF Good, Given
  <2> QED BY <2>1, AddressTyped
<1>11. PICK b \in Seq(Byte) : b = Encoded(head, first)
       BY <1>9, EncodedTyped
<1>12. PICK c \in Seq(Byte) : c = Encoded(tail, rest)
       BY <1>9, EncodedTyped
<1>13. Written(o) = (a \o b) \o c
       BY <1>1, <1>3, <1>5, <1>6, <1>7, <1>8, <1>10, <1>11, <1>12 DEF Written
<1>14. b \o c = Encoded(head \o tail, values)
       BY <1>3, <1>5, <1>7, <1>8, <1>11, <1>12, EncodedParts
<1>15. Whole(o) = a \o (b \o c)
       BY <1>4, <1>5, <1>10, <1>14 DEF Whole
<1> QED BY <1>13, <1>15, ConcatAssociative

(* What lies in a part lies in the whole.                                    *)
LEMMA PlacedWithin ==
  ASSUME NEW m \in Seq(Byte), NEW at \in Nat, NEW b \in Seq(Byte), Placed(m, at, b),
         NEW i \in Nat, NEW c \in Seq(Byte), Placed(b, i, c)
  PROVE  Placed(m, at + i, c)
<1>1. ASSUME NEW j \in 1..Len(c) PROVE (at + i) + j \in 1..Len(m) /\ m[(at + i) + j] = c[j]
  <2>1. i + j \in 1..Len(b) /\ b[i + j] = c[j]
        BY DEF Placed
  <2>2. at + (i + j) \in 1..Len(m) /\ m[at + (i + j)] = b[i + j]
        BY <2>1 DEF Placed
  <2>3. at + (i + j) = (at + i) + j
        OBVIOUS
  <2> QED BY <2>1, <2>2, <2>3
<1> QED BY <1>1 DEF Placed

(* Two parts that are appended together lie one after the other.             *)
LEMMA PlacedTwo ==
  ASSUME NEW m \in Seq(Byte), NEW a \in Seq(Byte), NEW e \in Seq(Byte)
  PROVE  /\ m \o (a \o e) \in Seq(Byte) /\ Len(m \o (a \o e)) = Len(m) + (Len(a) + Len(e))
         /\ Placed(m \o (a \o e), Len(m), a) /\ Placed(m \o (a \o e), Len(m) + Len(a), e)
<1>1. PICK w \in Seq(Byte) :
        w = a \o e /\ Len(w) = Len(a) + Len(e) /\ Placed(w, Len(a), e) /\ Placed(w, 0, a)
  <2>1. Placed(a \o e, 0, a)
        BY DEF Placed
  <2> QED BY <2>1, PlacedNext
<1>2. PICK f \in Seq(Byte) : f = m \o w /\ Len(f) = Len(m) + Len(w) /\ Placed(f, Len(m), w)
      BY PlacedNext
<1>3. Len(m) \in Nat /\ Len(a) \in Nat
      OBVIOUS
<1>4. Placed(f, Len(m) + 0, a) /\ Placed(f, Len(m) + Len(a), e)
      BY <1>1, <1>2, <1>3, PlacedWithin
<1>5. Len(m) + 0 = Len(m)
      BY <1>3
<1> QED BY <1>1, <1>2, <1>4, <1>5

(* The addresses that come next, as an application gives them.               *)
NextAddress(ioa) ==
  /\ isSequence /\ sent # <<>> => ioa = sent[1].ioa + Len(sent)
  /\ ~isSequence \/ sent = <<>> => ioa \in Below(Power[sizeOfIOA + 1])

(* A further object fills the fields of its type and continues the addresses *)
(* of a sequence.                                                            *)
LEMMA AddKeepsFilled ==
  ASSUME CodecTyped, FilledBy(sent), NEW o, Good(o), NextAddress(o.ioa),
         type # "StepPositionWithCP56Time2a", type = "FileSegment" => sent = <<>>
  PROVE  FilledBy(Append(sent, o)) /\ Append(sent, o) \in Seq(Given)
<1>0. isSequence \in BOOLEAN /\ sent \in Seq(Given) /\ o \in Given
      BY DEF CodecTyped, Good
<1>1. PICK n \in Nat : n = Len(sent)
      BY <1>0
<1>a. PICK s : s = Append(sent, o)
      OBVIOUS
<1>2. /\ s \in Seq(Given) /\ s = Append(sent, o) /\ Len(s) = n + 1 /\ s[n + 1] = o /\ s # <<>>
      /\ \A i \in 1..n : s[i] = sent[i]
      BY <1>0, <1>1, <1>a, AppendProperties
<1>3. sent = <<>> <=> n = 0
      BY <1>0, <1>1, EmptySeq
<1>4. ASSUME NEW i \in 1..(n + 1)
      PROVE  /\ Good(s[i])
             /\ isSequence => s[i].ioa = s[1].ioa + (i - 1)
             /\ ~isSequence \/ i = 1 => s[i].ioa \in Below(Power[sizeOfIOA + 1])
  <2>1. CASE i \in 1..n
    <3>1. s[i] = sent[i] /\ s[1] = sent[1]
          BY <1>2, <2>1
    <3> QED BY <1>1, <2>1, <3>1 DEF FilledBy
  <2>2. CASE i = n + 1
    <3>1. s[i] = o /\ Good(o) /\ o.ioa \in Nat
          BY <1>0, <1>2, <2>2 DEF Given
    <3>2. CASE n = 0
      <4>1. sent = <<>> /\ i = 1
            BY <1>3, <2>2, <3>2
      <4>2. o.ioa \in Below(Power[sizeOfIOA + 1])
            BY <4>1 DEF NextAddress
      <4> QED BY <3>1, <4>1, <4>2
    <3>3. CASE n # 0
      <4>1. sent # <<>> /\ i # 1 /\ s[1] = sent[1] /\ i - 1 = n
            BY <1>2, <1>3, <2>2, <3>3
      <4>2. isSequence => o.ioa = s[1].ioa + (i - 1)
            BY <1>1, <4>1 DEF NextAddress
      <4>3. ~isSequence => o.ioa \in Below(Power[sizeOfIOA + 1])
            BY DEF NextAddress
      <4> QED BY <1>0, <3>1, <4>1, <4>2, <4>3
    <3> QED BY <3>2, <3>3
  <2> QED BY <2>1, <2>2
<1>5. type = "FileSegment" => Len(s) <= 1
      BY <1>2, <1>3
<1> QED BY <1>2, <1>4, <1>5 DEF FilledBy

(* The bytes of a further object lie where getElement will look for it, and  *)
(* those of the earlier ones stay where they are.                            *)
LEMMA AddKeepsLaid ==
  ASSUME CodecTyped, FilledBy(sent), LaidBy(frame, sent), NEW o, Good(o), NextAddress(o.ioa),
         type # "StepPositionWithCP56Time2a", type = "FileSegment" => sent = <<>>
  PROVE  LaidBy(frame \o Whole(o), Append(sent, o))
<1>0. /\ isSequence \in BOOLEAN /\ sent \in Seq(Given) /\ o \in Given /\ frame \in Seq(Byte)
      /\ sizeOfIOA \in 1..3
      BY DEF CodecTyped, Good
<1>1. PICK n \in Nat : n = Len(sent)
      BY <1>0
<1>a. PICK s : s = Append(sent, o)
      OBVIOUS
<1>2. /\ s \in Seq(Given) /\ s = Append(sent, o) /\ Len(s) = n + 1 /\ s[n + 1] = o /\ s # <<>>
      /\ \A i \in 1..n : s[i] = sent[i]
      BY <1>0, <1>1, <1>a, AppendProperties
<1>3. sent = <<>> <=> n = 0
      BY <1>0, <1>1, EmptySeq
<1>4. PICK e \in Seq(Byte) :
        /\ e = Encoded(Fields, o.fields)
        /\ type # "FileSegment" => Len(e) = SizeOf(Fields)
      BY WholeLays
<1>5. PICK a \in Seq(Byte) : a = AddressBytes(o.ioa) /\ Len(a) = AddressSize
      BY <1>0, AddressTyped DEF Given
<1>6. PICK f \in Seq(Byte) :
        /\ f = frame \o (a \o e) /\ Len(f) = Len(frame) + (Len(a) + Len(e))
        /\ Placed(f, Len(frame), a) /\ Placed(f, Len(frame) + Len(a), e)
      BY <1>0, PlacedTwo
<1>7. f = frame \o Whole(o)
      BY <1>4, <1>5, <1>6 DEF Whole
<1>8. n = 0 => frame = <<>> /\ Len(frame) = 0
      BY <1>0, <1>3, EmptySeq DEF LaidBy
<1>9. n # 0 => type # "FileSegment" /\ Len(frame) = Start(n)
      BY <1>1, <1>3 DEF LaidBy
<1>10. Start(n) \in Nat /\ SizeOf(Fields) \in Nat
       BY FieldsKnown, StartNext
(* Where the new object starts.                                              *)
<1>11. /\ Len(frame) + Len(a) = FirstField(n)
       /\ isSequence /\ n = 0 => Len(frame) = 0 /\ Len(a) = sizeOfIOA
       /\ ~isSequence => Len(frame) = Start(n) /\ Len(a) = sizeOfIOA
  <2>1. CASE isSequence = TRUE /\ n = 0
    <3>1. AddressSize = sizeOfIOA /\ FirstField(n) = Start(0)
          BY <1>3, <2>1 DEF AddressSize, FirstField
    <3>2. Start(0) = sizeOfIOA
          BY <1>10, <2>1, StartNext
    <3> QED BY <1>0, <1>5, <1>8, <2>1, <3>1, <3>2
  <2>2. CASE isSequence = TRUE /\ n # 0
    <3>1. AddressSize = 0 /\ FirstField(n) = Start(n)
          BY <1>3, <2>2 DEF AddressSize, FirstField
    <3> QED BY <1>0, <1>5, <1>9, <1>10, <2>2, <3>1
  <2>3. CASE isSequence = FALSE
    <3>1. AddressSize = sizeOfIOA /\ FirstField(n) = Start(n) + sizeOfIOA
          BY <2>3 DEF AddressSize, FirstField
    <3>2. Start(0) = 0
          BY <1>10, <2>3, StartNext
    <3>3. Len(frame) = Start(n)
          BY <1>8, <1>9, <3>2
    <3> QED BY <1>5, <2>3, <3>1, <3>3
  <2> QED BY <1>0, <2>1, <2>2, <2>3
<1>12. ASSUME NEW i \in 1..(n + 1)
       PROVE  /\ Placed(f, FirstField(i - 1), Encoded(Fields, s[i].fields))
              /\ isSequence /\ i = 1 => Placed(f, 0, LittleEndian(s[i].ioa, sizeOfIOA))
              /\ ~isSequence => Placed(f, Start(i - 1), LittleEndian(s[i].ioa, sizeOfIOA))
  <2>1. CASE i \in 1..n
    <3>1. PICK m \in Nat : i = m + 1 /\ i - 1 = m
      <4>1. i - 1 \in Nat /\ i = (i - 1) + 1
            BY <2>1
      <4> QED BY <4>1
    <3>2. s[i] = sent[i]
          BY <1>2, <2>1
    <3>3. Good(sent[i])
          BY <1>1, <2>1 DEF FilledBy
    <3>4. Encoded(Fields, sent[i].fields) \in Seq(Byte)
          BY <3>3, WholeLays
    <3>5. LittleEndian(sent[i].ioa, sizeOfIOA) \in Seq(Byte)
      <4>1. sent[i].ioa \in Nat
            BY <3>3 DEF Good, Given
      <4>2. sizeOfIOA \in Nat /\ sizeOfIOA <= 3
            BY <1>0
      <4> QED BY <4>1, <4>2, LittleEndianTyped
    <3>6. /\ Placed(frame, FirstField(m), Encoded(Fields, sent[i].fields))
          /\ isSequence /\ i = 1 => Placed(frame, 0, LittleEndian(sent[i].ioa, sizeOfIOA))
          /\ ~isSequence => Placed(frame, Start(m), LittleEndian(sent[i].ioa, sizeOfIOA))
          BY <1>1, <2>1, <3>1 DEF LaidBy
    <3>7. Start(m) \in Nat /\ FirstField(m) \in Nat
          BY StartNext
    <3>8. PICK w \in Seq(Byte) : w = a \o e /\ f = frame \o w
          BY <1>6, ConcatProperties
    <3> QED BY <1>0, <3>1, <3>2, <3>4, <3>5, <3>6, <3>7, <3>8, PlacedBefore
  <2>2. CASE i = n + 1
    <3>1. i - 1 = n /\ s[i] = o
          BY <1>2, <2>2
    <3>2. Placed(f, FirstField(n), e)
          BY <1>6, <1>11
    <3>3. Len(a) = sizeOfIOA => a = LittleEndian(o.ioa, sizeOfIOA)
          BY <1>5 DEF AddressBytes
    <3>4. isSequence /\ i = 1 => Placed(f, 0, LittleEndian(o.ioa, sizeOfIOA))
          BY <1>6, <1>11, <2>2, <3>3
    <3>5. ~isSequence => Placed(f, Start(n), LittleEndian(o.ioa, sizeOfIOA))
          BY <1>6, <1>11, <3>3
    <3> QED BY <1>4, <3>1, <3>2, <3>4, <3>5
  <2> QED BY <2>1, <2>2
<1>13. type # "FileSegment" => Len(f) = Start(n + 1)
  <2> SUFFICES ASSUME type # "FileSegment" PROVE Len(f) = Start(n + 1)
      OBVIOUS
  <2>1. Len(e) = SizeOf(Fields)
        BY <1>4
  <2>2. /\ isSequence => FirstField(n) = Start(n) /\ Start(n + 1) = Start(n) + SizeOf(Fields)
        /\ ~isSequence => /\ FirstField(n) = Start(n) + sizeOfIOA
                          /\ Start(n + 1) = Start(n) + (sizeOfIOA + SizeOf(Fields))
        BY StartNext DEF FirstField
  <2>3. Len(f) = FirstField(n) + SizeOf(Fields)
    <3>1. Len(frame) \in Nat /\ Len(a) \in Nat
          BY <1>0
    <3> QED BY <1>6, <1>10, <1>11, <2>1, <3>1
  <2> QED BY <1>0, <1>10, <2>2, <2>3
<1> QED BY <1>2, <1>7, <1>12, <1>13 DEF LaidBy

(************************** The inductive invariant **************************)

(* What was received is what getElement finds in the ASDU.                   *)
Reception ==
  /\ received \in Seq({GetElement(i) : i \in Nat}) /\ Len(received) <= Len(sent)
  /\ \A i \in 1..Len(received) : received[i] = GetElement(i - 1)
  /\ sending => received = <<>>

(* The invariant.                                                            *)
CodecInv == CodecTyped /\ FilledBy(sent) /\ LaidBy(frame, sent) /\ Reception /\ ExactRoom

(* The objects an application adds are as create made them, ...              *)
LEMMA SamplesGood ==
  ASSUME CodecTyped, NEW o \in Samples(type, sizeOfIOA)
  PROVE  /\ Good(o) /\ o = [ioa |-> o.ioa, fields |-> o.fields]
         /\ o.ioa \in Below(Power[sizeOfIOA + 1])
<1>1. type \in ObjectTypes /\ sizeOfIOA \in SizesOfIOA
      BY DEF CodecTyped
<1>2. IsObject(o, type, sizeOfIOA)
      BY <1>1, CodecAssumption
<1>3. PICK f \in Seq(Kinds) : f = Fields
      BY FieldsKnown
<1>4. /\ o = [ioa |-> o.ioa, fields |-> o.fields] /\ o.ioa \in Below(Power[sizeOfIOA + 1])
      /\ o.fields = [k \in DOMAIN f |-> o.fields[k]]
      /\ \A k \in DOMAIN f : o.fields[k] \in Encodable(f[k])
      BY <1>2, <1>3 DEF IsObject, Fields
<1>5. o.ioa \in Nat
  <2>1. Power[sizeOfIOA + 1] \in Int
        BY DEF CodecTyped, Power
  <2> QED BY <1>4, <2>1, BelowIs
<1>6. PICK n \in Nat : n = Len(f) /\ DOMAIN f = 1..n
      BY <1>3
<1>7. \A k \in 1..n : o.fields[k] \in Values
  <2>1. ASSUME NEW k \in 1..n PROVE o.fields[k] \in Values
    <3>1. f[k] \in Kinds
          BY <1>6
    <3> QED BY <1>4, <1>6, <3>1 DEF Values
  <2> QED BY <2>1
<1>8. PICK v : v = o.fields
      OBVIOUS
<1>9. v = [k \in 1..n |-> v[k]] /\ \A k \in 1..n : v[k] \in Values
      BY <1>4, <1>6, <1>7, <1>8
<1>10. v \in Seq(Values) /\ Len(v) = n
       BY <1>9
<1>11. Filling(f, v)
       BY <1>4, <1>6, <1>8 DEF Filling
<1>12. o \in Given
       BY <1>4, <1>5, <1>8, <1>10 DEF Given
<1> QED BY <1>3, <1>4, <1>6, <1>8, <1>10, <1>11, <1>12 DEF Good

(* ... also as the next one of a sequence.                                   *)
LEMMA ObjectsGood ==
  ASSUME CodecTyped, FilledBy(sent), NEW o \in Objects
  PROVE  Good(o) /\ NextAddress(o.ioa)
<1>0. isSequence \in BOOLEAN /\ sent \in Seq(Given)
      BY DEF CodecTyped
<1>1. CASE ~(isSequence /\ sent # <<>>)
  <2>1. o \in Samples(type, sizeOfIOA)
        BY <1>1 DEF Objects
  <2> QED BY <1>0, <1>1, <2>1, SamplesGood DEF NextAddress
<1>2. CASE isSequence /\ sent # <<>>
  <2>1. PICK x \in Samples(type, sizeOfIOA) : o = [x EXCEPT !.ioa = sent[1].ioa + Len(sent)]
        BY <1>2 DEF Objects
  <2>2. Good(x) /\ x = [ioa |-> x.ioa, fields |-> x.fields]
        BY <2>1, SamplesGood
  <2>3. o = [ioa |-> sent[1].ioa + Len(sent), fields |-> x.fields]
        BY <2>1, <2>2
  <2>4. sent[1].ioa + Len(sent) \in Nat
    <3>1. Len(sent) \in Nat /\ 1 \in 1..Len(sent)
          BY <1>0, <1>2, EmptySeq
    <3>2. Good(sent[1])
          BY <3>1 DEF FilledBy
    <3>3. sent[1].ioa \in Nat
          BY <3>2 DEF Good, Given
    <3> QED BY <3>1, <3>3
  <2>5. o.fields = x.fields /\ o.ioa = sent[1].ioa + Len(sent)
        BY <2>3
  <2>6. o \in Given
        BY <2>2, <2>3, <2>4 DEF Good, Given
  <2>7. Good(o)
        BY <2>2, <2>5, <2>6 DEF Good
  <2> QED BY <1>2, <2>5, <2>7 DEF NextAddress
<1> QED BY <1>1, <1>2

(* What the test of encode says of the room.                                 *)
LEMMA AddOutcome ==
  ASSUME CodecTyped, FilledBy(sent), LaidBy(frame, sent), NEW o, Good(o)
  PROVE  /\ frame \o Whole(o) \in Seq(Byte) /\ Len(Whole(o)) \in Nat
         /\ Len(frame \o Whole(o)) = Len(frame) + Len(Whole(o))
         /\ EncodeFits(o) => Written(o) = Whole(o)
         /\ EncodeFits(o) /\ type \notin AskForTooLittle => Len(frame \o Whole(o)) <= maxSize
         /\ ~EncodeFits(o) /\ type \notin RefusedWithRoomLeft =>
              Len(frame) + Len(Whole(o)) > maxSize
<1>0. frame \in Seq(Byte) /\ Len(frame) \in Nat /\ maxSize \in Nat /\ AddressSize \in 0..3
      BY DEF CodecTyped, AddressSize
<1>1. PICK w \in Seq(Byte) : w = Whole(o)
      BY WholeLays
<1>2. PICK e \in Seq(Byte) :
        /\ e = Encoded(Fields, o.fields) /\ Len(w) = AddressSize + Len(e)
        /\ type # "FileSegment" => Len(e) = SizeOf(Fields)
        /\ type = "FileSegment" => Len(e) >= SizeOf(Fields) + Len(o.fields[3])
      BY <1>1, WholeLays
<1>3. frame \o w \in Seq(Byte) /\ Len(frame \o w) = Len(frame) + Len(w) /\ Len(w) \in Nat
      BY <1>0
<1>4. EncodeFits(o) => Written(o) = Whole(o)
      BY WrittenIsWhole
<1>5. PICK size \in Nat : size = SizeOf(Fields)
      BY FieldsKnown
<1>6. Asks(type, Layout[type].asks, size)
      BY <1>5, FieldsKnown DEF Known, Fields
<1>7. ASSUME EncodeFits(o), type \notin AskForTooLittle PROVE Len(frame) + Len(w) <= maxSize
  <2>1. PICK n \in Layout[type].asks : size <= n
        BY <1>6, <1>7 DEF Asks
  <2>2. n \in Nat
        BY <1>6 DEF Asks
  <2>3. RoomFor(n)
        BY <1>7 DEF EncodeFits
  <2>4. Len(w) = AddressSize + size
        BY <1>2, <1>5, <1>7 DEF AskForTooLittle
  <2> QED BY <1>0, <2>1, <2>2, <2>3, <2>4 DEF RoomFor
<1>8. ASSUME ~EncodeFits(o), type \notin RefusedWithRoomLeft
      PROVE  Len(frame) + Len(w) > maxSize
  <2>1. type = "FileSegment" => Len(o.fields[3]) \in Nat
    <3> SUFFICES ASSUME type = "FileSegment" PROVE Len(o.fields[3]) \in Nat
        OBVIOUS
    <3>1. PICK f \in Seq(Kinds) : f = Fields /\ f = <<"nof", "byte", "segment">>
          BY FieldsKnown DEF Known, Segments, Fields
    <3>2. Len(f) = 3 /\ f[3] = "segment"
          BY <3>1
    <3>3. PICK v \in Encodable("segment") : v = o.fields[3]
          BY <3>1, <3>2 DEF Good, Filling
    <3> QED BY <3>3 DEF Encodable
  <2>2. Len(w) >= AddressSize + size
        BY <1>0, <1>2, <1>5, <2>1
  <2>3. CASE \E n \in Layout[type].asks : ~RoomFor(n)
    <3>1. PICK n \in Layout[type].asks : ~RoomFor(n)
          BY <2>3
    <3>2. n \in Nat /\ n <= size
          BY <1>6, <1>8 DEF Asks
    <3> QED BY <1>0, <1>3, <2>2, <3>1, <3>2 DEF RoomFor
  <2>4. CASE type = "FileSegment" /\ Len(o.fields[3]) > maxSize
        BY <1>0, <1>2, <1>3, <1>5, <2>1, <2>4
  <2>5. type = "FileSegment" /\ ~(Len(o.fields[3]) <= maxSize) => Len(o.fields[3]) > maxSize
        BY <1>0, <2>1
  <2> QED BY <1>8, <2>3, <2>4, <2>5 DEF EncodeFits
<1> QED BY <1>1, <1>3, <1>4, <1>7, <1>8

(* An empty ASDU satisfies the invariant.                                    *)
LEMMA CodecInitially ==
  ASSUME CodecInit
  PROVE  CodecInv
<1>1. type \in ObjectTypes /\ sizeOfIOA \in SizesOfIOA /\ isSequence \in BOOLEAN
      BY DEF CodecInit
<1>2. maxSize \in Nat /\ sizeOfIOA \in 1..3
      BY <1>1, CodecAssumption DEF CodecInit
<1>3. /\ isSequence => Layout[type].sequence
      /\ frame = <<>> /\ sent = <<>> /\ refused = 0 /\ sending = TRUE /\ received = <<>>
      BY DEF CodecInit
<1>4. CodecTyped
      BY <1>1, <1>2, <1>3, EmptySeq DEF CodecTyped
<1>5. Len(sent) = 0 /\ Len(received) = 0 /\ Len(frame) = 0
      BY <1>3, EmptySeq
<1>6. FilledBy(sent)
      BY <1>3, <1>5 DEF FilledBy
<1>7. LaidBy(frame, sent)
      BY <1>3, <1>5 DEF LaidBy
<1>8. Reception
      BY <1>3, <1>5, EmptySeq DEF Reception
<1>9. ExactRoom
      BY <1>2, <1>3, <1>5 DEF ExactRoom
<1> QED BY <1>4, <1>6, <1>7, <1>8, <1>9 DEF CodecInv

(* The invariant speaks of the parameters only through these.                *)
LEMMA SameParameters ==
  ASSUME UNCHANGED parameters
  PROVE  /\ type' = type /\ sizeOfIOA' = sizeOfIOA /\ isSequence' = isSequence
         /\ maxSize' = maxSize /\ Fields' = Fields
BY DEF parameters, Fields

(* The conditions on what was sent, and where it lies in the frame, carry over *)
(* to the next state, whose objects and frame they are given for.            *)
LEMMA SameLayout ==
  ASSUME UNCHANGED parameters, FilledBy(sent'), LaidBy(frame', sent')
  PROVE  FilledBy(sent)' /\ LaidBy(frame, sent)'
<1>1. /\ type' = type /\ sizeOfIOA' = sizeOfIOA /\ isSequence' = isSequence
      /\ maxSize' = maxSize /\ Fields' = Fields
      BY SameParameters
<1>2. FilledBy(sent)'
      BY <1>1 DEF FilledBy, Good
<1>3. LaidBy(frame, sent)'
  <2>1. \A n \in Int : Start(n)' = Start(n) /\ FirstField(n)' = FirstField(n)
        BY <1>1 DEF Start, FirstField
  <2>2. \A i \in 1..Len(sent') : i - 1 \in Int
        OBVIOUS
  <2>3. Start(Len(sent))' = Start(Len(sent'))
        BY <1>1 DEF Start
  <2> QED BY <1>1, <2>1, <2>2, <2>3 DEF LaidBy
<1> QED BY <1>2, <1>3

(* One more object, or the refusal of one.                                   *)
LEMMA AddStep ==
  ASSUME CodecInv, NEW o \in Objects, Add(o)
  PROVE  /\ CodecInv'
         /\ (frame' # frame /\ type # "StepPositionWithCP56Time2a") =>
              (sent' # sent /\ frame' = frame \o Whole(Last(sent')))
<1>0. CodecTyped /\ FilledBy(sent) /\ LaidBy(frame, sent) /\ Reception /\ ExactRoom
      BY DEF CodecInv
<1>1. Good(o) /\ NextAddress(o.ioa)
      BY <1>0, ObjectsGood
<1>2. /\ frame \o Whole(o) \in Seq(Byte) /\ Len(Whole(o)) \in Nat
      /\ Len(frame \o Whole(o)) = Len(frame) + Len(Whole(o))
      /\ EncodeFits(o) => Written(o) = Whole(o)
      /\ EncodeFits(o) /\ type \notin AskForTooLittle => Len(frame \o Whole(o)) <= maxSize
      /\ ~EncodeFits(o) /\ type \notin RefusedWithRoomLeft => Len(frame) + Len(Whole(o)) > maxSize
      BY <1>0, <1>1, AddOutcome
<1>3. Layout[type].result = (type # "StepPositionWithCP56Time2a")
      BY <1>0, FieldsKnown DEF Known, Result
<1>4. /\ sending = TRUE /\ UNCHANGED <<parameters, sending, received>>
      /\ type = "FileSegment" => sent = <<>>
      BY <1>0 DEF Add, CodecTyped
<1>5. /\ type' = type /\ sizeOfIOA' = sizeOfIOA /\ isSequence' = isSequence
      /\ maxSize' = maxSize /\ Fields' = Fields
      BY <1>4, SameParameters
<1>6. received = <<>> /\ Len(received) = 0
      BY <1>0, <1>4, EmptySeq DEF Reception
<1>7. /\ sent \in Seq(Given) /\ o \in Given /\ Append(sent, o) \in Seq(Given)
      /\ Append(sent, o) # sent /\ Last(Append(sent, o)) = o
  <2>1. sent \in Seq(Given) /\ o \in Given
        BY <1>0, <1>1 DEF CodecTyped, Good
  <2>2. /\ Append(sent, o) \in Seq(Given) /\ Len(Append(sent, o)) = Len(sent) + 1
        /\ Append(sent, o)[Len(sent) + 1] = o
        BY <2>1, AppendProperties
  <2>3. Append(sent, o) # sent
        BY <2>1, <2>2
  <2>4. Last(Append(sent, o)) = o
        BY <2>2 DEF Last
  <2> QED BY <2>1, <2>2, <2>3, <2>4
(* What is left to show of each outcome.                                     *)
<1>8. ASSUME frame' \in Seq(Byte), sent' \in Seq(Given), refused' \in Nat,
             FilledBy(sent'), LaidBy(frame', sent'),
             type \notin AskForTooLittle => Len(frame') <= maxSize,
             refused' # 0 /\ type \notin RefusedWithRoomLeft => Len(frame') + refused' > maxSize
      PROVE  CodecInv'
  <2>1. CodecTyped'
        BY <1>0, <1>4, <1>5, <1>8 DEF CodecTyped
  <2>2. FilledBy(sent)' /\ LaidBy(frame, sent)'
        BY <1>4, <1>8, SameLayout
  <2>3. Reception'
    <3>1. received' = <<>> /\ Len(received') = 0
          BY <1>4, <1>6
    <3>2. Len(sent') \in Nat
          BY <1>8
    <3> QED BY <3>1, <3>2, EmptySeq DEF Reception
  <2>4. ExactRoom'
        BY <1>5, <1>8 DEF ExactRoom
  <2> QED BY <2>1, <2>2, <2>3, <2>4 DEF CodecInv
<1>9. CASE EncodeFits(o) /\ type # "StepPositionWithCP56Time2a"
  <2>1. /\ frame' = frame \o Whole(o) /\ sent' = Append(sent, o) /\ refused' = 0
        BY <1>2, <1>3, <1>9 DEF Add
  <2>2. FilledBy(sent')
        BY <1>0, <1>1, <1>4, <1>9, <2>1, AddKeepsFilled
  <2>3. LaidBy(frame', sent')
        BY <1>0, <1>1, <1>4, <1>9, <2>1, AddKeepsLaid
  <2>4. CodecInv'
        BY <1>2, <1>7, <1>8, <1>9, <2>1, <2>2, <2>3
  <2> QED BY <1>7, <2>1, <2>4
<1>10. CASE EncodeFits(o) /\ type = "StepPositionWithCP56Time2a"
  <2>1. /\ frame' = frame \o Whole(o) /\ sent' = sent /\ refused' = Len(Whole(o))
        BY <1>2, <1>3, <1>10 DEF Add
  <2>2. sent = <<>> /\ Len(sent) = 0
        BY <1>0, <1>10, EmptySeq DEF FilledBy
  <2>3. FilledBy(sent')
        BY <1>0, <2>1
  <2>4. LaidBy(frame', sent')
        BY <1>10, <2>1, <2>2 DEF LaidBy
  <2>5. type \in RefusedWithRoomLeft
        BY <1>10 DEF RefusedWithRoomLeft
  <2>6. CodecInv'
        BY <1>2, <1>7, <1>8, <1>10, <2>1, <2>3, <2>4, <2>5
  <2> QED BY <1>10, <2>6
<1>11. CASE ~EncodeFits(o)
  <2>1. frame' = frame /\ sent' = sent /\ refused' = Len(Whole(o))
        BY <1>11 DEF Add
  <2>2. FilledBy(sent') /\ LaidBy(frame', sent')
        BY <1>0, <2>1
  <2>3. type \notin AskForTooLittle => Len(frame') <= maxSize
        BY <1>0, <2>1 DEF ExactRoom
  <2>4. frame' \in Seq(Byte)
        BY <1>0, <2>1 DEF CodecTyped
  <2>5. CodecInv'
        BY <1>2, <1>7, <1>8, <1>11, <2>1, <2>2, <2>3, <2>4
  <2> QED BY <2>1, <2>5
<1> QED BY <1>9, <1>10, <1>11

(* A step that leaves the sender alone keeps the invariant if what was       *)
(* received is still what getElement finds.                                  *)
LEMMA OtherStep ==
  ASSUME CodecInv, UNCHANGED <<parameters, frame, sent, refused>>, sending' \in BOOLEAN, Reception'
  PROVE  CodecInv'
<1>0. CodecTyped /\ FilledBy(sent) /\ LaidBy(frame, sent) /\ Reception /\ ExactRoom
      BY DEF CodecInv
<1>1. /\ type' = type /\ sizeOfIOA' = sizeOfIOA /\ isSequence' = isSequence
      /\ maxSize' = maxSize /\ Fields' = Fields
      BY SameParameters
<1>2. CodecTyped'
      BY <1>0, <1>1 DEF CodecTyped
<1>3. FilledBy(sent)' /\ LaidBy(frame, sent)'
      BY <1>0, SameLayout
<1>4. ExactRoom'
      BY <1>0, <1>1 DEF ExactRoom
<1> QED BY <1>2, <1>3, <1>4 DEF CodecInv

(* getElement depends on the ASDU only.                                      *)
LEMMA SameElements ==
  ASSUME UNCHANGED <<parameters, frame>>
  PROVE  \A i : GetElement(i)' = GetElement(i)
BY DEF parameters, GetElement, GetFromBuffer, Start, Fields

(* Sending the ASDU keeps the invariant, ...                                 *)
LEMMA DeliverStep ==
  ASSUME CodecInv, Deliver
  PROVE  CodecInv'
<1>1. /\ sending = TRUE
      /\ UNCHANGED <<parameters, frame, sent, refused, received>>
      /\ sending' = FALSE
      BY DEF Deliver, CodecInv, CodecTyped
<1>2. received = <<>> /\ Len(received) = 0 /\ Len(sent) \in Nat
      BY <1>1, EmptySeq DEF CodecInv, Reception, CodecTyped
<1>3. Reception'
      BY <1>1, <1>2, EmptySeq DEF Reception
<1> QED BY <1>1, <1>3, OtherStep

(* ... and so does getting the next object.                                  *)
LEMMA GetStep ==
  ASSUME CodecInv, Get
  PROVE  CodecInv'
<1>1. /\ ~sending /\ Len(received) < Len(sent)
      /\ received' = Append(received, GetElement(Len(received)))
      /\ UNCHANGED <<parameters, frame, sent, refused, sending>> /\ sending' \in BOOLEAN
      BY DEF Get, CodecInv, CodecTyped
<1>2. PICK S : S = {GetElement(i) : i \in Nat}
      OBVIOUS
<1>3. {GetElement(i) : i \in Nat}' = S
      BY <1>1, <1>2, SameElements
<1>4. received \in Seq(S) /\ Len(sent) \in Nat
      BY <1>2 DEF CodecInv, Reception, CodecTyped
<1>5. PICK n \in Nat : n = Len(received)
      BY <1>4
<1>6. PICK x \in S : x = GetElement(n)
      BY <1>2
<1>7. /\ received' \in Seq(S) /\ Len(received') = n + 1 /\ received'[n + 1] = x
      /\ \A i \in 1..n : received'[i] = received[i]
      BY <1>1, <1>4, <1>5, <1>6, AppendProperties
<1>8. ASSUME NEW i \in 1..(n + 1) PROVE received'[i] = GetElement(i - 1)
  <2>1. CASE i \in 1..n
        BY <1>5, <1>7, <2>1 DEF CodecInv, Reception
  <2>2. CASE i = n + 1
    <3>1. i - 1 = n
          BY <2>2
    <3> QED BY <1>6, <1>7, <2>2, <3>1
  <2> QED BY <2>1, <2>2
<1>9. Reception'
  <2>1. Len(received') <= Len(sent')
        BY <1>1, <1>4, <1>5, <1>7
  <2>2. \A i \in 1..Len(received') : received'[i] = GetElement(i - 1)'
        BY <1>1, <1>7, <1>8, SameElements
  <2> QED BY <1>1, <1>3, <1>7, <2>1, <2>2 DEF Reception
<1> QED BY <1>1, <1>9, OtherStep

(* The fields a type misreads, by type.                                      *)
LEMMA MisreadIs == Misread = MisreadOf(type)
BY DEF Misread, MisreadOf

(* A field of an object that was sent is read from the frame as it was given. *)
LEMMA FieldFound ==
  ASSUME CodecInv, NEW i \in 1..Len(sent), NEW k \in 1..Len(Fields), k \notin Misread,
         SurvivesSign(Fields[k], sent[i].fields[k])
  PROVE  Value(Layout[type].reads[k][1], frame, FirstField(i - 1) + ReadPlaces(Layout[type])[k])
         = Promised(Fields[k], sent[i].fields[k])
<1>0. CodecTyped /\ FilledBy(sent) /\ LaidBy(frame, sent) /\ frame \in Seq(Byte)
      BY DEF CodecInv, CodecTyped
<1>1. PICK f \in Seq(Kinds) : f = Fields /\ SegmentLast(f) /\ Known(type)
      BY <1>0, FieldsKnown
<1>2. /\ Layout[type].reads[k][1] = f[k] /\ f[k] # "lostLof"
      /\ ReadPlaces(Layout[type])[k] = Places(Widths(f))[k]
      BY <1>1, MisreadIs DEF Known, ReadsRow, Fields
<1>3. f[k] \in Kinds
      BY <1>1
<1>4. Filling(f, sent[i].fields) /\ sent[i].fields[k] \in Encodable(f[k])
      BY <1>0, <1>1 DEF FilledBy, Good, Filling
<1>5. PICK e \in Seq(Byte) :
        /\ e = Encoded(f, sent[i].fields)
        /\ Placed(e, Places(Widths(f))[k], Bytes(f[k], sent[i].fields[k]))
      BY <1>1, <1>4, EncodedLays
<1>6. PICK m \in Nat : m = i - 1
  <2>1. Len(sent) \in Nat
        BY <1>0 DEF CodecTyped
  <2> QED BY <2>1
<1>7. FirstField(m) \in Nat
      BY <1>0, StartNext
<1>8. Placed(frame, FirstField(m), e)
      BY <1>0, <1>1, <1>5, <1>6 DEF LaidBy
<1>9. Places(Widths(f))[k] \in Nat
  <2>1. PICK p \in [1..(Len(f) + 1) -> Nat] : p = Places(Widths(f))
        BY <1>1, FieldPlaces
  <2>2. k \in 1..(Len(f) + 1)
        BY <1>1
  <2> QED BY <2>1, <2>2
<1>10. Bytes(f[k], sent[i].fields[k]) \in Seq(Byte)
       BY <1>3, <1>4, FieldBytes
<1>11. PICK at \in Nat : at = FirstField(m) + Places(Widths(f))[k]
       BY <1>7, <1>9
<1>12. Placed(frame, at, Bytes(f[k], sent[i].fields[k]))
       BY <1>0, <1>5, <1>7, <1>8, <1>9, <1>10, <1>11, PlacedWithin
<1>13. Value(f[k], frame, at) = Promised(f[k], sent[i].fields[k])
       BY <1>0, <1>1, <1>2, <1>3, <1>4, <1>12, FieldComesBack
<1> QED BY <1>1, <1>2, <1>6, <1>11, <1>13

(************************** What the receiver gets ***************************)

(* getFromBuffer at the place of an element.                                 *)
GotFields(i) ==
  [k \in DOMAIN Layout[type].reads |->
     Value(Layout[type].reads[k][1], frame, FirstField(i) + ReadPlaces(Layout[type])[k])]

(* What it demands behind the address, ...                                   *)
Needed(i) ==
  IF type = "FileSegment" THEN {4 + Len(GotFields(i)[3])} ELSE Layout[type].needs

(* ... and that there is less.                                               *)
TooShort(i) == \E n \in Needed(i) : Len(frame) - Start(i) < sizeOfIOA + n

(* getFromBuffer returns NULL exactly when it finds too little left.         *)
LEMMA Got ==
  ASSUME CodecInv, NEW i \in Nat
  PROVE  /\ TooShort(i) => GetFromBuffer(Start(i)) = <<>>
         /\ ~TooShort(i) => GetFromBuffer(Start(i)) =
              <<[ioa |-> FromLittleEndian(BytesFrom(frame, Start(i), sizeOfIOA)),
                 fields |-> GotFields(i)]>>
BY DEF TooShort, Needed, GotFields, FirstField, ReadPlaces, GetFromBuffer

(* Multiplication is monotone.                                               *)
LEMMA TimesGrows ==
  ASSUME NEW m \in Nat, NEW n \in Nat, m <= n, NEW s \in Nat
  PROVE  m * s <= n * s
<1>1. PICK d \in Nat : n = m + d
  <2>1. n - m \in Nat /\ n = m + (n - m)
        OBVIOUS
  <2> QED BY <2>1
<1>2. (m + d) * s = m * s + d * s /\ d * s \in Nat /\ m * s \in Nat
      OBVIOUS
<1> QED BY <1>1, <1>2

(* A later element starts no earlier.                                        *)
LEMMA StartGrows ==
  ASSUME CodecTyped, NEW m \in Nat, NEW n \in Nat, m <= n
  PROVE  Start(m) <= Start(n)
<1>1. PICK s \in Nat, a \in Nat : s = SizeOf(Fields) /\ a = sizeOfIOA
  <2>1. sizeOfIOA \in Nat
        BY DEF CodecTyped
  <2> QED BY <2>1, FieldsKnown
<1>2. isSequence \in BOOLEAN
      BY DEF CodecTyped
<1>3. CASE isSequence = TRUE
  <2>1. Start(m) = a + m * s /\ Start(n) = a + n * s
        BY <1>1, <1>3 DEF Start
  <2>2. m * s \in Nat /\ n * s \in Nat /\ m * s <= n * s
        BY TimesNext, TimesGrows
  <2> QED BY <2>1, <2>2
<1>4. CASE isSequence = FALSE
  <2>1. PICK b \in Nat : b = a + s
        OBVIOUS
  <2>2. Start(m) = m * b /\ Start(n) = n * b
        BY <1>1, <1>4, <2>1 DEF Start
  <2> QED BY <2>2, TimesGrows
<1> QED BY <1>2, <1>3, <1>4

(* What is left of the frame where an object starts is enough for it, but for *)
(* the last one of a sequence whose getFromBuffer wants room for an address. *)
LEMMA OneSegment ==
  ASSUME CodecInv, NEW i \in Nat, i < Len(sent), type = "FileSegment"
  PROVE  ~TooShort(i)
<1>0. /\ CodecTyped
      /\ FilledBy(sent)
      /\ LaidBy(frame, sent)
      /\ frame \in Seq(Byte)
      /\ Len(sent) \in Nat
      BY DEF CodecInv, CodecTyped
<1>1. i = 0 /\ Len(sent) = 1
  <2>1. Len(sent) <= 1
        BY <1>0 DEF FilledBy
  <2>2. PICK l \in Nat : l = Len(sent) /\ i < l
        BY <1>0
  <2> QED BY <2>1, <2>2
<1>2. isSequence = FALSE
      BY <1>0, FieldsKnown DEF CodecTyped
<1>3. Start(0) = 0 /\ FirstField(0) = sizeOfIOA /\ sizeOfIOA \in 1..3
      BY <1>0, <1>2, StartNext DEF FirstField, CodecTyped
<1>4. PICK f \in Seq(Kinds) : f = Fields /\ f = <<"nof", "byte", "segment">> /\ Known(type)
      BY <1>0, FieldsKnown DEF Known, Segments, Fields
<1>5. Len(f) = 3 /\ f[3] = "segment" /\ SizeOf(f) = 4
  <2>1. {"nof", "byte", "segment"} \subseteq Kinds
        BY KindsAre
  <2> QED BY <1>4, <2>1, SizeOfFields, WidthIs
<1>6. PICK v \in Encodable("segment") : v = sent[1].fields[3] /\ Good(sent[1])
      BY <1>0, <1>1, <1>4, <1>5 DEF FilledBy, Good, Filling
<1>7. Len(v) \in Nat
      BY DEF Encodable
<1>8. Value(Layout[type].reads[3][1], frame, FirstField(0) + ReadPlaces(Layout[type])[3]) = v
  <2>1. 1 \in 1..Len(sent) /\ 3 \in 1..Len(Fields) /\ 1 - 1 = 0
        BY <1>1, <1>4, <1>5
  <2>2. 3 \notin Misread /\ SurvivesSign(Fields[3], sent[1].fields[3])
        BY <1>4, <1>5 DEF Misread, SurvivesSign
  <2>3. Promised("segment", v) = v
        BY DEF Promised
  <2> QED BY <1>4, <1>5, <1>6, <2>1, <2>2, <2>3, FieldFound
<1>9. GotFields(0)[3] = v
  <2>1. 3 \in DOMAIN Layout[type].reads
        BY <1>4, <1>5 DEF Known, ReadsRow, Fields
  <2> QED BY <1>8, <2>1 DEF GotFields
<1>10. PICK e \in Seq(Byte) : e = Encoded(f, sent[1].fields) /\ Len(e) >= 4 + Len(v)
       BY <1>0, <1>4, <1>5, <1>6, WholeLays
<1>11. Placed(frame, sizeOfIOA, e)
       BY <1>0, <1>1, <1>3, <1>4, <1>10 DEF LaidBy
<1>12. sizeOfIOA + Len(e) <= Len(frame)
  <2>1. Len(e) \in Nat /\ Len(e) \in 1..Len(e)
        BY <1>7, <1>10
  <2>2. sizeOfIOA + Len(e) \in 1..Len(frame)
        BY <1>11, <2>1 DEF Placed
  <2> QED BY <1>0, <2>2
<1>13. ~(Len(frame) - Start(0) < sizeOfIOA + (4 + Len(v)))
  <2>1. Len(frame) \in Nat /\ Len(e) \in Nat
        BY <1>0
  <2> QED BY <1>3, <1>7, <1>10, <1>12, <2>1
<1> QED BY <1>1, <1>9, <1>13 DEF TooShort, Needed

(* getFromBuffer finds too little only for the last element of a sequence,   *)
(* of a type that demands an address in front of it.                         *)
LEMMA EnoughLeft ==
  ASSUME CodecInv, NEW i \in Nat, i < Len(sent), TooShort(i)
  PROVE  isSequence /\ type \in DemandAddressInSequence /\ i + 1 = Len(sent)
<1>0. /\ CodecTyped /\ FilledBy(sent) /\ LaidBy(frame, sent) /\ frame \in Seq(Byte)
      /\ sent \in Seq(Given) /\ isSequence \in BOOLEAN /\ sizeOfIOA \in 1..3
      BY DEF CodecInv, CodecTyped
<1>1. type # "FileSegment"
      BY OneSegment
<1>2. PICK n \in Layout[type].needs : Len(frame) - Start(i) < sizeOfIOA + n
      BY <1>1 DEF TooShort, Needed
<1>3. PICK size \in Nat : size = SizeOf(Fields) /\ Known(type) /\ (isSequence => Layout[type].sequence)
      BY <1>0, FieldsKnown
<1>4. Needs(type, Layout[type].needs, size)
      BY <1>3 DEF Known, Fields
<1>5. /\ n \in Nat /\ n <= size
      /\ isSequence => n + 3 <= 2 * size
      /\ isSequence /\ type \notin DemandAddressInSequence => n + 3 <= size
      BY <1>1, <1>3, <1>4 DEF Needs
<1>6. PICK l \in Nat : l = Len(sent) /\ i + 1 <= l
      BY <1>0
<1>7. Len(frame) = Start(l)
  <2>1. sent # <<>>
        BY <1>6, EmptySeq
  <2> QED BY <1>0, <1>1, <1>6, <2>1 DEF LaidBy
<1>8. /\ Start(i) \in Nat
      /\ Start(i + 1) \in Nat
      /\ Start(l) \in Nat
      /\ Start((i + 1) + 1) \in Nat
      /\ Start(i + 1) <= Start(l)
      /\ (i + 1) + 1 <= l => Start((i + 1) + 1) <= Start(l)
  <2>1. /\ Start(i) \in Nat /\ Start(i + 1) \in Nat /\ Start(l) \in Nat
        /\ Start((i + 1) + 1) \in Nat
    <3>1. \A k \in Nat : Start(k) \in Nat
          BY <1>0, StartNext
    <3>2. i + 1 \in Nat /\ (i + 1) + 1 \in Nat
          OBVIOUS
    <3> QED BY <3>1, <3>2
  <2>2. Start(i + 1) <= Start(l)
        BY <1>0, <1>6, StartGrows
  <2>3. PICK m \in Nat : m = (i + 1) + 1
        OBVIOUS
  <2>4. m <= l => Start(m) <= Start(l)
        BY <1>0, StartGrows
  <2> QED BY <2>1, <2>2, <2>3, <2>4
<1>9. isSequence
  <2> SUFFICES ASSUME ~isSequence PROVE FALSE
      OBVIOUS
  <2>1. Start(i + 1) = Start(i) + (sizeOfIOA + size)
        BY <1>0, <1>3, StartNext
  <2> QED BY <1>0, <1>2, <1>5, <1>7, <1>8, <2>1
<1>10. Start(i + 1) = Start(i) + size /\ Start((i + 1) + 1) = Start(i + 1) + size
       BY <1>0, <1>3, <1>9, StartNext
<1>11. type \in DemandAddressInSequence
       BY <1>0, <1>2, <1>5, <1>7, <1>8, <1>9, <1>10
<1>12. ~((i + 1) + 1 <= l)
       BY <1>0, <1>2, <1>5, <1>7, <1>8, <1>9, <1>10
<1> QED BY <1>6, <1>9, <1>11, <1>12

(* In every state of the invariant no object is lost.                        *)
LEMMA NothingIsLost ==
  ASSUME CodecInv
  PROVE  NothingLost
<1>0. /\ received \in Seq({GetElement(i) : i \in Nat})
      /\ Len(received) <= Len(sent)
      /\ sent \in Seq(Given)
      BY DEF CodecInv, CodecTyped, Reception
<1>1. PICK n \in Nat, l \in Nat : n = Len(received) /\ l = Len(sent) /\ n <= l /\ DOMAIN received = 1..n
      BY <1>0
<1>2. ASSUME NEW i \in 1..n, received[i] = <<>>
      PROVE  isSequence /\ type \in DemandAddressInSequence /\ i = Len(sent)
  <2>1. PICK m \in Nat : m = i - 1 /\ m + 1 = i /\ m < l
    <3>1. i - 1 \in Nat /\ (i - 1) + 1 = i /\ i - 1 < l
          BY <1>1
    <3> QED BY <3>1
  <2>2. GetElement(m) = <<>>
        BY <1>1, <1>2, <2>1 DEF CodecInv, Reception
  <2>3. TooShort(m)
    <3> SUFFICES ASSUME ~TooShort(m) PROVE FALSE
        OBVIOUS
    <3>1. PICK r : GetFromBuffer(Start(m)) = <<r>>
          BY Got
    <3>2. <<r>> # <<>>
          OBVIOUS
    <3>3. GetElement(m) # <<>>
          BY <3>1, <3>2 DEF GetElement
    <3> QED BY <2>2, <3>3
  <2> QED BY <1>1, <2>1, <2>3, EnoughLeft
<1> QED BY <1>1, <1>2 DEF NothingLost

(* The address of an object is found, or counted on from that of the first   *)
(* element.                                                                  *)
LEMMA AddressFound ==
  ASSUME CodecInv, NEW i \in Nat, i < Len(sent)
  PROVE  /\ ~isSequence =>
              FromLittleEndian(BytesFrom(frame, Start(i), sizeOfIOA)) = sent[i + 1].ioa
         /\ isSequence => FromLittleEndian(BytesFrom(frame, 0, sizeOfIOA)) + i = sent[i + 1].ioa
<1>0. /\ CodecTyped /\ FilledBy(sent) /\ LaidBy(frame, sent) /\ frame \in Seq(Byte)
      /\ sent \in Seq(Given) /\ isSequence \in BOOLEAN /\ sizeOfIOA \in 1..3
      BY DEF CodecInv, CodecTyped
<1>1. PICK l \in Nat : l = Len(sent) /\ i + 1 \in 1..l /\ 1 \in 1..l /\ (i + 1) - 1 = i
      BY <1>0
<1>2. ASSUME NEW v \in Below(Power[sizeOfIOA + 1]), NEW at \in Nat,
             Placed(frame, at, LittleEndian(v, sizeOfIOA))
      PROVE  FromLittleEndian(BytesFrom(frame, at, sizeOfIOA)) = v
  <2>1. PICK b : b = LittleEndian(v, sizeOfIOA)
        OBVIOUS
  <2>2. b \in [1..sizeOfIOA -> Byte] /\ FromLittleEndian(b) = v
        BY <1>0, <2>1, LittleEndianComesBack
  <2>3. sizeOfIOA \in Nat
        BY <1>0
  <2>4. b \in Seq(Byte) /\ Len(b) = sizeOfIOA
        BY <2>2, <2>3, ByteSeq
  <2> QED BY <1>0, <1>2, <2>1, <2>2, <2>4, PlacedIsRead
<1>3. CASE isSequence = FALSE
  <2>1. /\ sent[i + 1].ioa \in Below(Power[sizeOfIOA + 1])
        /\ Placed(frame, Start(i), LittleEndian(sent[i + 1].ioa, sizeOfIOA))
        BY <1>0, <1>1, <1>3 DEF FilledBy, LaidBy
  <2>2. Start(i) \in Nat
        BY <1>0, StartNext
  <2> QED BY <1>2, <1>3, <2>1, <2>2
<1>4. CASE isSequence = TRUE
  <2>1. /\ sent[1].ioa \in Below(Power[sizeOfIOA + 1])
        /\ Placed(frame, 0, LittleEndian(sent[1].ioa, sizeOfIOA))
        BY <1>0, <1>1, <1>4 DEF FilledBy, LaidBy
  <2>2. sent[i + 1].ioa = sent[1].ioa + i
        BY <1>0, <1>1, <1>4 DEF FilledBy
  <2> QED BY <1>2, <1>4, <2>1, <2>2
<1> QED BY <1>0, <1>3, <1>4

(* In every state of the invariant what was received is what was sent.       *)
LEMMA WhatIsReceivedIsSent ==
  ASSUME CodecInv
  PROVE  ReceivedIsSent
<1>0. /\ received \in Seq({GetElement(i) : i \in Nat}) /\ Len(received) <= Len(sent)
      /\ sent \in Seq(Given) /\ CodecTyped
      BY DEF CodecInv, CodecTyped, Reception
<1>1. PICK n \in Nat, l \in Nat : n = Len(received) /\ l = Len(sent) /\ n <= l /\ DOMAIN received = 1..n
      BY <1>0
<1>2. ASSUME NEW i \in 1..n, received[i] # <<>>
      PROVE  /\ received[i][1].ioa = sent[i].ioa
             /\ \A k \in DOMAIN Fields \ Misread :
                  SurvivesSign(Fields[k], sent[i].fields[k]) =>
                    received[i][1].fields[k] = Promised(Fields[k], sent[i].fields[k])
  <2>1. PICK m \in Nat : m = i - 1 /\ m + 1 = i /\ m < l
    <3>1. i - 1 \in Nat /\ (i - 1) + 1 = i /\ i - 1 < l
          BY <1>1
    <3> QED BY <3>1
  <2>2. received[i] = GetElement(m)
        BY <1>1, <2>1 DEF CodecInv, Reception
  <2>3. ~TooShort(m)
    <3> SUFFICES ASSUME TooShort(m) PROVE FALSE
        OBVIOUS
    <3>1. GetElement(m) = <<>>
          BY Got DEF GetElement
    <3> QED BY <1>2, <2>2, <3>1
  <2>4. GetFromBuffer(Start(m)) =
          <<[ioa |-> FromLittleEndian(BytesFrom(frame, Start(m), sizeOfIOA)), fields |-> GotFields(m)]>>
        BY <2>3, Got
  <2>5. /\ received[i][1].fields = GotFields(m)
        /\ ~isSequence =>
             received[i][1].ioa = FromLittleEndian(BytesFrom(frame, Start(m), sizeOfIOA))
        /\ isSequence =>
             received[i][1].ioa = FromLittleEndian(BytesFrom(frame, 0, sizeOfIOA)) + m
        BY <2>2, <2>4 DEF GetElement
  <2>6. received[i][1].ioa = sent[i].ioa
        BY <1>1, <2>1, <2>5, AddressFound
  <2>7. ASSUME NEW k \in DOMAIN Fields \ Misread, SurvivesSign(Fields[k], sent[i].fields[k])
        PROVE  received[i][1].fields[k] = Promised(Fields[k], sent[i].fields[k])
    <3>1. PICK f \in Seq(Kinds) : f = Fields /\ Known(type)
          BY <1>0, FieldsKnown
    <3>2. k \in 1..Len(Fields) /\ k \in DOMAIN Layout[type].reads
          BY <3>1 DEF Known, ReadsRow, Fields
    <3>3. GotFields(m)[k] =
            Value(Layout[type].reads[k][1], frame, FirstField(m) + ReadPlaces(Layout[type])[k])
          BY <3>2 DEF GotFields
    <3>4. i \in 1..Len(sent)
          BY <1>1
    <3> QED BY <2>1, <2>5, <2>7, <3>2, <3>3, <3>4, FieldFound
  <2> QED BY <2>6, <2>7
<1> QED BY <1>1, <1>2 DEF ReceivedIsSent

(********************************* Theorems **********************************)

(* For every length of an address, every bound, every set of objects an      *)
(* application may hand to create and every room: the invariant of the       *)
(* codec.                                                                    *)
THEOREM CodecInvariant == CodecSpec => []CodecInv
<1>1. CodecInit => CodecInv
      BY CodecInitially
<1>2. CodecInv /\ [CodecNext]_codecVars => CodecInv'
  <2> SUFFICES ASSUME CodecInv, [CodecNext]_codecVars PROVE CodecInv'
      OBVIOUS
  <2>1. CASE \E o \in Objects : Add(o)
        BY <2>1, AddStep
  <2>2. CASE Deliver
        BY <2>2, DeliverStep
  <2>3. CASE Get
        BY <2>3, GetStep
  <2>4. CASE UNCHANGED codecVars
    <3>1. UNCHANGED <<parameters, frame, sent, refused, sending, received>>
          BY <2>4 DEF codecVars
    <3>2. sending' \in BOOLEAN
          BY <3>1 DEF CodecInv, CodecTyped
    <3>3. \A i : GetElement(i)' = GetElement(i)
          BY <3>1, SameElements
    <3>4. PICK S : S = {GetElement(i) : i \in Nat} /\ S = {GetElement(i) : i \in Nat}'
          BY <3>3
    <3>5. Reception'
          BY <3>1, <3>3, <3>4 DEF CodecInv, Reception
    <3> QED BY <3>1, <3>2, <3>5, OtherStep
  <2> QED BY <2>1, <2>2, <2>3, <2>4 DEF CodecNext
<1> QED BY <1>1, <1>2, PTL DEF CodecSpec

(* No encode function writes beyond the room of the ASDU, or refuses an      *)
(* object for which there is room, but for the types that are named.         *)
THEOREM RoomIsExact == CodecSpec => []ExactRoom
<1>1. CodecInv => ExactRoom
      BY DEF CodecInv
<1> QED BY <1>1, CodecInvariant, PTL

(* addInformationObject puts in the whole object and counts it, or nothing.  *)
THEOREM AddedInWhole == CodecSpec => AddedWhole
<1>1. CodecInv /\ [CodecNext]_codecVars =>
        [(frame' # frame /\ type # "StepPositionWithCP56Time2a") =>
            (sent' # sent /\ frame' = frame \o Whole(Last(sent')))]_codecVars
  <2> SUFFICES ASSUME CodecInv, CodecNext, frame' # frame, type # "StepPositionWithCP56Time2a"
      PROVE  sent' # sent /\ frame' = frame \o Whole(Last(sent'))
      BY DEF codecVars
  <2>1. CASE \E o \in Objects : Add(o)
        BY <2>1, AddStep
  <2>2. CASE Deliver \/ Get
        BY <2>2 DEF Deliver, Get
  <2> QED BY <2>1, <2>2 DEF CodecNext
<1> QED BY <1>1, CodecInvariant, PTL DEF CodecSpec, AddedWhole

(* Every object that was added is found again by the receiver, but for the   *)
(* last element of a sequence of the types that are named.                   *)
THEOREM NoneIsLost == CodecSpec => []NothingLost
BY CodecInvariant, NothingIsLost, PTL

(* The receiver gets every object as it was sent: address and fields, with   *)
(* signs, flags, quality and time stamps, but for the fields that are named. *)
THEOREM SentIsReceived == CodecSpec => []ReceivedIsSent
BY CodecInvariant, WhatIsReceivedIsSent, PTL
=============================================================================
