--------------------------- MODULE Dispatch_proof ---------------------------
(* Proofs about Dispatch, for any size of queue and k-buffer, any number of   *)
(* commands and answers: handleASDU comes to one verdict, and the answers of  *)
(* the connection's thread leave in order and not across a STARTDT. What      *)
(* Dispatch does to the response queue is what HighPriorityQueue allows.      *)
EXTENDS Dispatch, SequenceTheorems, TLAPS

-----------------------------------------------------------------------------
(* The ring of the response queue, for every size and every set of ASDUs: it *)
(* is well formed, and it implements the bounded FIFO.                       *)

(* Types and ring shape depend on each other: an index stays inside the      *)
(* array because the block of used slots is contiguous.                      *)
IInv == TypeOK /\ RingOK

USE HighPrioAssumption DEF Index

-----------------------------------------------------------------------------
LEMMA SlotAtType ==
  ASSUME firstMsgIndex \in Index, NEW d \in Index
  PROVE  SlotAt(d) \in Index
BY DEF SlotAt

(* Enqueue writes the slot behind the newest entry and no used one. *)
LEMMA EnqueueSlot ==
  ASSUME IInv, NEW a \in Asdu, Enqueue(a), entryCounter # Size
  PROVE  /\ entryCounter' = entryCounter + 1 /\ entryCounter' \in 1..Size
         /\ firstMsgIndex' \in Index
         /\ lastMsgIndex' = SlotAt(entryCounter - 1)' /\ lastMsgIndex' \in Index
         /\ \A d \in 0..entryCounter :
              asdus[SlotAt(d)]' = IF d = entryCounter THEN a ELSE asdus[SlotAt(d)]
<1>1. PICK n \in Index : n = IF entryCounter = 0 THEN 0 ELSE Successor(lastMsgIndex)
      BY SlotAtType DEF IInv, TypeOK, RingOK, Successor
<1>2. /\ entryCounter' = entryCounter + 1 /\ lastMsgIndex' = n
      /\ firstMsgIndex' = IF entryCounter = 0 THEN 0 ELSE firstMsgIndex
      /\ asdus' = [asdus EXCEPT ![n] = a]
      BY <1>1 DEF Enqueue
<1>3. firstMsgIndex' \in Index /\ entryCounter' \in 1..Size
      BY <1>2 DEF IInv, TypeOK, RingOK
<1>4. \A d \in 0..entryCounter : SlotAt(d)' = n <=> d = entryCounter
  <2>1. CASE entryCounter = 0
        BY <1>1, <1>2, <2>1 DEF SlotAt
  <2>2. CASE entryCounter # 0
    <3>1. /\ firstMsgIndex' = firstMsgIndex /\ firstMsgIndex \in Index
          /\ entryCounter \in 1..(Size - 1)
          /\ n = Successor(SlotAt(entryCounter - 1))
          BY <1>1, <1>2, <2>2 DEF IInv, TypeOK, RingOK
    <3> QED BY <3>1 DEF SlotAt, Successor
  <2> QED BY <2>1, <2>2
<1>5. lastMsgIndex' = SlotAt(entryCounter - 1)'
  <2>1. SlotAt(entryCounter - 1)' = IF firstMsgIndex' + entryCounter >= Size
                                    THEN firstMsgIndex' + entryCounter - Size
                                    ELSE firstMsgIndex' + entryCounter
        BY <1>2 DEF SlotAt, IInv, TypeOK
  <2>2. \A d \in 0..entryCounter :
           SlotAt(d)' = IF firstMsgIndex' + d >= Size THEN firstMsgIndex' + d - Size
                        ELSE firstMsgIndex' + d
        BY DEF SlotAt
  <2> QED BY <1>2, <1>4, <2>1, <2>2 DEF IInv, TypeOK
<1>6. ASSUME NEW d \in 0..entryCounter
      PROVE  asdus[SlotAt(d)]' = IF d = entryCounter THEN a ELSE asdus[SlotAt(d)]
  <2>1. SlotAt(d)' \in Index
        BY <1>2, <1>3 DEF SlotAt, IInv, TypeOK
  <2>2. CASE d = entryCounter
        BY <1>1, <1>2, <1>4, <2>1, <2>2 DEF IInv, TypeOK
  <2>3. CASE d # entryCounter
    <3>1. SlotAt(d)' = SlotAt(d)
          BY <1>2, <2>3 DEF SlotAt, IInv, TypeOK
    <3> QED BY <1>2, <1>4, <2>1, <2>3, <3>1 DEF IInv, TypeOK
  <2> QED BY <2>2, <2>3
<1> QED BY <1>1, <1>2, <1>3, <1>5, <1>6

LEMMA EnqueueStep ==
  ASSUME IInv, NEW a \in Asdu, Enqueue(a)
  PROVE  IInv'
<1>1. CASE entryCounter = Size
      BY <1>1 DEF Enqueue, IInv, TypeOK, RingOK, SlotAt
<1>2. CASE entryCounter # Size
  <2>1. asdus' \in [Index -> Asdu \union {NoAsdu}] /\ accepted' = TRUE /\ taken' = taken
        BY <1>2 DEF Enqueue, IInv, TypeOK
  <2>2. TypeOK'
        BY <1>2, <2>1, EnqueueSlot DEF IInv, TypeOK
  <2>3. \A d \in 0..(entryCounter' - 1) : asdus[SlotAt(d)]' \in Asdu
        BY <1>2, EnqueueSlot DEF IInv, TypeOK, RingOK
  <2>4. RingOK'
        BY <1>2, <2>3, EnqueueSlot DEF RingOK
  <2> QED BY <2>2, <2>4 DEF IInv
<1> QED BY <1>1, <1>2

(* Taking the oldest entry moves every other one place forward. *)
LEMMA GetNextSlots ==
  ASSUME IInv, GetNextASDU, entryCounter \notin {0, 1}
  PROVE  /\ entryCounter' = entryCounter - 1 /\ entryCounter \in 2..Size
         /\ firstMsgIndex' \in Index
         /\ lastMsgIndex' = SlotAt(entryCounter - 1)'
         /\ taken' = asdus[SlotAt(0)]
         /\ \A d \in 0..(entryCounter - 2) : asdus[SlotAt(d)]' = asdus[SlotAt(d + 1)]
<1>1. /\ entryCounter' = entryCounter - 1 /\ firstMsgIndex' = Successor(firstMsgIndex)
      /\ UNCHANGED <<lastMsgIndex, asdus, accepted>> /\ taken' = asdus[firstMsgIndex]
      BY DEF GetNextASDU
<1>2. entryCounter \in 2..Size /\ firstMsgIndex \in Index
      /\ lastMsgIndex = SlotAt(entryCounter - 1)
      BY DEF IInv, TypeOK, RingOK
<1>3. firstMsgIndex' \in Index
      BY <1>1, <1>2 DEF Successor
<1>4. \A d \in 0..(entryCounter - 2) : SlotAt(d)' = SlotAt(d + 1)
      BY <1>1, <1>2 DEF SlotAt, Successor
<1>5. SlotAt(entryCounter - 1)' = SlotAt(entryCounter - 1)
      BY <1>1, <1>2 DEF SlotAt, Successor
<1>6. SlotAt(0) = firstMsgIndex
      BY <1>2 DEF SlotAt
<1> QED BY <1>1, <1>2, <1>3, <1>4, <1>5, <1>6

LEMMA GetNextStep ==
  ASSUME IInv, GetNextASDU
  PROVE  IInv'
<1>1. CASE entryCounter = 0
      BY <1>1 DEF GetNextASDU, IInv, TypeOK, RingOK
<1>2. CASE entryCounter = 1
  <2>1. taken' \in Asdu \union {NoAsdu}
        BY <1>2 DEF GetNextASDU, IInv, TypeOK, RingOK
  <2> QED BY <1>2, <2>1 DEF GetNextASDU, IInv, TypeOK, RingOK
<1>3. CASE entryCounter \notin {0, 1}
  <2>1. UNCHANGED <<lastMsgIndex, asdus, accepted>>
        BY <1>3 DEF GetNextASDU
  <2>2. taken' \in Asdu
        BY <1>3, GetNextSlots DEF IInv, TypeOK, RingOK
  <2>3. \A d \in 0..(entryCounter' - 1) : asdus[SlotAt(d)]' \in Asdu
        BY <1>3, GetNextSlots DEF IInv, TypeOK, RingOK
  <2>4. RingOK'
        BY <1>3, <2>3, GetNextSlots DEF RingOK
  <2>5. TypeOK'
        BY <1>3, <2>1, <2>2, GetNextSlots DEF IInv, TypeOK
  <2> QED BY <2>4, <2>5 DEF IInv
<1> QED BY <1>1, <1>2, <1>3

LEMMA ResetStep ==
  ASSUME IInv, ResetConnectionQueue
  PROVE  IInv'
BY DEF ResetConnectionQueue, IInv, TypeOK, RingOK

(* The inductive invariant holds in every reachable state. *)
THEOREM Invariance == Spec => []IInv
<1>1. Init => IInv
      BY DEF Init, IInv, TypeOK, RingOK
<1>2. IInv /\ [Next]_vars => IInv'
  <2> SUFFICES ASSUME IInv, [Next]_vars PROVE IInv'
      OBVIOUS
  <2>1. CASE UNCHANGED vars
        BY <2>1 DEF vars, IInv, TypeOK, RingOK, SlotAt
  <2> QED BY <2>1, EnqueueStep, GetNextStep, ResetStep DEF Next
<1> QED BY <1>1, <1>2, PTL DEF Spec

(* The queue's ring is one contiguous block of frames that were enqueued,    *)
(* for every size: no index leaves the array, no empty slot is sent.         *)
THEOREM RingCorrect == Spec => [](TypeOK /\ RingOK)
BY Invariance, PTL DEF IInv

-----------------------------------------------------------------------------
(* Refinement of the bounded FIFO. *)

FifoMeaning ==
  /\ Fifo \in Seq(Asdu) /\ Len(Fifo) = entryCounter
  /\ \A d \in 1..entryCounter : Fifo[d] = asdus[SlotAt(d - 1)]

LEMMA FifoType == IInv => FifoMeaning
<1> SUFFICES ASSUME IInv PROVE FifoMeaning
    OBVIOUS
<1>1. entryCounter \in Nat
      BY DEF IInv, TypeOK
<1>2. \A d \in 1..entryCounter : asdus[SlotAt(d - 1)] \in Asdu
      BY DEF IInv, TypeOK, RingOK
<1>3. Fifo \in [1..entryCounter -> Asdu]
      BY <1>2 DEF Fifo
<1>4. Fifo \in Seq(Asdu)
      BY <1>1, <1>3, SeqDef
<1>5. DOMAIN Fifo = 1..Len(Fifo) /\ Len(Fifo) \in Nat
      BY <1>4, LenProperties
<1>6. Len(Fifo) = entryCounter
      BY <1>1, <1>3, <1>5
<1> QED BY <1>4, <1>6 DEF Fifo, FifoMeaning

LEMMA FifoTypePrime == IInv' => FifoMeaning'
BY FifoType, PTL

LEMMA EnqueueRefines ==
  ASSUME IInv, IInv', NEW a \in Asdu, Enqueue(a)
  PROVE  BF!Enqueue(a)
<1>0. Len(Fifo) = entryCounter /\ Fifo \in Seq(Asdu) /\ entryCounter \in 0..Size
      BY FifoType DEF FifoMeaning, IInv, TypeOK
<1>1. CASE entryCounter = Size
  <2>1. Fifo' = Fifo
        BY <1>1 DEF Enqueue, Fifo, SlotAt
  <2> QED BY <1>0, <1>1, <2>1 DEF Enqueue, BF!Enqueue
<1>2. CASE entryCounter # Size
  <2>1. /\ Append(Fifo, a) \in Seq(Asdu) /\ Len(Append(Fifo, a)) = entryCounter + 1
        /\ \A d \in 1..(entryCounter + 1) :
             Append(Fifo, a)[d] = IF d <= entryCounter THEN Fifo[d] ELSE a
        BY <1>0, AppendProperties
  <2>2. Fifo' \in Seq(Asdu) /\ Len(Fifo') = entryCounter + 1
        /\ \A d \in 1..(entryCounter + 1) : Fifo'[d] = asdus[SlotAt(d - 1)]'
        BY <1>2, FifoTypePrime, EnqueueSlot DEF FifoMeaning
  <2>3. ASSUME NEW d \in 1..(entryCounter + 1)
        PROVE  Fifo'[d] = Append(Fifo, a)[d]
    <3>1. PICK e \in 0..entryCounter : e = d - 1
          BY <1>0
    <3>2. asdus[SlotAt(e)]' = IF e = entryCounter THEN a ELSE asdus[SlotAt(e)]
          BY <1>2, EnqueueSlot
    <3>3. asdus[SlotAt(d - 1)]' = asdus[SlotAt(e)]' /\ SlotAt(d - 1) = SlotAt(e)
          BY <3>1 DEF SlotAt
    <3>4. e # entryCounter => Fifo[d] = asdus[SlotAt(d - 1)]
          BY <1>0, <3>1, FifoType DEF FifoMeaning
    <3> QED BY <1>0, <2>1, <2>2, <3>1, <3>2, <3>3, <3>4
  <2>4. Fifo' = Append(Fifo, a)
        BY <2>1, <2>2, <2>3, SeqEqual
  <2> QED BY <1>0, <1>2, <2>4 DEF Enqueue, BF!Enqueue
<1> QED BY <1>1, <1>2

LEMMA GetRefines ==
  ASSUME IInv, IInv', GetNextASDU
  PROVE  BF!Get
<1>0. Len(Fifo) = entryCounter /\ Fifo \in Seq(Asdu) /\ entryCounter \in 0..Size
      BY FifoType DEF FifoMeaning, IInv, TypeOK
<1>1. CASE entryCounter = 0
  <2>1. Fifo = <<>>
        BY <1>0, <1>1, EmptySeq
  <2>2. Fifo' = Fifo
        BY <1>1 DEF GetNextASDU, Fifo, SlotAt
  <2> QED BY <1>1, <2>1, <2>2 DEF GetNextASDU, BF!Get
<1>2. CASE entryCounter # 0
  <2>1. Fifo # <<>>
        BY <1>0, <1>2, EmptySeq
  <2>2. /\ Tail(Fifo) \in Seq(Asdu) /\ Len(Tail(Fifo)) = entryCounter - 1
        /\ \A d \in 1..(entryCounter - 1) : Tail(Fifo)[d] = Fifo[d + 1]
        BY <1>0, <2>1, HeadTailProperties
  <2>3. Head(Fifo) = asdus[SlotAt(0)]
    <3>1. Head(Fifo) = Fifo[1]
          BY <1>0, <2>1
    <3>2. Fifo[1] = asdus[SlotAt(1 - 1)] /\ 1 - 1 = 0
          BY <1>0, <1>2, FifoType DEF FifoMeaning
    <3> QED BY <3>1, <3>2
  <2>4. entryCounter' = entryCounter - 1 /\ taken' = asdus[SlotAt(0)] /\ UNCHANGED accepted
    <3>1. SlotAt(0) = firstMsgIndex
          BY <1>2 DEF SlotAt, IInv, TypeOK, RingOK
    <3> QED BY <1>0, <1>2, <3>1 DEF GetNextASDU
  <2>5. Fifo' \in Seq(Asdu) /\ Len(Fifo') = entryCounter - 1
        /\ \A d \in 1..(entryCounter - 1) : Fifo'[d] = asdus[SlotAt(d - 1)]'
        BY <2>4, FifoTypePrime DEF FifoMeaning
  <2>6. ASSUME NEW d \in 1..(entryCounter - 1)
        PROVE  Fifo'[d] = Tail(Fifo)[d]
    <3>1. PICK e \in 0..(entryCounter - 2) : e = d - 1
          BY <1>0
    <3>2. asdus[SlotAt(e)]' = asdus[SlotAt(e + 1)]
          BY <1>0, <3>1, GetNextSlots
    <3>3. asdus[SlotAt(d - 1)]' = asdus[SlotAt(e)]' /\ SlotAt(e + 1) = SlotAt((d + 1) - 1)
          BY <3>1 DEF SlotAt
    <3>4. Fifo[d + 1] = asdus[SlotAt((d + 1) - 1)]
          BY <1>0, FifoType DEF FifoMeaning
    <3> QED BY <2>2, <2>5, <3>2, <3>3, <3>4
  <2>7. Fifo' = Tail(Fifo)
        BY <2>2, <2>5, <2>6, SeqEqual
  <2> QED BY <2>1, <2>3, <2>4, <2>7 DEF BF!Get
<1> QED BY <1>1, <1>2

LEMMA ResetRefines ==
  ASSUME IInv', ResetConnectionQueue
  PROVE  BF!Reset
<1>1. Fifo' \in Seq(Asdu) /\ Len(Fifo') = 0
      BY FifoTypePrime DEF FifoMeaning, ResetConnectionQueue
<1>2. Fifo' = <<>>
      BY <1>1, EmptySeq
<1> QED BY <1>2 DEF ResetConnectionQueue, BF!Reset

(* The ring implements the bounded FIFO, for every size: order kept, nothing *)
(* duplicated or lost, refusal exactly when full.                            *)
THEOREM Refinement == Spec => ImplementsFifo
<1>1. Init => BF!Init
  <2> SUFFICES ASSUME Init PROVE BF!Init
      OBVIOUS
  <2>1. IInv
        BY DEF Init, IInv, TypeOK, RingOK
  <2>2. Fifo \in Seq(Asdu) /\ Len(Fifo) = 0
        BY <2>1, FifoType DEF FifoMeaning, Init
  <2>3. Fifo = <<>>
        BY <2>2, EmptySeq
  <2> QED BY <2>3 DEF Init, BF!Init
<1>2. IInv /\ IInv' /\ [Next]_vars => [BF!Next]_BF!fifoVars
  <2> SUFFICES ASSUME IInv, IInv', [Next]_vars PROVE [BF!Next]_BF!fifoVars
      OBVIOUS
  <2>1. CASE UNCHANGED vars
        BY <2>1 DEF vars, BF!fifoVars, Fifo, SlotAt
  <2> QED BY <2>1, EnqueueRefines, GetRefines, ResetRefines DEF Next, BF!Next
<1> QED BY Invariance, <1>1, <1>2, PTL DEF Spec, ImplementsFifo, BF!Spec

HIDE HighPrioAssumption DEF Index

-----------------------------------------------------------------------------
(* The dispatch of a received ASDU.                                          *)

(* Where the thread is, or goes when it has queued its answer. *)
Place == IF thread = "queue" THEN next ELSE thread

Answering == {"handler", "asduHandler", "default", "done"}
Undecided == {"default", "asduHandler", "reject"}

Returns == thread = "queue" => next \in Answering

(* Verdict and taker at every place of handleASDU; OneVerdict is its end. *)
Verdict ==
  /\ Place = "switch" =>
       /\ asdu.type \in Types
       /\ causeRight <=> (asdu.type \in Known => asdu.cot \in PermittedCauses[asdu.type])
  /\ Place = "handler" => causeRight /\ handler \in installed
  /\ Place = "asduHandler" => "asduHandler" \in installed
  /\ Place # "done" =>
       /\ taker = None
       /\ verdicts = IF Place \in Undecided /\ ~causeRight THEN <<"UNKNOWN_COT">> ELSE <<>>
  /\ Place = "done" =>
       IF causeRight
       THEN \/ taker = None /\ verdicts = <<"UNKNOWN_TYPE_ID">>
            \/ taker \in {"library", "clockSyncHandler"} /\ verdicts = <<"ACTIVATION_CON">>
            \/ taker \in installed \ {"clockSyncHandler"} /\ verdicts = <<>>
       ELSE \/ taker \in {"library", "asduHandler"} /\ verdicts = <<"UNKNOWN_COT">>
            \/ taker = None /\ verdicts = <<"UNKNOWN_COT", "UNKNOWN_TYPE_ID">>

-----------------------------------------------------------------------------
LEMMA AppendPair ==
  ASSUME NEW a, NEW b
  PROVE  Append(<<a>>, b) = <<a, b>>
<1> DEFINE S == {a, b}
           s == Append(<<a>>, b)
           t == <<a, b>>
<1>1. <<a>> \in Seq(S) /\ Len(<<a>>) = 1 /\ <<a>>[1] = a
      OBVIOUS
<1>2. s \in Seq(S) /\ Len(s) = 2 /\ s[1] = a /\ s[2] = b
      BY <1>1, AppendProperties
<1>3. t \in Seq(S) /\ Len(t) = 2 /\ t[1] = a /\ t[2] = b
      OBVIOUS
<1> HIDE DEF s, t
<1>4. \A i \in 1..Len(s) : s[i] = t[i]
      BY <1>2, <1>3
<1>5. s = t
      BY <1>2, <1>3, <1>4, SeqEqual, Zenon
<1> QED BY <1>5 DEF s, t

LEMMA RespondGoesOn ==
  ASSUME NEW place \in Answering, Respond(place)
  PROVE  Returns' /\ Place' = place
BY DEF Respond, Returns, Place, Answering

(* The verdicts of handleASDU, step by step. *)
LEMMA SwitchVerdict ==
  ASSUME Verdict, HandleASDU, Switch
  PROVE  Verdict'
<1>1. thread = "switch" /\ Place = "switch" /\ asdu.type \in Types
      /\ (causeRight <=> (asdu.type \in Known => asdu.cot \in PermittedCauses[asdu.type]))
      /\ taker = None /\ verdicts = <<>> /\ UNCHANGED <<installed, causeRight>>
  <2>1. thread = "switch"
        BY DEF Switch, CallHandler, CauseUnknown, TestCommand, NoHandler
  <2> QED BY <2>1 DEF Verdict, Place, HandleASDU, session, Undecided
<1>2. CASE CallHandler
  <2>1. thread' = "handler" /\ handler' = Handlers[asdu.type] /\ handler' \in installed
        /\ causeRight /\ UNCHANGED <<verdicts, taker>>
        BY <1>2 DEF CallHandler, HandlerInstalled
  <2> QED BY <1>1, <2>1 DEF Verdict, Place, Undecided
<1>3. CASE CauseUnknown
  <2>1. Place' = "default" /\ ~causeRight /\ verdicts' = <<"UNKNOWN_COT">> /\ taker' = None
        BY <1>1, <1>3, RespondGoesOn DEF CauseUnknown, Answers, Answering
  <2> QED BY <1>1, <2>1 DEF Verdict, Undecided
<1>4. CASE TestCommand
  <2>1. Place' = "done" /\ taker' = "library"
        /\ verdicts' = <<IF causeRight THEN "ACTIVATION_CON" ELSE "UNKNOWN_COT">>
        BY <1>1, <1>4, RespondGoesOn DEF TestCommand, Answers, Answering
  <2> QED BY <1>1, <2>1 DEF Verdict, Undecided
<1>5. CASE NoHandler
  <2>1. thread' = "default" /\ causeRight /\ UNCHANGED <<verdicts, taker>>
        BY <1>5 DEF NoHandler
  <2> QED BY <1>1, <2>1 DEF Verdict, Place, Undecided
<1> QED BY <1>2, <1>3, <1>4, <1>5 DEF Switch

LEMMA HandlersVerdict ==
  ASSUME Verdict, HandleASDU, ~Switch
  PROVE  Verdict'
<1>1. UNCHANGED <<asdu, handler, installed, causeRight>>
      BY DEF HandleASDU, session
<1>2. CASE HandlerAnswers
  <2>1. thread \in {"handler", "asduHandler"} /\ Place' = thread /\ Place = thread
        /\ UNCHANGED <<verdicts, taker>>
        BY <1>2, RespondGoesOn DEF HandlerAnswers, Answering, Place
  <2> QED BY <1>1, <2>1 DEF Verdict, Undecided
<1>3. CASE ClockSet
  <2>1. Place = "handler" /\ Place' = "done" /\ taker' = "clockSyncHandler"
        /\ verdicts' = Append(verdicts, "ACTIVATION_CON")
        BY <1>3 DEF ClockSet, Goto, Place
  <2>2. causeRight /\ verdicts = <<>>
        BY <2>1 DEF Verdict, Undecided
  <2> QED BY <1>1, <2>1, <2>2 DEF Verdict, Undecided
<1>4. CASE ClockNotSet
  <2>1. Place = "handler" /\ Place' = "done" /\ taker' = "clockSyncHandler"
        /\ verdicts' = Append(verdicts, "ACTIVATION_CON")
        BY <1>4, RespondGoesOn DEF ClockNotSet, Answers, Answering, Place
  <2>2. causeRight /\ verdicts = <<>>
        BY <2>1 DEF Verdict, Undecided
  <2> QED BY <1>1, <2>1, <2>2 DEF Verdict, Undecided
<1>5. CASE HandlerReturns
  <2>1. Place = "handler" /\ handler # "clockSyncHandler" /\ UNCHANGED verdicts
        /\ (\/ Place' = "done" /\ taker' = handler
            \/ Place' = "default" /\ UNCHANGED taker)
        BY <1>5 DEF HandlerReturns, Goto, Place
  <2>2. causeRight /\ handler \in installed /\ verdicts = <<>> /\ taker = None
        BY <2>1 DEF Verdict, Undecided
  <2> QED BY <1>1, <2>1, <2>2 DEF Verdict, Undecided
<1>6. CASE Default
  <2>1. Place = "default" /\ UNCHANGED <<verdicts, taker>>
        /\ Place' = IF "asduHandler" \in installed THEN "asduHandler" ELSE "reject"
        BY <1>6 DEF Default, Goto, Place
  <2>2. taker = None /\ verdicts = IF ~causeRight THEN <<"UNKNOWN_COT">> ELSE <<>>
        BY <2>1 DEF Verdict, Undecided
  <2>3. CASE "asduHandler" \in installed
        BY <1>1, <2>1, <2>2, <2>3 DEF Verdict, Undecided
  <2>4. CASE "asduHandler" \notin installed
        BY <1>1, <2>1, <2>2, <2>4 DEF Verdict, Undecided
  <2> QED BY <2>3, <2>4
<1>7. CASE DefaultReturns
  <2>1. Place = "asduHandler" /\ UNCHANGED verdicts
        /\ (\/ Place' = "done" /\ taker' = "asduHandler"
            \/ Place' = "reject" /\ UNCHANGED taker)
        BY <1>7 DEF DefaultReturns, Goto, Place
  <2> QED BY <1>1, <2>1 DEF Verdict, Undecided
<1>8. CASE Reject
  <2>1. Place = "reject" /\ Place' = "done" /\ UNCHANGED taker
        /\ verdicts' = Append(verdicts, "UNKNOWN_TYPE_ID")
        BY <1>8, RespondGoesOn DEF Reject, Answers, Answering, Place
  <2>2. taker = None /\ verdicts = IF ~causeRight THEN <<"UNKNOWN_COT">> ELSE <<>>
        BY <2>1 DEF Verdict, Undecided
  <2>3. CASE causeRight
    <3>1. taker' = None /\ verdicts' = <<"UNKNOWN_TYPE_ID">>
          BY <2>1, <2>2, <2>3
    <3> QED BY <1>1, <2>1, <2>3, <3>1 DEF Verdict
  <2>4. CASE ~causeRight
    <3>1. taker' = None /\ verdicts' = <<"UNKNOWN_COT", "UNKNOWN_TYPE_ID">>
      <4>1. verdicts = <<"UNKNOWN_COT">>
            BY <2>2, <2>4
      <4>2. Append(<<"UNKNOWN_COT">>, "UNKNOWN_TYPE_ID") = <<"UNKNOWN_COT", "UNKNOWN_TYPE_ID">>
            BY AppendPair, Zenon
      <4> QED BY <2>1, <2>2, <4>1, <4>2, Zenon
    <3> QED BY <1>1, <2>1, <2>4, <3>1 DEF Verdict
  <2> QED BY <2>3, <2>4
<1> QED BY <1>2, <1>3, <1>4, <1>5, <1>6, <1>7, <1>8 DEF HandleASDU

(* The other actions: a command is received, and forgotten when it is done.   *)
LEMMA VerdictStep ==
  ASSUME Returns, Verdict, [DispatchNext]_dispatchVars
  PROVE  Verdict'
<1>1. CASE HandleASDU
      BY <1>1, SwitchVerdict, HandlersVerdict
<1>2. CASE UNCHANGED <<thread, next, asdu, causeRight, handler, installed, verdicts, taker>>
      BY <1>2 DEF Verdict, Place
<1>3. CASE QueueAnswer
  <2>1. Place' = Place
        BY <1>3 DEF QueueAnswer, Goto, Place, Returns, Answering
  <2> QED BY <1>3, <2>1 DEF QueueAnswer, session, handling, Verdict
<1>4. CASE ReceiveCommand
  <2>1. thread = "wait" /\ Place = "wait" /\ taker = None /\ verdicts = <<>>
        BY <1>4 DEF ReceiveCommand, Receives, Place, Verdict, Undecided
  <2>2. UNCHANGED <<taker, verdicts>>
        BY <1>4 DEF ReceiveCommand, handling
  <2>3. CASE thread' = "loop"
        BY <2>1, <2>2, <2>3 DEF Place, Verdict, Undecided
  <2>4. CASE /\ thread' = "switch"
             /\ asdu' \in [type : Types, cot : Causes]
             /\ causeRight' = (asdu'.type \in Known
                               => asdu'.cot \in PermittedCauses[asdu'.type])
        BY <2>1, <2>2, <2>4 DEF Place, Verdict, Undecided
  <2> QED BY <1>4, <2>3, <2>4 DEF ReceiveCommand
<1>5. CASE Handled
  <2>1. Place' = "loop" /\ taker' = None /\ verdicts' = <<>>
        BY <1>5 DEF Handled, Goto, Place
  <2> QED BY <2>1 DEF Verdict, Undecided
<1>6. CASE \/ ReceiveS \/ StartDT \/ StopDT \/ StartedDT
           \/ Loop \/ AnswerAvailable \/ SendAnswer \/ SendEvent
  <2>1. /\ thread \in {"wait", "reset", "loop", "send", "take"}
        /\ thread' \in {"wait", "reset", "loop", "send", "take"}
        /\ UNCHANGED <<taker, verdicts>>
        BY <1>6 DEF ReceiveS, StartDT, StopDT, StartedDT, Loop, AnswerAvailable, SendAnswer,
                    SendEvent, Receives, Goto, handling
  <2>2. taker = None /\ verdicts = <<>>
        BY <2>1 DEF Verdict, Place, Undecided
  <2> QED BY <2>1, <2>2 DEF Verdict, Place, Undecided
<1>7. CASE Application
      BY <1>2, <1>7 DEF Application, Terminate, TerminationWritten, TerminationQueued,
                        handling, session
<1>8. CASE OtherConnections
      BY <1>2, <1>8 DEF OtherConnections, OtherActivates, OtherUsesQueue, handling, session
<1>9. CASE UNCHANGED dispatchVars
      BY <1>2, <1>9 DEF dispatchVars, dispatch
<1> QED BY <1>1, <1>3, <1>4, <1>5, <1>6, <1>7, <1>8, <1>9 DEF DispatchNext, Client, Thread

LEMMA ReturnsStep ==
  ASSUME Returns, [DispatchNext]_dispatchVars
  PROVE  Returns'
<1>1. CASE HandleASDU
  <2>1. CASE thread' # "queue"
        BY <2>1 DEF Returns
  <2>2. CASE thread' = "queue" /\ Switch
        BY <2>2, RespondGoesOn DEF Switch, CallHandler, CauseUnknown, TestCommand, NoHandler,
                                   Answers, Answering
  <2>3. CASE thread' = "queue" /\ ~Switch
        BY <1>1, <2>3, RespondGoesOn
        DEF HandleASDU, HandlerAnswers, ClockSet, ClockNotSet, HandlerReturns, Default,
            DefaultReturns, Reject, Answers, Answering, Goto
  <2> QED BY <2>1, <2>2, <2>3
<1>2. CASE UNCHANGED <<thread, next>>
      BY <1>2 DEF Returns
<1>3. CASE thread' # "queue"
      BY <1>3 DEF Returns
<1>4. CASE QueueAnswer
      BY <1>3, <1>4 DEF QueueAnswer, Goto, Returns, Answering
<1>5. CASE Client
      BY <1>3, <1>5 DEF Client, ReceiveS, StartDT, StopDT, ReceiveCommand, Goto
<1>6. CASE Handled \/ StartedDT \/ Loop \/ AnswerAvailable \/ SendAnswer \/ SendEvent
      BY <1>3, <1>6 DEF Handled, StartedDT, Loop, AnswerAvailable, SendAnswer, SendEvent, Goto
<1>7. CASE Application
      BY <1>2, <1>7 DEF Application, Terminate, TerminationWritten, TerminationQueued
<1>8. CASE OtherConnections
      BY <1>2, <1>8 DEF OtherConnections, OtherActivates, OtherUsesQueue
<1>9. CASE UNCHANGED dispatchVars
      BY <1>2, <1>9 DEF dispatchVars, dispatch
<1> QED BY <1>1, <1>4, <1>5, <1>6, <1>7, <1>8, <1>9 DEF DispatchNext, Thread

(* Whatever handlers are installed and however often they answer: every      *)
(* command comes to one verdict (handleASDU).                                *)
THEOREM VerdictCorrect == DispatchSpec => []OneVerdict
<1>1. DispatchInit => Returns /\ Verdict
      BY DEF DispatchInit, Returns, Verdict, Place, Undecided
<1>2. Returns /\ Verdict /\ [DispatchNext]_dispatchVars => Returns' /\ Verdict'
      BY VerdictStep, ReturnsStep
<1>3. Verdict => OneVerdict
      BY DEF Verdict, OneVerdict, Place
<1> QED BY <1>1, <1>2, <1>3, PTL DEF DispatchSpec

-----------------------------------------------------------------------------
(* What Dispatch does to the response queue are steps of HighPriorityQueue,  *)
(* so that all that is proved about the queue alone holds of it here.        *)
Active == {"switch", "handler", "default", "asduHandler", "reject", "done", "queue"}

ApplicationTyped ==
  /\ application \in [at : {"idle", "active", "queue"}, cmd : 0..MaxCommands]
  /\ application.at # "idle" => application.cmd \in Commands

Typed ==
  /\ Returns
  /\ command \in 0..MaxCommands /\ answers \in 0..MaxAnswers
  /\ thread \in Active => command \in Commands
  /\ ApplicationTyped

LEMMA RespondTyped ==
  ASSUME Typed, NEW place, Respond(place)
  PROVE  answers' \in 0..MaxAnswers
BY DispatchAssumption DEF Respond, Typed

LEMMA TypedStep ==
  ASSUME Typed, [DispatchNext]_dispatchVars
  PROVE  Typed'
<1>0. Returns'
      BY ReturnsStep DEF Typed
<1>1. CASE HandleASDU
  <2>1. thread \in Active /\ UNCHANGED <<command, application>>
        BY <1>1 DEF HandleASDU, second, Switch, CallHandler, CauseUnknown, TestCommand, NoHandler,
                    HandlerAnswers, ClockSet, ClockNotSet, HandlerReturns, Default,
                    DefaultReturns, Reject, Goto, Active
  <2>2. answers' \in 0..MaxAnswers
        BY <1>1, RespondTyped
        DEF HandleASDU, Switch, CallHandler, CauseUnknown, TestCommand, NoHandler, Answers,
            HandlerAnswers, ClockSet, ClockNotSet, HandlerReturns, Default, DefaultReturns,
            Reject, Typed
  <2> QED BY <1>0, <2>1, <2>2 DEF Typed, ApplicationTyped
<1>2. CASE QueueAnswer
      BY <1>0, <1>2 DEF QueueAnswer, Goto, handling, second, Typed, ApplicationTyped, Active
<1>3. CASE ReceiveCommand
      BY <1>0, <1>3, DispatchAssumption
      DEF ReceiveCommand, Receives, handling, second, Typed, ApplicationTyped, Active, Commands
<1>4. CASE Handled
      BY <1>0, <1>4, DispatchAssumption DEF Handled, Goto, second, Typed, ApplicationTyped, Active
<1>5. CASE \/ ReceiveS \/ StartDT \/ StopDT \/ StartedDT
           \/ Loop \/ AnswerAvailable \/ SendAnswer \/ SendEvent
  <2>1. thread' \notin Active /\ UNCHANGED <<command, answers, application>>
        BY <1>5 DEF ReceiveS, StartDT, StopDT, StartedDT, Loop, AnswerAvailable, SendAnswer,
                    SendEvent, Goto, handling, second, Active
  <2> QED BY <1>0, <2>1 DEF Typed, ApplicationTyped
<1>6. CASE Application
  <2>1. UNCHANGED <<thread, command, answers>>
        BY <1>6 DEF Application, Terminate, TerminationWritten, TerminationQueued, handling
  <2>2. ApplicationTyped'
    <3>1. ASSUME NEW c \in Commands, Terminate(c) PROVE ApplicationTyped'
          BY <3>1, DispatchAssumption DEF Terminate, Commands, ApplicationTyped
    <3>2. CASE TerminationWritten
          BY <3>2, DispatchAssumption DEF TerminationWritten, Idle, Typed, ApplicationTyped
    <3>3. CASE TerminationQueued
          BY <3>3, DispatchAssumption DEF TerminationQueued, Idle, Typed, ApplicationTyped
    <3> QED BY <1>6, <3>1, <3>2, <3>3 DEF Application
  <2> QED BY <1>0, <2>1, <2>2 DEF Typed, ApplicationTyped
<1>7. CASE OtherConnections
      BY <1>0, <1>7 DEF OtherConnections, OtherActivates, OtherUsesQueue, handling, second,
                        Typed, ApplicationTyped
<1>8. CASE UNCHANGED dispatchVars
      BY <1>0, <1>8 DEF dispatchVars, dispatch, Typed, ApplicationTyped
<1> QED BY <1>1, <1>2, <1>3, <1>4, <1>5, <1>6, <1>7, <1>8 DEF DispatchNext, Client, Thread

LEMMA QueueStep ==
  ASSUME Typed, [DispatchNext]_dispatchVars
  PROVE  [Next]_vars
<1>1. CASE QueueAnswer
  <2>1. [cmd |-> command, n |-> answers] \in Asdu
        BY <1>1, DispatchAssumption DEF QueueAnswer, Goto, Typed, Active, Answer
  <2> QED BY <1>1, <2>1 DEF QueueAnswer, Next
<1>2. CASE TerminationQueued
  <2>1. [cmd |-> application.cmd, n |-> 0] \in Asdu
        BY <1>2, DispatchAssumption DEF TerminationQueued, Typed, ApplicationTyped, Answer
  <2> QED BY <1>2, <2>1 DEF TerminationQueued, Next
<1>3. CASE StartedDT
      BY <1>3 DEF StartedDT, Next
<1>4. CASE SendAnswer
      BY <1>4 DEF SendAnswer, Next
<1>5. CASE OtherUsesQueue
      BY <1>5 DEF OtherUsesQueue, Next
<1>6. CASE UNCHANGED vars
      BY <1>6
<1>7. CASE Client
      BY <1>6, <1>7 DEF Client, ReceiveS, StartDT, StopDT, ReceiveCommand
<1>8. CASE HandleASDU \/ Handled \/ Loop \/ AnswerAvailable \/ SendEvent
      BY <1>6, <1>8 DEF HandleASDU, Handled, Loop, AnswerAvailable, SendEvent
<1>9. CASE TerminationWritten \/ OtherActivates \/ \E c \in Commands : Terminate(c)
      BY <1>6, <1>9 DEF TerminationWritten, OtherActivates, Terminate
<1>10. CASE UNCHANGED dispatchVars
      BY <1>10 DEF dispatchVars
<1> QED BY <1>1, <1>2, <1>3, <1>4, <1>5, <1>7, <1>8, <1>9, <1>10
        DEF DispatchNext, Thread, Application, OtherConnections

(* The server's use of the response queue is a behaviour of the queue alone: *)
(* answers leave it first in, first out, and none is lost but by a STARTDT.  *)
THEOREM QueueRefined == DispatchSpec => Spec /\ ImplementsFifo
<1>1. DispatchInit => Init /\ Typed
      BY DispatchAssumption DEF DispatchInit, Typed, ApplicationTyped, Returns, Active, Idle
<1>2. Typed /\ [DispatchNext]_dispatchVars => Typed' /\ [Next]_vars
      BY TypedStep, QueueStep
<1> QED BY <1>1, <1>2, Refinement, PTL DEF DispatchSpec, Spec

-----------------------------------------------------------------------------
(* The order of the answers. What waits in the queue for a command has not   *)
(* been written yet, a later answer lies behind an earlier one, and while    *)
(* the thread answers, its earlier answers wait only if the k-buffer is full:*)
(* then the thread writes none past them.                                    *)
Handling == thread \in Active

Ahead ==
  \A d \in 1..Len(Fifo) : Fifo[d].n # 0 =>
    /\ Fifo[d].cmd \in fresh
    /\ Fifo[d].n > written[Fifo[d].cmd]
    /\ Handling /\ Fifo[d].cmd = command =>
         /\ inFlight >= K
         /\ Fifo[d].n <= answers
         /\ thread = "queue" => Fifo[d].n < answers

Sorted ==
  \A d, e \in 1..Len(Fifo) :
    /\ d < e
    /\ Fifo[d].cmd = Fifo[e].cmd
    /\ Fifo[d].n # 0
    /\ Fifo[e].n # 0
    => Fifo[d].n < Fifo[e].n

Own ==
  /\ inFlight \in Nat
  /\ fresh \subseteq 1..command
  /\ written \in [Commands -> 0..MaxAnswers]
  /\ \A c \in Commands : c > command => written[c] = 0
  /\ ~Handling => answers = 0
  /\ Handling => command \in fresh /\ written[command] <= answers
  /\ thread = "queue" => inFlight >= K /\ written[command] < answers

AnswerOrder == Ahead /\ Sorted /\ Own

(* What a step writes comes later than what was written, and after the last  *)
(* STARTDT.                                                                  *)
OrderlyWrites ==
  \A c \in Commands :
    /\ written'[c] >= written[c]
    /\ written'[c] # written[c] => c \in fresh

LEMMA WritesNothing ==
  ASSUME written \in [Commands -> 0..MaxAnswers], UNCHANGED written
  PROVE  OrderlyWrites
<1>1. \A c \in Commands : written[c] \in 0..MaxAnswers
      OBVIOUS
<1> QED BY <1>1, DispatchAssumption DEF OrderlyWrites

(* Nothing enters the queue: it is left alone, its head taken, or emptied.   *)
Shrinks(s) ==
  /\ s + Len(Fifo') <= Len(Fifo)
  /\ \A d \in 1..Len(Fifo') : Fifo'[d] = Fifo[d + s]

LEMMA QueueTyped ==
  ASSUME IInv
  PROVE  /\ Fifo \in Seq(Answer) /\ Len(Fifo) \in Nat
         /\ \A d \in 1..Len(Fifo) :
              /\ Fifo[d] \in Answer
              /\ Fifo[d].n \in 0..MaxAnswers
              /\ Fifo[d].cmd \in Commands
<1>1. Fifo \in Seq(Answer)
      BY FifoType, DispatchAssumption DEF FifoMeaning
<1>2. \A d \in 1..Len(Fifo) : Fifo[d] \in Answer
      BY <1>1, ElementOfSeq
<1> QED BY <1>1, <1>2, LenProperties DEF Answer

LEMMA QueueTypedPrime ==
  IInv' => /\ Fifo' \in Seq(Answer) /\ Len(Fifo') \in Nat
           /\ \A d \in 1..Len(Fifo') :
                /\ Fifo'[d] \in Answer
                /\ Fifo'[d].n \in 0..MaxAnswers
                /\ Fifo'[d].cmd \in Commands
<1> DEFINE T == /\ Fifo \in Seq(Answer) /\ Len(Fifo) \in Nat
                /\ \A d \in 1..Len(Fifo) :
                     /\ Fifo[d] \in Answer
                     /\ Fifo[d].n \in 0..MaxAnswers
                     /\ Fifo[d].cmd \in Commands
<1>1. IInv => T
      BY QueueTyped
<1>2. IInv' => T'
      BY <1>1, PTL
<1> QED BY <1>2

LEMMA SameShrinks ==
  ASSUME IInv, UNCHANGED vars
  PROVE  Shrinks(0)
<1>1. Fifo' = Fifo
      BY DEF vars, Fifo, SlotAt
<1> QED BY <1>1, QueueTyped DEF Shrinks

LEMMA ResetShrinks ==
  ASSUME IInv, IInv', ResetConnectionQueue
  PROVE  Shrinks(0) /\ Len(Fifo') = 0
<1>1. Fifo' = <<>>
      BY ResetRefines DEF BF!Reset
<1> QED BY <1>1, QueueTyped DEF Shrinks

LEMMA GetShrinks ==
  ASSUME IInv, IInv', GetNextASDU
  PROVE  \/ taken' = NoAsdu /\ Shrinks(0)
         \/ Len(Fifo) > 0 /\ taken' = Fifo[1] /\ Shrinks(1)
<1>1. CASE Fifo = <<>> /\ taken' = NoAsdu /\ Fifo' = Fifo
      BY <1>1, QueueTyped DEF Shrinks
<1>2. CASE Fifo # <<>> /\ taken' = Head(Fifo) /\ Fifo' = Tail(Fifo)
  <2>1. Len(Fifo) > 0
        BY <1>2, QueueTyped, EmptySeq
  <2>2. /\ Len(Fifo') = Len(Fifo) - 1 /\ taken' = Fifo[1]
        /\ \A d \in 1..(Len(Fifo) - 1) : Fifo'[d] = Fifo[d + 1]
        BY <1>2, QueueTyped, HeadTailProperties
  <2> QED BY <2>1, <2>2, QueueTyped DEF Shrinks
<1> QED BY <1>1, <1>2, GetRefines DEF BF!Get

LEMMA EnqueueGrows ==
  ASSUME IInv, IInv', NEW a \in Answer, Enqueue(a)
  PROVE  \/ Shrinks(0)
         \/ /\ Len(Fifo') = Len(Fifo) + 1
            /\ \A d \in 1..Len(Fifo') : Fifo'[d] = IF d <= Len(Fifo) THEN Fifo[d] ELSE a
<1>0. BF!Enqueue(a)
      BY EnqueueRefines, DispatchAssumption
<1>1. CASE Fifo' = Fifo
      BY <1>1, QueueTyped DEF Shrinks
<1>2. CASE Fifo' = Append(Fifo, a)
      BY <1>2, QueueTyped, AppendProperties
<1> QED BY <1>0, <1>1, <1>2 DEF BF!Enqueue

LEMMA SortedShrinks ==
  ASSUME IInv, Sorted, NEW s \in {0, 1}, Shrinks(s), Len(Fifo') \in Nat
  PROVE  Sorted'
<1> SUFFICES ASSUME NEW d \in 1..Len(Fifo'), NEW e \in 1..Len(Fifo'), d < e,
                    Fifo'[d].cmd = Fifo'[e].cmd, Fifo'[d].n # 0, Fifo'[e].n # 0
             PROVE  Fifo'[d].n < Fifo'[e].n
    BY DEF Sorted
<1>1. /\ d + s \in 1..Len(Fifo) /\ Fifo'[d] = Fifo[d + s]
      /\ e + s \in 1..Len(Fifo) /\ Fifo'[e] = Fifo[e + s]
      /\ d + s < e + s
      BY QueueTyped DEF Shrinks
<1> QED BY <1>1 DEF Sorted

(* A step that answers nothing: what is left in the queue keeps its order.   *)
LEMMA QuietStep ==
  ASSUME IInv, IInv', AnswerOrder, NEW s \in {0, 1}, Shrinks(s),
         UNCHANGED <<command, fresh, written>>, inFlight' \in Nat,
         Handling' => inFlight' >= inFlight /\ Handling /\ answers' = answers,
         ~Handling' => answers' = 0,
         thread' = "queue" => thread = "queue"
  PROVE  AnswerOrder'
<1>1. Sorted'
      BY SortedShrinks, QueueTypedPrime DEF AnswerOrder
<1>2. Own'
      BY DispatchAssumption DEF AnswerOrder, Own, Handling, Active
<1>3. Ahead'
  <2> SUFFICES ASSUME NEW d \in 1..Len(Fifo'), Fifo'[d].n # 0
               PROVE  /\ Fifo'[d].cmd \in fresh
                      /\ Fifo'[d].n > written[Fifo'[d].cmd]
                      /\ Handling' /\ Fifo'[d].cmd = command =>
                           /\ inFlight' >= K
                           /\ Fifo'[d].n <= answers'
                           /\ thread' = "queue" => Fifo'[d].n < answers'
      BY DEF Ahead
  <2>1. d + s \in 1..Len(Fifo) /\ Fifo'[d] = Fifo[d + s]
        BY QueueTyped, QueueTypedPrime DEF Shrinks
  <2> QED BY <2>1, DispatchAssumption DEF AnswerOrder, Ahead, Own
<1> QED BY <1>1, <1>2, <1>3 DEF AnswerOrder

(* The thread answers: nothing of this command waits if it writes at once.   *)
LEMMA RespondStep ==
  ASSUME IInv, IInv', Typed, AnswerOrder, UNCHANGED vars, UNCHANGED <<command, fresh>>,
         thread \in Active \ {"queue"}, NEW place \in Active \ {"queue"}, Respond(place)
  PROVE  AnswerOrder' /\ OrderlyWrites
<1>0. /\ command \in Commands /\ command \in fresh /\ written[command] <= answers
      /\ written \in [Commands -> 0..MaxAnswers] /\ inFlight \in Nat /\ Handling
      BY DEF Typed, AnswerOrder, Own, Handling
<1>1. Shrinks(0)
      BY SameShrinks
<1>2. Sorted'
      BY <1>1, SortedShrinks, QueueTypedPrime DEF AnswerOrder
<1>3. /\ answers' = answers + 1 /\ answers < MaxAnswers /\ answers \in Nat
      BY DEF Respond, Typed
<1>4. Fifo' = Fifo
      BY DEF vars, Fifo, SlotAt
<1>5. Handling' /\ (thread' = "queue" => inFlight >= K)
      BY DEF Respond, Handling, Active
<1>6. CASE UNCHANGED written /\ inFlight' \in {inFlight, inFlight + 1}
  <2>1. Own'
        BY <1>0, <1>3, <1>5, <1>6, DispatchAssumption DEF AnswerOrder, Own
  <2>2. Ahead'
        BY <1>0, <1>3, <1>4, <1>5, <1>6, DispatchAssumption, QueueTyped
        DEF AnswerOrder, Ahead
  <2> QED BY <1>0, <1>2, <1>6, <2>1, <2>2, WritesNothing DEF AnswerOrder
<1>7. CASE /\ inFlight < K /\ inFlight' = inFlight + 1 /\ thread' = place
           /\ written' = [written EXCEPT ![command] = answers']
  <2>0. /\ written'[command] = answers'
        /\ \A c \in Commands : c # command => written'[c] = written[c]
        BY <1>0, <1>7
  <2>1. Own'
    <3>1. written' \in [Commands -> 0..MaxAnswers]
          BY <1>0, <1>3, <1>7, DispatchAssumption
    <3>2. \A c \in Commands : c > command => written'[c] = 0
          BY <1>0, <2>0 DEF AnswerOrder, Own, Commands
    <3> QED BY <1>0, <1>3, <1>5, <1>7, <2>0, <3>1, <3>2 DEF AnswerOrder, Own
  <2>2. ASSUME NEW d \in 1..Len(Fifo), Fifo[d].n # 0
        PROVE  Fifo[d].cmd # command
        BY <1>0, <1>7, <2>2, DispatchAssumption DEF AnswerOrder, Ahead
  <2>3. Ahead'
        BY <1>0, <1>3, <1>4, <1>7, <2>0, <2>2, QueueTyped DEF AnswerOrder, Ahead
  <2>4. OrderlyWrites
        BY <1>0, <1>3, <2>0, DispatchAssumption DEF OrderlyWrites
  <2> QED BY <1>2, <2>1, <2>3, <2>4 DEF AnswerOrder
<1> QED BY <1>3, <1>6, <1>7 DEF Respond, Unsent, WriteFrame

LEMMA HandleStep ==
  ASSUME IInv, IInv', Typed, AnswerOrder, HandleASDU
  PROVE  AnswerOrder' /\ OrderlyWrites
<1>1. /\ UNCHANGED vars /\ UNCHANGED <<command, fresh>>
      /\ thread \in Active \ {"queue"}
      BY DEF HandleASDU, session, Switch, CallHandler, CauseUnknown, TestCommand, NoHandler,
             HandlerAnswers, ClockSet, ClockNotSet, HandlerReturns, Default, DefaultReturns,
             Reject, Goto, Active
<1>2. CASE \E place \in Active \ {"queue"} : Respond(place)
      BY <1>1, <1>2, RespondStep
<1>3. CASE UNCHANGED answers /\ Unsent /\ thread' \in Active \ {"queue"}
  <2>1. /\ UNCHANGED <<command, fresh, written, answers>> /\ inFlight' = inFlight
        /\ inFlight \in Nat /\ Handling /\ Handling' /\ thread' # "queue"
        BY <1>1, <1>3 DEF Unsent, Handling, AnswerOrder, Own
  <2>2. AnswerOrder'
        BY <1>1, <2>1, SameShrinks, QuietStep
  <2>3. OrderlyWrites
        BY <2>1, WritesNothing DEF AnswerOrder, Own
  <2> QED BY <2>2, <2>3
<1>4. CASE Switch
  <2>1. CASE CallHandler \/ NoHandler
        BY <1>3, <2>1 DEF CallHandler, NoHandler, Active
  <2>2. CASE CauseUnknown \/ TestCommand
        BY <1>2, <2>2 DEF CauseUnknown, TestCommand, Answers, Active
  <2> QED BY <1>4, <2>1, <2>2 DEF Switch
<1>5. CASE HandlerAnswers \/ ClockNotSet \/ Reject
      BY <1>2, <1>5 DEF HandlerAnswers, ClockNotSet, Reject, Answers, Active
<1>6. CASE ClockSet \/ HandlerReturns \/ Default \/ DefaultReturns
      BY <1>3, <1>6 DEF ClockSet, HandlerReturns, Default, DefaultReturns, Goto, Active
<1> QED BY <1>4, <1>5, <1>6 DEF HandleASDU

(* The thread's answer enters the queue behind the earlier ones.             *)
LEMMA QueueAnswerStep ==
  ASSUME IInv, IInv', Typed, AnswerOrder, QueueAnswer
  PROVE  AnswerOrder'
<1>0. /\ command \in Commands /\ command \in fresh /\ written[command] < answers
      /\ written \in [Commands -> 0..MaxAnswers] /\ inFlight \in Nat /\ inFlight >= K
      /\ Handling /\ answers \in 0..MaxAnswers /\ thread = "queue" /\ thread' = next
      /\ next \in Answering
      BY DEF QueueAnswer, Goto, Typed, AnswerOrder, Own, Handling, Active, Returns
<1>1. /\ UNCHANGED <<command, fresh, written, answers, inFlight>> /\ Handling'
      /\ thread' # "queue"
      BY <1>0 DEF QueueAnswer, session, handling, Unsent, Handling, Active, Answering
<1> DEFINE a == [cmd |-> command, n |-> answers]
<1>2. a \in Answer /\ Enqueue(a) /\ a.cmd = command /\ a.n = answers
      BY <1>0 DEF QueueAnswer, Answer
<1> HIDE DEF a
<1>3. CASE Shrinks(0)
      BY <1>0, <1>1, <1>3, QuietStep
<1>4. CASE /\ Len(Fifo') = Len(Fifo) + 1
           /\ \A d \in 1..Len(Fifo') : Fifo'[d] = IF d <= Len(Fifo) THEN Fifo[d] ELSE a
  <2>1. ASSUME NEW d \in 1..Len(Fifo')
        PROVE  \/ d \in 1..Len(Fifo) /\ Fifo'[d] = Fifo[d]
               \/ d = Len(Fifo) + 1 /\ Fifo'[d] = a
        BY <1>4, <2>1, QueueTyped
  <2>2. ASSUME NEW d \in 1..Len(Fifo), Fifo[d].n # 0, Fifo[d].cmd = command
        PROVE  Fifo[d].n < answers
        BY <1>0, <2>2 DEF AnswerOrder, Ahead
  <2>3. Sorted'
    <3> SUFFICES ASSUME NEW d \in 1..Len(Fifo'), NEW e \in 1..Len(Fifo'), d < e,
                        Fifo'[d].cmd = Fifo'[e].cmd, Fifo'[d].n # 0, Fifo'[e].n # 0
                 PROVE  Fifo'[d].n < Fifo'[e].n
        BY DEF Sorted
    <3>1. CASE e \in 1..Len(Fifo)
      <4>1. d \in 1..Len(Fifo) /\ Fifo'[d] = Fifo[d] /\ Fifo'[e] = Fifo[e]
            BY <2>1, <3>1, QueueTyped
      <4> QED BY <3>1, <4>1 DEF AnswerOrder, Sorted
    <3>2. CASE e = Len(Fifo) + 1 /\ Fifo'[e] = a
      <4>1. d \in 1..Len(Fifo) /\ Fifo'[d] = Fifo[d]
            BY <2>1, <3>2, QueueTyped
      <4> QED BY <1>2, <2>2, <3>2, <4>1
    <3> QED BY <2>1, <3>1, <3>2
  <2>4. Ahead'
    <3> SUFFICES ASSUME NEW d \in 1..Len(Fifo'), Fifo'[d].n # 0
                 PROVE  /\ Fifo'[d].cmd \in fresh
                        /\ Fifo'[d].n > written[Fifo'[d].cmd]
                        /\ Fifo'[d].cmd = command => inFlight >= K /\ Fifo'[d].n <= answers
        BY <1>1 DEF Ahead
    <3>1. CASE d \in 1..Len(Fifo) /\ Fifo'[d] = Fifo[d]
          BY <1>0, <3>1 DEF AnswerOrder, Ahead
    <3>2. CASE Fifo'[d] = a
          BY <1>0, <1>2, <3>2, DispatchAssumption
    <3> QED BY <2>1, <3>1, <3>2
  <2>5. Own'
        BY <1>0, <1>1 DEF AnswerOrder, Own
  <2> QED BY <2>3, <2>4, <2>5 DEF AnswerOrder
<1> QED BY <1>2, <1>3, <1>4, EnqueueGrows

(* A termination (n = 0) has no place in the order.                          *)
LEMMA TerminationQueuedStep ==
  ASSUME IInv, IInv', Typed, AnswerOrder, TerminationQueued
  PROVE  AnswerOrder'
<1>1. UNCHANGED <<command, fresh, written, answers, inFlight, thread>>
      BY DEF TerminationQueued, session, handling, Unsent
<1> DEFINE a == [cmd |-> application.cmd, n |-> 0]
<1>2. a \in Answer /\ Enqueue(a) /\ a.n = 0
      BY DispatchAssumption DEF TerminationQueued, Typed, ApplicationTyped, Answer
<1> HIDE DEF a
<1>3. CASE Shrinks(0)
  <2>1. inFlight \in Nat /\ (~Handling => answers = 0)
        BY DEF AnswerOrder, Own
  <2> QED BY <1>1, <1>3, <2>1, QuietStep DEF Handling
<1>4. CASE /\ Len(Fifo') = Len(Fifo) + 1
           /\ \A d \in 1..Len(Fifo') : Fifo'[d] = IF d <= Len(Fifo) THEN Fifo[d] ELSE a
  <2>1. ASSUME NEW d \in 1..Len(Fifo'), Fifo'[d].n # 0
        PROVE  d \in 1..Len(Fifo) /\ Fifo'[d] = Fifo[d]
        BY <1>2, <1>4, <2>1, QueueTyped
  <2>2. Sorted'
    <3> SUFFICES ASSUME NEW d \in 1..Len(Fifo'), NEW e \in 1..Len(Fifo'), d < e,
                        Fifo'[d].cmd = Fifo'[e].cmd, Fifo'[d].n # 0, Fifo'[e].n # 0
                 PROVE  Fifo'[d].n < Fifo'[e].n
        BY DEF Sorted
    <3> QED BY <2>1 DEF AnswerOrder, Sorted
  <2>3. Ahead'
    <3> SUFFICES ASSUME NEW d \in 1..Len(Fifo'), Fifo'[d].n # 0
                 PROVE  /\ Fifo'[d].cmd \in fresh
                        /\ Fifo'[d].n > written[Fifo'[d].cmd]
                        /\ Handling /\ Fifo'[d].cmd = command =>
                             /\ inFlight >= K
                             /\ Fifo'[d].n <= answers
                             /\ thread = "queue" => Fifo'[d].n < answers
        BY <1>1 DEF Ahead, Handling
    <3> QED BY <2>1 DEF AnswerOrder, Ahead
  <2>4. Own'
        BY <1>1 DEF AnswerOrder, Own, Handling
  <2> QED BY <2>2, <2>3, <2>4 DEF AnswerOrder
<1> QED BY <1>2, <1>3, <1>4, EnqueueGrows

(* The head of the queue is written: later answers lie behind it.            *)
LEMMA SendAnswerStep ==
  ASSUME IInv, IInv', Typed, AnswerOrder, SendAnswer
  PROVE  AnswerOrder' /\ OrderlyWrites
<1>0. /\ written \in [Commands -> 0..MaxAnswers] /\ inFlight \in Nat /\ answers = 0
      BY DEF SendAnswer, AnswerOrder, Own, Handling, Active
<1>1. /\ UNCHANGED <<command, fresh, answers>> /\ ~Handling'
      /\ thread' # "queue" /\ inFlight' \in Nat
      BY <1>0 DEF SendAnswer, session, handling, Unsent, WriteFrame, Handling, Active
<1>2. CASE UNCHANGED written /\ \E s \in {0, 1} : Shrinks(s)
      BY <1>0, <1>1, <1>2, QuietStep, WritesNothing
<1>3. CASE /\ Len(Fifo) > 0 /\ taken' = Fifo[1] /\ Shrinks(1) /\ taken'.n # 0
           /\ written' = [written EXCEPT ![taken'.cmd] = taken'.n]
  <2> DEFINE x == Fifo[1]
  <2>1. /\ x \in Answer /\ x.n \in 0..MaxAnswers /\ x.cmd \in Commands /\ 1 \in 1..Len(Fifo)
        /\ x.n # 0 /\ taken' = x
        BY <1>3, QueueTyped
  <2>2. x.cmd \in fresh /\ x.n > written[x.cmd]
        BY <2>1 DEF AnswerOrder, Ahead
  <2> HIDE DEF x
  <2>3. /\ written' \in [Commands -> 0..MaxAnswers] /\ written'[x.cmd] = x.n
        /\ \A c \in Commands : c # x.cmd => written'[c] = written[c]
        BY <1>0, <1>3, <2>1
  <2>4. Own'
    <3>1. \A c \in Commands : c > command => written'[c] = 0
      <4>1. /\ fresh \subseteq 1..command /\ command \in Int
            /\ \A c \in Commands : c > command => written[c] = 0
            BY DEF AnswerOrder, Own, Typed
      <4>2. x.cmd \in 1..command
            BY <2>2, <4>1
      <4>3. \A c \in Commands : c > command => c # x.cmd
            BY <4>1, <4>2
      <4> QED BY <2>3, <4>1, <4>3
    <3> QED BY <1>0, <1>1, <2>3, <3>1 DEF AnswerOrder, Own
  <2>5. Sorted'
        BY <1>3, SortedShrinks, QueueTypedPrime DEF AnswerOrder
  <2>6. Ahead'
    <3> SUFFICES ASSUME NEW d \in 1..Len(Fifo'), Fifo'[d].n # 0
                 PROVE  /\ Fifo'[d].cmd \in fresh
                        /\ Fifo'[d].n > written'[Fifo'[d].cmd]
        BY <1>1 DEF Ahead
    <3>1. d + 1 \in 1..Len(Fifo) /\ Fifo'[d] = Fifo[d + 1] /\ 1 < d + 1
          BY <1>3, QueueTyped, QueueTypedPrime DEF Shrinks
    <3>2. Fifo'[d].cmd \in fresh /\ Fifo'[d].n > written[Fifo'[d].cmd]
          BY <3>1 DEF AnswerOrder, Ahead
    <3>3. Fifo'[d].cmd = x.cmd => x.n < Fifo'[d].n
          BY <2>1, <3>1 DEF AnswerOrder, Sorted, x
    <3> QED BY <2>3, <3>1, <3>2, <3>3, QueueTyped
  <2>7. OrderlyWrites
        BY <1>0, <2>1, <2>2, <2>3, DispatchAssumption DEF OrderlyWrites
  <2> QED BY <2>4, <2>5, <2>6, <2>7 DEF AnswerOrder
<1>4. CASE UNCHANGED vars /\ Unsent
      BY <1>2, <1>4, SameShrinks DEF Unsent
<1>5. CASE GetNextASDU /\ (IF taken' = NoAsdu THEN Unsent ELSE WriteFrame(taken'))
  <2>1. CASE taken' = NoAsdu /\ Shrinks(0)
        BY <1>2, <1>5, <2>1 DEF Unsent
  <2>2. CASE Len(Fifo) > 0 /\ taken' = Fifo[1] /\ Shrinks(1)
    <3>1. 1 \in 1..Len(Fifo) /\ Fifo[1] \in Answer
          BY <2>2, QueueTyped
    <3>2. taken' # NoAsdu
          BY <2>2, <3>1, DispatchAssumption, HighPrioAssumption
    <3>3. UNCHANGED written
          \/ (taken'.n # 0 /\ written' = [written EXCEPT ![taken'.cmd] = taken'.n])
          BY <1>5, <3>2 DEF WriteFrame
    <3> QED BY <1>2, <1>3, <2>2, <3>3
  <2> QED BY <1>5, <2>1, <2>2, GetShrinks
<1> QED BY <1>4, <1>5 DEF SendAnswer

(* Every other step, and the two action properties.                          *)
LEMMA AnswersStep ==
  ASSUME IInv, IInv', Typed, AnswerOrder, [DispatchNext]_dispatchVars
  PROVE  AnswerOrder' /\ OrderlyWrites
<1>0. /\ written \in [Commands -> 0..MaxAnswers] /\ inFlight \in Nat
      /\ (~Handling => answers = 0) /\ fresh \subseteq 1..command
      BY DEF AnswerOrder, Own
<1> DEFINE Orderly == AnswerOrder' /\ UNCHANGED written
<1>1. ASSUME Orderly
      PROVE  AnswerOrder' /\ OrderlyWrites
      BY <1>0, <1>1, WritesNothing
<1>2. CASE HandleASDU
      BY <1>2, HandleStep
<1>3. CASE SendAnswer
      BY <1>3, SendAnswerStep
<1>4. CASE QueueAnswer
      BY <1>1, <1>4, QueueAnswerStep DEF QueueAnswer, Unsent
<1>5. CASE TerminationQueued
      BY <1>1, <1>5, TerminationQueuedStep DEF TerminationQueued, Unsent
<1>6. CASE StartedDT
  <2>1. /\ thread = "reset" /\ thread' = "loop" /\ ResetConnectionQueue /\ fresh' = {}
        /\ UNCHANGED <<command, written, answers, inFlight>>
        BY <1>6 DEF StartedDT, Goto, handling
  <2>2. Len(Fifo') = 0 /\ ~Handling /\ ~Handling'
        BY <2>1, ResetShrinks DEF Handling, Active
  <2>3. Ahead' /\ Sorted' /\ Own'
        BY <1>0, <2>1, <2>2 DEF AnswerOrder, Ahead, Sorted, Own
  <2> QED BY <1>1, <2>1, <2>3 DEF AnswerOrder
<1>7. CASE ReceiveCommand /\ thread' = "switch"
  <2>1. /\ ~Handling /\ Handling' /\ command' = command + 1 /\ command' \in Commands
        /\ fresh' = fresh \union {command'} /\ command \in 0..MaxCommands
        /\ UNCHANGED <<vars, written, answers>> /\ inFlight' \in Nat /\ answers = 0
        BY <1>0, <1>7, DispatchAssumption
        DEF ReceiveCommand, Receives, Confirms, Handling, Active, Typed, Commands
  <2>2. Fifo' = Fifo /\ Shrinks(0)
        BY <2>1, SameShrinks DEF vars, Fifo, SlotAt
  <2>3. Sorted'
        BY <2>2, SortedShrinks, QueueTypedPrime DEF AnswerOrder
  <2>4. Own'
        BY <1>0, <1>7, <2>1 DEF AnswerOrder, Own
  <2>5. \A d \in 1..Len(Fifo) : Fifo[d].n # 0 => Fifo[d].cmd \in fresh /\ Fifo[d].cmd # command'
        BY <1>0, <2>1 DEF AnswerOrder, Ahead
  <2>6. Ahead'
        BY <2>1, <2>2, <2>5 DEF AnswerOrder, Ahead
  <2> QED BY <1>1, <2>1, <2>3, <2>4, <2>6 DEF AnswerOrder
<1>8. CASE Handled
  <2>1. /\ UNCHANGED <<vars, command, fresh, written>> /\ inFlight' = inFlight /\ answers' = 0
        /\ ~Handling' /\ thread' # "queue"
        BY <1>8 DEF Handled, Goto, session, Handling, Active
  <2> QED BY <1>0, <1>1, <2>1, SameShrinks, QuietStep
<1>9. CASE \/ ReceiveS \/ StartDT \/ StopDT
           \/ Loop \/ AnswerAvailable \/ SendEvent
           \/ (ReceiveCommand /\ thread' # "switch")
  <2>1. /\ thread \in {"wait", "loop", "send"}
        /\ thread' \in {"wait", "reset", "loop", "send", "take"}
        BY <1>9 DEF ReceiveS, StartDT, StopDT, ReceiveCommand, Receives, Loop, AnswerAvailable,
                    SendEvent, Goto
  <2>2. UNCHANGED <<vars, command, fresh, written, answers>>
        BY <1>9 DEF ReceiveS, StartDT, StopDT, ReceiveCommand, Loop, AnswerAvailable, SendEvent,
                    session, handling
  <2>3. inFlight' \in Nat
    <3>1. CASE ReceiveS \/ ReceiveCommand
          BY <1>0, <3>1 DEF ReceiveS, ReceiveCommand, Confirms
    <3>2. CASE StartDT \/ StopDT \/ Loop \/ AnswerAvailable
          BY <1>0, <3>2 DEF StartDT, StopDT, Loop, AnswerAvailable
    <3>3. CASE SendEvent
          BY <1>0, <3>3, DispatchAssumption DEF SendEvent
    <3> QED BY <1>9, <3>1, <3>2, <3>3
  <2>4. ~Handling /\ ~Handling' /\ thread' # "queue"
        BY <2>1 DEF Handling, Active
  <2> QED BY <1>0, <1>1, <2>2, <2>3, <2>4, SameShrinks, QuietStep
<1>10. CASE TerminationWritten \/ OtherActivates \/ \E c \in Commands : Terminate(c)
  <2>1. /\ UNCHANGED <<vars, command, fresh, written, answers, thread>> /\ inFlight' \in Nat
        /\ inFlight' >= inFlight
        BY <1>0, <1>10 DEF TerminationWritten, OtherActivates, Terminate, WriteFrame, Unsent,
                           session, handling
  <2> QED BY <1>0, <1>1, <2>1, SameShrinks, QuietStep DEF Handling
<1>11. CASE OtherUsesQueue
  <2>1. /\ UNCHANGED <<command, fresh, written, answers, thread, inFlight>>
        /\ ResetConnectionQueue \/ GetNextASDU
        BY <1>11 DEF OtherUsesQueue, session, handling
  <2>2. \E s \in {0, 1} : Shrinks(s)
        BY <2>1, ResetShrinks, GetShrinks
  <2> QED BY <1>0, <1>1, <2>1, <2>2, QuietStep DEF Handling
<1>12. CASE UNCHANGED dispatchVars
  <2>1. UNCHANGED <<vars, command, fresh, written, answers, thread, inFlight>>
        BY <1>12 DEF dispatchVars, dispatch
  <2> QED BY <1>0, <1>1, <2>1, SameShrinks, QuietStep DEF Handling
<1> HIDE DEF Orderly
<1>13. CASE Client
      BY <1>7, <1>9, <1>13 DEF Client
<1>14. CASE Thread
      BY <1>2, <1>3, <1>4, <1>6, <1>8, <1>9, <1>14 DEF Thread
<1>15. CASE Application \/ OtherConnections
      BY <1>5, <1>10, <1>11, <1>15 DEF Application, OtherConnections
<1> QED BY <1>12, <1>13, <1>14, <1>15 DEF DispatchNext

(* In every state: the ring, the types, and the order of what is queued.     *)
THEOREM AnswersInvariant == DispatchSpec => [](IInv /\ Typed /\ AnswerOrder)
<1>1. DispatchInit => Init /\ Typed /\ AnswerOrder
  <2> SUFFICES ASSUME DispatchInit PROVE Init /\ Typed /\ AnswerOrder
      OBVIOUS
  <2>1. Init /\ Typed
        BY DispatchAssumption DEF DispatchInit, Typed, ApplicationTyped, Returns, Active, Idle
  <2>2. IInv /\ entryCounter = 0
    <3>1. Init
          BY <2>1
    <3> QED BY <3>1, HighPrioAssumption DEF Init, Index, IInv, TypeOK, RingOK
  <2>3. Len(Fifo) = 0
        BY <2>2, FifoType DEF FifoMeaning
  <2> QED BY <2>1, <2>3, DispatchAssumption
          DEF DispatchInit, AnswerOrder, Ahead, Sorted, Own, Handling, Active, Commands
<1>2. IInv /\ IInv' /\ Typed /\ AnswerOrder /\ [DispatchNext]_dispatchVars
        => Typed' /\ AnswerOrder'
      BY TypedStep, AnswersStep
<1> QED BY <1>1, <1>2, QueueRefined, Invariance, PTL DEF DispatchSpec

(* The answers of a connection's thread to a command are written in the      *)
(* order it gave them, at once or through the queue (sendASDUInternal).      *)
THEOREM AnswersOrdered == DispatchSpec => AnswersInOrder
<1>1. IInv /\ IInv' /\ Typed /\ AnswerOrder /\ [DispatchNext]_dispatchVars
        => [\A c \in Commands : written'[c] >= written[c]]_written
      BY AnswersStep DEF OrderlyWrites
<1> QED BY <1>1, AnswersInvariant, PTL DEF DispatchSpec, AnswersInOrder

(* What is written after a STARTDT answers a command received after it.      *)
THEOREM StartsAfresh == DispatchSpec => NoAnswerCrossesStart
<1>1. IInv /\ IInv' /\ Typed /\ AnswerOrder /\ [DispatchNext]_dispatchVars
        => [\A c \in Commands : written'[c] # written[c] => c \in fresh]_written
      BY AnswersStep DEF OrderlyWrites
<1> QED BY <1>1, AnswersInvariant, PTL DEF DispatchSpec, NoAnswerCrossesStart
=============================================================================
