------------------------- MODULE InformationObjects ------------------------
(* The life of an ASDU: an application adds information objects, of one type *)
(* and as a sequence or not, until it stops or there is no more room; the    *)
(* receiver gets them one by one. CS101_ASDU, which is not in src/, keeps    *)
(* their number and says where each starts; everything else is in the encode *)
(* and getFromBuffer functions of the type.                                  *)
EXTENDS InformationObjectTypes

CONSTANTS SizesOfIOA,     \* lengths of an information object address
          MaxObjects,     \* bound of a run: objects in an ASDU
          Samples(_, _),  \* objects of a type, with addresses of a length
          Rooms(_, _, _)  \* room in an ASDU for such objects, as a sequence or not

(* An object as the create function of its type makes it.                    *)
IsObject(o, type, sizeOfIOA) ==
  LET fields == FieldsOf(type)
  IN  /\ o = [ioa |-> o.ioa, fields |-> o.fields]
      /\ o.ioa \in Below(Power[sizeOfIOA + 1])
      /\ o.fields = [k \in DOMAIN fields |-> o.fields[k]]
      /\ \A k \in DOMAIN fields : o.fields[k] \in Encodable(fields[k])

ASSUME CodecAssumption ==
  /\ SizesOfIOA \subseteq 1..3 /\ MaxObjects \in Nat
  /\ \A t \in ObjectTypes, n \in SizesOfIOA :
       /\ \A o \in Samples(t, n) : IsObject(o, t, n)
       /\ \A s \in BOOLEAN : Rooms(t, n, s) \subseteq Nat

VARIABLES
  type,       \* type of the objects, a row of Layout
  sizeOfIOA, isSequence,
  maxSize,    \* room for objects in the ASDU
  frame,      \* bytes of the objects so far
  sent,       \* objects added with success
  refused,    \* bytes of the last object that was refused; 0: none was
  sending,    \* the application is still adding
  received    \* objects the receiver got, <<>> where getFromBuffer returned NULL

parameters == <<type, sizeOfIOA, isSequence, maxSize>>
codecVars == <<parameters, frame, sent, refused, sending, received>>

Fields == FieldsOf(type)

(* The objects the application may add next. In a sequence the addresses are *)
(* consecutive, else CS101_ASDU does not take the object.                    *)
Objects ==
  IF isSequence /\ sent # <<>>
  THEN {[o EXCEPT !.ioa = sent[1].ioa + Len(sent)] : o \in Samples(type, sizeOfIOA)}
  ELSE Samples(type, sizeOfIOA)

(********************************* Encoding **********************************)

(* Only the first object of a sequence carries its address.                  *)
AddressSize == IF isSequence /\ sent # <<>> THEN 0 ELSE sizeOfIOA
AddressBytes(ioa) == LittleEndian(ioa, AddressSize)

RoomFor(n) == maxSize - Len(frame) >= AddressSize + n

Encoded(fields, values) == FlattenSeq([k \in DOMAIN fields |-> Bytes(fields[k], values[k])])

Whole(o) == AddressBytes(o.ioa) \o Encoded(Fields, o.fields)

(* The test of the encode function before it writes.                         *)
EncodeFits(o) ==
  /\ \A n \in Layout[type].asks : RoomFor(n)
  /\ type = "FileSegment" => Len(o.fields[3]) <= maxSize

(* What it writes.                                                           *)
Written(o) ==
  LET row == Layout[type]
      n == Len(row.head)
  IN  (IF \A m \in row.inner : RoomFor(m)
       THEN AddressBytes(o.ioa) \o Encoded(row.head, SubSeq(o.fields, 1, n))
       ELSE <<>>)
      \o Encoded(row.tail, SubSeq(o.fields, n + 1, Len(o.fields)))

(* CS101_ASDU_addInformationObject counts the object if encode returns true. *)
Add(o) ==
  LET added == EncodeFits(o) /\ Layout[type].result
  IN  /\ sending /\ Len(sent) < MaxObjects
      /\ type = "FileSegment" => sent = <<>>
      /\ frame' = IF EncodeFits(o) THEN frame \o Written(o) ELSE frame
      /\ sent' = IF added THEN Append(sent, o) ELSE sent
      /\ refused' = IF added THEN 0 ELSE Len(Whole(o))
      /\ UNCHANGED <<parameters, sending, received>>

Deliver ==
  /\ sending /\ sent # <<>>
  /\ sending' = FALSE
  /\ UNCHANGED <<parameters, frame, sent, refused, received>>

(********************************* Decoding **********************************)

(* CS101_ASDU_getElement: where element i (the first is 0) starts.           *)
Start(i) ==
  IF isSequence THEN sizeOfIOA + i * SizeOf(Fields) ELSE i * (sizeOfIOA + SizeOf(Fields))

GetFromBuffer(at) ==
  LET row == Layout[type]
      first == IF isSequence THEN at ELSE at + sizeOfIOA
      place == Places([k \in DOMAIN row.reads |-> row.reads[k][2]])
      fields == [k \in DOMAIN row.reads |-> Value(row.reads[k][1], frame, first + place[k])]
      needed == IF type = "FileSegment" THEN {4 + Len(fields[3])} ELSE row.needs
  IN  IF \E n \in needed : Len(frame) - at < sizeOfIOA + n
      THEN <<>>
      ELSE << [ioa |-> FromLittleEndian(BytesFrom(frame, at, sizeOfIOA)),
               fields |-> fields] >>

(* The address of an element of a sequence is set by getElement.             *)
GetElement(i) ==
  LET object == GetFromBuffer(Start(i))
      ioa == FromLittleEndian(BytesFrom(frame, 0, sizeOfIOA)) + i
  IN  IF isSequence /\ object # <<>> THEN <<[object[1] EXCEPT !.ioa = ioa]>> ELSE object

Get ==
  /\ ~sending /\ Len(received) < Len(sent)
  /\ received' = Append(received, GetElement(Len(received)))
  /\ UNCHANGED <<parameters, frame, sent, refused, sending>>

CodecInit ==
  /\ type \in ObjectTypes
  /\ sizeOfIOA \in SizesOfIOA
  /\ isSequence \in (IF Layout[type].sequence THEN BOOLEAN ELSE {FALSE})
  /\ maxSize \in Rooms(type, sizeOfIOA, isSequence)
  /\ frame = <<>> /\ sent = <<>> /\ refused = 0 /\ sending = TRUE /\ received = <<>>

CodecNext == (\E o \in Objects : Add(o)) \/ Deliver \/ Get

CodecSpec == CodecInit /\ [][CodecNext]_codecVars

(******************************** Properties ********************************)

(* The encode functions of these types write more than they ask for.         *)
AskForTooLittle ==
  {"FileReady", "SectionReady", "FileCallOrSelect", "FileLastSegmentOrSection", "FileACK",
   "FileSegment"}

(* These types are refused although there is room for them.                  *)
RefusedWithRoomLeft ==
  {"StepPositionWithCP56Time2a", "Bitstring32Command", "Bitstring32CommandWithCP56Time2a"}

(* The length that encode tests is what it writes, the functions it calls     *)
(* included, in a sequence or not: no object is written beyond the room of    *)
(* the ASDU, and one is refused only when it would not fit                    *)
(* (iec60870_common.h:395).                                                   *)
ExactRoom ==
  /\ type \notin AskForTooLittle => Len(frame) <= maxSize
  /\ refused # 0 /\ type \notin RefusedWithRoomLeft => Len(frame) + refused > maxSize

(* A frame only grows by all the bytes of an object, the address included,   *)
(* and then the object is counted; an encode function that fails leaves no   *)
(* bytes behind, nor does one report success of which a part is missing. A   *)
(* step position with a long time stamp is written and reported as refused.  *)
AddedWhole ==
  [][(frame' # frame /\ type # "StepPositionWithCP56Time2a") =>
       (sent' # sent /\ frame' = frame \o Whole(Last(sent')))]_codecVars

(* The getFromBuffer functions of these demand room for an address in front  *)
(* of an element of a sequence, which has none, so that they do not find the *)
(* last one.                                                                 *)
DemandAddressInSequence ==
  {"EventOfProtectionEquipment", "EventOfProtectionEquipmentWithCP56Time2a",
   "PackedStartEventsOfProtectionEquipment", "PackedOutputCircuitInfo",
   "PackedSinglePointWithSCD"}

(* Every object that was added is found again: the length getFromBuffer      *)
(* demands is no more than what is left of the message at the place where    *)
(* the object starts.                                                        *)
NothingLost ==
  \A i \in DOMAIN received :
    (received[i] = <<>>) =>
      /\ isSequence /\ type \in DemandAddressInSequence
      /\ i = Len(sent)

(* What a getter shall return for a value v handed to create: the value, or  *)
(* the nearest one that can be encoded; of a qualifier its five bits.        *)
Promised(kind, v) ==
  CASE kind = "vti" -> [v EXCEPT !.value = Clamp(@, -64, 63)]
    [] kind \in {"sco", "dco"} -> [v EXCEPT !.qu = @ % 32]
    [] kind = "nva" -> Clamp(v, -32767, 32767)
    [] kind = "nvb" -> Clamp(v, -32768, 32767)
    [] kind = "lostLof" -> [length |-> v.length]
    [] OTHER -> v

(* Numbers of the fields that are not read back: a time stamp read from one  *)
(* byte too early, a checksum that is the byte before it, a file length.     *)
Misread ==
  CASE type = "StepPositionWithCP24Time2a" -> {3}
    [] type = "FileLastSegmentOrSection" -> {4}
    [] type = "FileDirectory" -> {2}
    [] OTHER -> {}

(* A bit string with bit 31 set is divided as a negative int, and comes back *)
(* only if the lower 24 bits are 0.                                          *)
SurvivesSign(kind, v) == kind = "bsi" => (v >= 0 \/ v % Power[4] = 0)

(* The receiver gets what the sender put in, object by object and field by   *)
(* field: the object address, counted on in a sequence, values with their    *)
(* signs, flags and quality, time stamps; what encode writes and what        *)
(* getFromBuffer reads are the same layout.                                  *)
ReceivedIsSent ==
  \A i \in DOMAIN received :
    received[i] # <<>> =>
      /\ received[i][1].ioa = sent[i].ioa
      /\ \A k \in DOMAIN Fields \ Misread :
           LET v == sent[i].fields[k]
           IN  SurvivesSign(Fields[k], v) =>
                 received[i][1].fields[k] = Promised(Fields[k], v)
============================================================================
