----------------------- MODULE InformationObjectTypes ----------------------
(* The types of information objects: for each what its encode function asks  *)
(* the frame for and writes, and what its getFromBuffer demands and reads.   *)
(* The numbers are those of the code, written down once per function there,  *)
(* and here once per column, so that they may disagree.                      *)
(*                                                                           *)
(* A value is what the application hands to create or gets from a getter.    *)
(* Normalized values count the steps of their encoding (1/32767), floating   *)
(* point values, time stamps and counters are their bytes.                   *)
EXTENDS Integers, Sequences, SequencesExt

(***************************** Fields of an object **************************)

Width == [siq |-> 1, diq |-> 1, vti |-> 1, byte |-> 1, sco |-> 1, dco |-> 1, qos |-> 1,
          noQuality |-> 1, nva |-> 2, nvb |-> 2, sva |-> 2, nof |-> 2, testPattern |-> 2,
          cp16 |-> 2, cp24 |-> 3, lof |-> 3, lostLof |-> 3, bsi |-> 4, r32 |-> 4,
          bcr |-> 5, cp56 |-> 7, segment |-> 1]

Clamp(v, low, high) == IF v > high THEN high ELSE IF v < low THEN low ELSE v

(* setScaledValue and getScaledValue.                                        *)
ScaledBytes(v) ==
  LET encoded == IF v < 0 THEN v + 65536 ELSE v
  IN  <<encoded % 256, (encoded \div 256) % 256>>

ScaledValue(b) ==
  LET v == b[1] + 256 * b[2] IN IF v > 32767 THEN v - 65536 ELSE v

(* Mutated form of VtiByte: the values are not limited to seven bits.        *)
VtiUnlimited(v) ==
  (IF v.value < 0 THEN v.value + 128 ELSE v.value) + (IF v.transient THEN 128 ELSE 0)

(* The value of a step position after create, and from its getter.           *)
VtiByte(v) ==
  LET value == Clamp(v.value, -64, 63)
  IN  (IF value < 0 THEN value + 128 ELSE value) + (IF v.transient THEN 128 ELSE 0)

VtiValue(b) ==
  [value     |-> IF b % 128 > 63 THEN (b % 128) - 128 ELSE b % 128,
   transient |-> b >= 128]

(* Single, double and step commands as create makes them, and their getters. *)
CommandByte(v) == 4 * (v.qu % 32) + (v.state % 4) + (IF v.select THEN 128 ELSE 0)

CommandValue(b, states) ==
  [qu |-> (b % 128) \div 4, state |-> b % states, select |-> b >= 128]

(* C's division, which truncates, of an int; a 32 bit value is its int.      *)
Quotient(v, d) == IF v < 0 THEN -((-v) \div d) ELSE v \div d
Remainder(v, d) == v - d * Quotient(v, d)

Power == <<1, 256, 65536, 256 * 65536>> \* of 256
Below(n) == 0..(n - 1)
Byte == Below(256)

(* The four bytes a bit string is encoded to: the unsigned value is put into *)
(* an int first.                                                             *)
BitStringBytes(v) ==
  << Remainder(v, 256) % 256,
     Remainder(Quotient(v, 256), 256) % 256,
     Remainder(Quotient(v, Power[3]), 256) % 256,
     Quotient(v, Power[4]) % 256 >>

BitStringValue(b) ==
  b[1] + 256 * b[2] + Power[3] * b[3] + Power[4] * (IF b[4] > 127 THEN b[4] - 256 ELSE b[4])

LittleEndian(v, n) == [i \in 1..n |-> (v \div Power[i]) % 256]
FromLittleEndian(b) == LET n == Len(b) IN
  b[1] + (IF n > 1 THEN 256 * b[2] ELSE 0) + (IF n > 2 THEN Power[3] * b[3] ELSE 0)

(* What an application hands to create for a field. Qualities have the bits  *)
(* that quality descriptors have besides a value.                            *)
Int16 == (-128 * Power[2])..(128 * Power[2] - 1)
Int32 == ((-128) * Power[4])..(127 * Power[4] + (Power[4] - 1))
Encodable(kind) ==
  CASE kind = "siq" -> [value : BOOLEAN, quality : {q \in Byte : q % 16 = 0}]
    [] kind = "diq" -> [value : 0..3, quality : {q \in Byte : q % 16 = 0}]
    [] kind = "vti" -> [value : Int, transient : BOOLEAN]
    [] kind = "sco" -> [qu : Int, state : 0..1, select : BOOLEAN]
    [] kind = "dco" -> [qu : Int, state : 0..3, select : BOOLEAN]
    [] kind = "qos" -> [ql : Below(128), select : BOOLEAN]
    [] kind = "noQuality" -> {0}
    [] kind = "byte" -> Byte
    [] kind \in {"nva", "nvb"} -> Int
    [] kind = "sva" -> Int16
    [] kind = "nof" -> Below(65536)
    [] kind = "lof" -> Below(Power[4])
    [] kind = "lostLof" -> [length : Nat, memory : Below(Power[4])]
    [] kind = "testPattern" -> {<<204, 85>>}
    [] kind = "bsi" -> Int32
    [] kind = "segment" -> {v \in Seq(Byte) : Len(v) <= 255}
    [] OTHER -> [1..Width[kind] -> Byte]

(* What is written for a value.                                              *)
Bytes(kind, v) ==
  CASE kind = "siq" -> <<v.quality + (IF v.value THEN 1 ELSE 0)>>
    [] kind = "diq" -> <<v.quality + v.value>>
    [] kind = "vti" -> <<VtiByte(v)>>
    [] kind \in {"sco", "dco"} -> <<CommandByte(v)>>
    [] kind = "qos" -> <<IF v.select THEN 128 + (v.ql % 128) ELSE v.ql % 256>>
    [] kind \in {"byte", "noQuality"} -> <<v>>
    [] kind = "nva" -> ScaledBytes(Clamp(v, -32767, 32767))
    [] kind = "nvb" -> ScaledBytes(Clamp(v, -32768, 32767))
    [] kind = "sva" -> ScaledBytes(v)
    [] kind = "bsi" -> BitStringBytes(v)
    [] kind \in {"nof", "lof"} -> LittleEndian(v, Width[kind])
    [] kind = "lostLof" -> LittleEndian(v.memory, 3)
    [] kind = "segment" -> <<Len(v)>> \o v
    [] OTHER -> v

(* n bytes of message m from index i (the first is 0); what lies behind the  *)
(* message is taken as 0, and never read of a message that was encoded here. *)
BytesFrom(m, i, n) == [k \in 1..n |-> IF i + k \in DOMAIN m THEN m[i + k] ELSE 0]

(* What getFromBuffer and the getters make of the bytes of message m from    *)
(* index i.                                                                  *)
Value(kind, m, i) ==
  LET b == BytesFrom(m, i, Width[kind])
  IN  CASE kind = "siq" -> [value |-> b[1] % 2 = 1, quality |-> b[1] - (b[1] % 16)]
        [] kind = "diq" -> [value |-> b[1] % 4, quality |-> b[1] - (b[1] % 16)]
        [] kind = "vti" -> VtiValue(b[1])
        [] kind = "sco" -> CommandValue(b[1], 2)
        [] kind = "dco" -> CommandValue(b[1], 4)
        [] kind = "qos" -> [ql |-> b[1] % 128, select |-> b[1] >= 128]
        [] kind \in {"byte", "noQuality"} -> b[1]
        [] kind \in {"nva", "nvb", "sva"} -> ScaledValue(b)
        [] kind = "bsi" -> BitStringValue(b)
        [] kind \in {"nof", "lof"} -> FromLittleEndian(b)
        [] kind = "lostLof" -> [length |-> FromLittleEndian(b) % 256]
        [] kind = "segment" -> BytesFrom(m, i + 1, b[1])
        [] OTHER -> b

(* Where each of several things starts that lie one after the other, steps   *)
(* apart, and where the last one ends.                                       *)
Places(steps) ==
  LET place[k \in 1..(Len(steps) + 1)] ==
        IF k = 1 THEN 0 ELSE place[k-1] + steps[k-1]
  IN  place

SizeOf(fields) ==
  Places([k \in DOMAIN fields |-> Width[fields[k]]])[Len(fields) + 1]

(******************************* Kinds of rows ******************************)

(* A row of the table.                                                       *)
(*   asks     bytes that encode wants to be left in the frame, besides the   *)
(*            address; an empty set if it does not look                      *)
(*   inner    the same for the encode function of the base type, which the   *)
(*            encode functions of some types with time call, whose result    *)
(*            they ignore, and which writes the address and head; if there   *)
(*            is none, encode writes them itself                             *)
(*   head     fields after the address                                       *)
(*   tail     fields that encode writes after it has called the base         *)
(*   result   what encode returns when it has written                        *)
(*   needs    bytes besides an address that getFromBuffer wants to be left   *)
(*            in the message, sequence or not; empty if it does not look     *)
(*   reads    the fields getFromBuffer reads, each with the distance to the  *)
(*            next                                                           *)
(*   sequence getFromBuffer can leave out the address                        *)
Reads(fields) == [k \in DOMAIN fields |-> <<fields[k], Width[fields[k]]>>]

Monitor(asks, fields) ==
  [asks |-> {asks}, inner |-> {}, head |-> fields, tail |-> <<>>, result |-> TRUE,
   needs |-> {}, reads |-> Reads(fields), sequence |-> TRUE]

Checked(asks, fields, needs) == [Monitor(asks, fields) EXCEPT !.needs = {needs}]

Command(asks, fields, needs) == [Checked(asks, fields, needs) EXCEPT !.sequence = FALSE]

WithTime(base, asks, time) ==
  [base EXCEPT !.asks = {asks}, !.inner = base.asks, !.tail = <<time>>,
               !.reads = Append(@, <<time, Width[time]>>)]

CommandWithTime(base, asks, needs) ==
  [WithTime(base, asks, "cp56") EXCEPT !.needs = {needs}]

(************************ Process information ********************************)

SinglePointInformation == Monitor(1, <<"siq">>)
SinglePointWithCP24Time2a == Monitor(4, <<"siq", "cp24">>)
SinglePointWithCP56Time2a == Monitor(8, <<"siq", "cp56">>)

DoublePointInformation == Monitor(1, <<"diq">>)
DoublePointWithCP24Time2a == Monitor(4, <<"diq", "cp24">>)
DoublePointWithCP56Time2a == Monitor(8, <<"diq", "cp56">>)

(* The quality is read without moving on, so that the time stamp is read     *)
(* from the quality on.                                                      *)
StepPositionInformation == Monitor(2, <<"vti", "byte">>)
StepPositionWithCP24Time2a ==
  [Monitor(5, <<"vti", "byte", "cp24">>)
     EXCEPT !.reads = <<<<"vti", 1>>, <<"byte", 0>>, <<"cp24", 3>>>>]

(* encode returns false in any case.                                         *)
StepPositionWithCP56Time2a ==
  [Monitor(9, <<"vti", "byte", "cp56">>) EXCEPT !.result = FALSE]

(* No create function of a bit string sets the quality.                      *)
BitString32 == Monitor(5, <<"bsi", "noQuality">>)
Bitstring32WithCP24Time2a == Monitor(8, <<"bsi", "noQuality", "cp24">>)
Bitstring32WithCP56Time2a == Monitor(12, <<"bsi", "noQuality", "cp56">>)

MeasuredValueNormalized == Monitor(3, <<"nva", "byte">>)
MeasuredValueNormalizedWithoutQuality == Monitor(2, <<"nvb">>)
MeasuredValueNormalizedWithCP24Time2a == WithTime(MeasuredValueNormalized, 6, "cp24")
MeasuredValueNormalizedWithCP56Time2a == WithTime(MeasuredValueNormalized, 10, "cp56")

(* Scaled values are encoded by the functions of normalized values.          *)
MeasuredValueScaled == Monitor(3, <<"sva", "byte">>)

MeasuredValueScaledWithCP24Time2a == WithTime(MeasuredValueScaled, 6, "cp24")
MeasuredValueScaledWithCP56Time2a == WithTime(MeasuredValueScaled, 10, "cp56")

(* Mutated form of MeasuredValueShort: the quality is not counted.           *)
ShortAsksForValueOnly == Monitor(4, <<"r32", "byte">>)

MeasuredValueShort == Monitor(5, <<"r32", "byte">>)

(* Mutated form of MeasuredValueShortWithCP24Time2a: only the time is asked  *)
(* for; when the base finds no room, the time is written without a value.    *)
ShortAsksForTimeOnly == WithTime(MeasuredValueShort, 3, "cp24")

MeasuredValueShortWithCP24Time2a == WithTime(MeasuredValueShort, 8, "cp24")
MeasuredValueShortWithCP56Time2a == WithTime(MeasuredValueShort, 12, "cp56")

IntegratedTotals == Monitor(5, <<"bcr">>)
IntegratedTotalsWithCP24Time2a == WithTime(IntegratedTotals, 8, "cp24")
IntegratedTotalsWithCP56Time2a == WithTime(IntegratedTotals, 12, "cp56")

(* Mutated form of EventOfProtectionEquipment: the length of the type with   *)
(* the long time stamp is demanded.                                          *)
EventNeedsLongTime == Checked(6, <<"byte", "cp16", "cp24">>, 10)

EventOfProtectionEquipment == Checked(6, <<"byte", "cp16", "cp24">>, 6)
EventOfProtectionEquipmentWithCP56Time2a == Checked(10, <<"byte", "cp16", "cp56">>, 10)

PackedStartEventsOfProtectionEquipment ==
  Checked(7, <<"byte", "byte", "cp16", "cp24">>, 7)
PackedStartEventsOfProtectionEquipmentWithCP56Time2a ==
  Checked(11, <<"byte", "byte", "cp16", "cp56">>, 7)

PackedOutputCircuitInfo == Checked(7, <<"byte", "byte", "cp16", "cp24">>, 7)
PackedOutputCircuitInfoWithCP56Time2a == Checked(11, <<"byte", "byte", "cp16", "cp56">>, 7)

PackedSinglePointWithSCD == Checked(5, <<"r32", "byte">>, 5)

(******************** Commands, parameters, system information ***************)

SingleCommand == Command(1, <<"sco">>, 1)
SingleCommandWithCP56Time2a == CommandWithTime(SingleCommand, 8, 1)

DoubleCommand == Command(1, <<"dco">>, 1)
DoubleCommandWithCP56Time2a == CommandWithTime(DoubleCommand, 8, 1)

StepCommand == Command(1, <<"dco">>, 1)
StepCommandWithCP56Time2a == CommandWithTime(StepCommand, 8, 8)

(* Setpoints are not clamped. What a step of a normalized one stands for,    *)
(* which create and getter of the type with time compute differently, is     *)
(* left out.                                                                 *)
SetpointCommandNormalized == Command(3, <<"sva", "qos">>, 3)
SetpointCommandNormalizedWithCP56Time2a ==
  CommandWithTime(SetpointCommandNormalized, 10, 10)

SetpointCommandScaled == Command(3, <<"sva", "qos">>, 3)
SetpointCommandScaledWithCP56Time2a == CommandWithTime(SetpointCommandScaled, 10, 10)

SetpointCommandShort == Command(5, <<"r32", "qos">>, 5)
SetpointCommandShortWithCP56Time2a == CommandWithTime(SetpointCommandShort, 12, 10)

(* One byte more is asked for than is written, here and below.               *)
Bitstring32Command == Command(5, <<"r32">>, 4)
Bitstring32CommandWithCP56Time2a == CommandWithTime(Bitstring32Command, 12, 11)

ReadCommand == Command(0, <<>>, 0)
ClockSynchronizationCommand == Command(7, <<"cp56">>, 7)
InterrogationCommand == Command(1, <<"byte">>, 1)
CounterInterrogationCommand == Command(1, <<"byte">>, 1)
TestCommand == Command(2, <<"testPattern">>, 1)
ResetProcessCommand == Command(1, <<"byte">>, 1)
DelayAcquisitionCommand == Command(2, <<"cp16">>, 1)
EndOfInitialization == Command(1, <<"byte">>, 1)

(* Parameters are encoded as the measured values they are derived from.      *)
ParameterNormalizedValue == [MeasuredValueNormalized EXCEPT !.sequence = FALSE]
ParameterScaledValue == [MeasuredValueScaled EXCEPT !.sequence = FALSE]
ParameterFloatValue == [MeasuredValueShort EXCEPT !.sequence = FALSE]
ParameterActivation == [Monitor(1, <<"byte">>) EXCEPT !.sequence = FALSE]

(********************************* Files *************************************)

(* Room for one byte is asked for.                                           *)
FileReady == Command(1, <<"nof", "lof", "byte">>, 6)
SectionReady == Command(1, <<"nof", "byte", "lof", "byte">>, 7)
FileCallOrSelect == Command(1, <<"nof", "byte", "byte">>, 4)

(* encode does not look for room. LSQ and CHS are read from one byte.        *)
FileLastSegmentOrSection ==
  [Command(0, <<"nof", "byte", "byte", "byte">>, 5)
     EXCEPT !.asks = {},
            !.reads = <<<<"nof", 2>>, <<"byte", 1>>, <<"byte", 0>>, <<"byte", 1>>>>]
FileACK == [Command(0, <<"nof", "byte", "byte">>, 4) EXCEPT !.asks = {}]

(* Compared is the length of the data with that of the payload of an ASDU    *)
(* (EncodeFits in InformationObjects), not with the room that is left.       *)
FileSegment == [Command(0, <<"nof", "byte", "segment">>, 4) EXCEPT !.asks = {}]

(* create leaves the length of the file out; the getter returns its lowest   *)
(* byte.                                                                     *)
FileDirectory == Monitor(13, <<"nof", "lostLof", "byte", "cp56">>)

(******************************** The table **********************************)

Layout ==
  [ SinglePointInformation |-> SinglePointInformation,
    SinglePointWithCP24Time2a |-> SinglePointWithCP24Time2a,
    SinglePointWithCP56Time2a |-> SinglePointWithCP56Time2a,
    DoublePointInformation |-> DoublePointInformation,
    DoublePointWithCP24Time2a |-> DoublePointWithCP24Time2a,
    DoublePointWithCP56Time2a |-> DoublePointWithCP56Time2a,
    StepPositionInformation |-> StepPositionInformation,
    StepPositionWithCP24Time2a |-> StepPositionWithCP24Time2a,
    StepPositionWithCP56Time2a |-> StepPositionWithCP56Time2a,
    BitString32 |-> BitString32,
    Bitstring32WithCP24Time2a |-> Bitstring32WithCP24Time2a,
    Bitstring32WithCP56Time2a |-> Bitstring32WithCP56Time2a,
    MeasuredValueNormalized |-> MeasuredValueNormalized,
    MeasuredValueNormalizedWithoutQuality |-> MeasuredValueNormalizedWithoutQuality,
    MeasuredValueNormalizedWithCP24Time2a |-> MeasuredValueNormalizedWithCP24Time2a,
    MeasuredValueNormalizedWithCP56Time2a |-> MeasuredValueNormalizedWithCP56Time2a,
    MeasuredValueScaled |-> MeasuredValueScaled,
    MeasuredValueScaledWithCP24Time2a |-> MeasuredValueScaledWithCP24Time2a,
    MeasuredValueScaledWithCP56Time2a |-> MeasuredValueScaledWithCP56Time2a,
    MeasuredValueShort |-> MeasuredValueShort,
    MeasuredValueShortWithCP24Time2a |-> MeasuredValueShortWithCP24Time2a,
    MeasuredValueShortWithCP56Time2a |-> MeasuredValueShortWithCP56Time2a,
    IntegratedTotals |-> IntegratedTotals,
    IntegratedTotalsWithCP24Time2a |-> IntegratedTotalsWithCP24Time2a,
    IntegratedTotalsWithCP56Time2a |-> IntegratedTotalsWithCP56Time2a,
    EventOfProtectionEquipment |-> EventOfProtectionEquipment,
    EventOfProtectionEquipmentWithCP56Time2a |-> EventOfProtectionEquipmentWithCP56Time2a,
    PackedStartEventsOfProtectionEquipment |-> PackedStartEventsOfProtectionEquipment,
    PackedStartEventsOfProtectionEquipmentWithCP56Time2a |->
      PackedStartEventsOfProtectionEquipmentWithCP56Time2a,
    PackedOutputCircuitInfo |-> PackedOutputCircuitInfo,
    PackedOutputCircuitInfoWithCP56Time2a |-> PackedOutputCircuitInfoWithCP56Time2a,
    PackedSinglePointWithSCD |-> PackedSinglePointWithSCD,
    SingleCommand |-> SingleCommand,
    SingleCommandWithCP56Time2a |-> SingleCommandWithCP56Time2a,
    DoubleCommand |-> DoubleCommand,
    DoubleCommandWithCP56Time2a |-> DoubleCommandWithCP56Time2a,
    StepCommand |-> StepCommand,
    StepCommandWithCP56Time2a |-> StepCommandWithCP56Time2a,
    SetpointCommandNormalized |-> SetpointCommandNormalized,
    SetpointCommandNormalizedWithCP56Time2a |-> SetpointCommandNormalizedWithCP56Time2a,
    SetpointCommandScaled |-> SetpointCommandScaled,
    SetpointCommandScaledWithCP56Time2a |-> SetpointCommandScaledWithCP56Time2a,
    SetpointCommandShort |-> SetpointCommandShort,
    SetpointCommandShortWithCP56Time2a |-> SetpointCommandShortWithCP56Time2a,
    Bitstring32Command |-> Bitstring32Command,
    Bitstring32CommandWithCP56Time2a |-> Bitstring32CommandWithCP56Time2a,
    ReadCommand |-> ReadCommand,
    ClockSynchronizationCommand |-> ClockSynchronizationCommand,
    InterrogationCommand |-> InterrogationCommand,
    CounterInterrogationCommand |-> CounterInterrogationCommand,
    TestCommand |-> TestCommand, ResetProcessCommand |-> ResetProcessCommand,
    DelayAcquisitionCommand |-> DelayAcquisitionCommand,
    EndOfInitialization |-> EndOfInitialization,
    ParameterNormalizedValue |-> ParameterNormalizedValue,
    ParameterScaledValue |-> ParameterScaledValue,
    ParameterFloatValue |-> ParameterFloatValue,
    ParameterActivation |-> ParameterActivation, FileReady |-> FileReady,
    SectionReady |-> SectionReady, FileCallOrSelect |-> FileCallOrSelect,
    FileLastSegmentOrSection |-> FileLastSegmentOrSection, FileACK |-> FileACK,
    FileSegment |-> FileSegment, FileDirectory |-> FileDirectory ]

ObjectTypes == DOMAIN Layout
FieldsOf(type) == Layout[type].head \o Layout[type].tail
============================================================================
