---------------------------- MODULE PacketTypes -----------------------------
(***************************************************************************)
(* The packet types of src/src/packets: one definition per file (per       *)
(* variant, where an enum has several with different bytes) with what      *)
(* from_bytes() demands and reads and what to_bytes() writes.              *)
(*                                                                         *)
(* `short` is the number of bytes by which the buffer to_bytes() checks    *)
(* for may fall short of what it writes.  `sealed`: the last byte is a CRC *)
(* of the packet's own.                                                    *)
(***************************************************************************)
EXTENDS WireFormat

Format(type, layout) ==
  [type |-> type, sentAs |-> type, layout |-> layout, short |-> 0,
   sealed |-> FALSE]

Total(widths) == FoldLeft(LAMBDA a, b : a + b, 0, widths)

(* A structure of numbers: the payload is checked to have exactly, or at   *)
(* least, its size; to_bytes() calls validate_buffer_size().               *)
Exact(type, widths) == Format(type, <<Exactly(Total(widths))>> \o Nums(widths))
Loose(type, widths) == Format(type, <<AtLeast(Total(widths))>> \o Nums(widths))

Repeat(width, n) == [i \in 1..n |-> width]

(* pit_mode, pitmode_control, pitmode_switch *)
PitByte == Bits(<< <<0, 1, FALSE>>, <<1, 2, FALSE>>, <<3, 4, FALSE>> >>)
-----------------------------------------------------------------------------
Gps              == Loose(2, <<4, 4, 2, 2, 2, 1>>)
GpsTime          == Exact(3, <<2, 1, 1, 1, 1, 1, 2>>)
GpsExtended      == Exact(6, <<1>> \o Repeat(2, 8) \o <<1, 1, 1>>)
Vario            == Exact(7, <<2>>)
(* Seeded fault: the check counts the three bytes of the capacity as two. *)
BatteryShort     == Format(8, <<AtLeast(7), Num(2), Num(2), Scalar(4, 3, FALSE), Num(1)>>)
Battery          == Format(8, <<AtLeast(8), Num(2), Num(2), Scalar(4, 3, FALSE), Num(1)>>)
BaroAltitude     == Exact(9, <<2, 1>>)
AirSpeed         == Loose(10, <<2>>)
Heartbeat        == Exact(11, <<2>>)
Barometer        == Exact(17, <<4, 4>>)
Magnetometer     == Exact(18, <<2, 2, 2>>)
AccelGyro        == Exact(19, <<4>> \o Repeat(2, 7))
LinkStatistics   == Loose(20, Repeat(1, 10))
LinkStatisticsRx == Exact(28, Repeat(1, 5))
LinkStatisticsTx == Exact(29, Repeat(1, 6))
Attitude         == Loose(30, <<2, 2, 2>>)
MavLinkFc        == Loose(31, <<2, 1, 4, 1, 1>>)
EspNow           == Exact(34, <<1, 1, 15, 15, 20>>)
ParameterRead    == Loose(44, Repeat(1, 4))
ElrsStatus       == Loose(46, <<2, 2, 1>>)
MavLinkSensor    == Loose(172, <<1, 1, 4, 4, 4>>)

(* from_bytes() indexes the payload without a check. *)
DevicePing == Format(40, <<Num(1), Num(1)>>)

(* to_bytes() does not check the buffer. *)
Rpm == [Format(12, <<AtLeast(3), Num(1), Many(4, 3, TRUE, 19, "Panic")>>)
          EXCEPT !.short = 64]
Temp     == Format(13, <<AtLeast(3), Num(1), Many(2, 2, FALSE, 20, "Panic")>>)
(* Seeded fault: a payload too short for one value is accepted. *)
VoltagesShort == Format(14, <<AtLeast(2), Num(1), Many(2, 2, FALSE, 29, "Panic")>>)
Voltages == Format(14, <<AtLeast(3), Num(1), Many(2, 2, FALSE, 29, "Panic")>>)
VtxTelemetry     == Format(16, <<AtLeast(5), Num(1), Num(1), Num(2), PitByte>>)
RcChannelsPacked == Format(22, <<AtLeast(22), Channels>>)
FlightMode       == Format(33, <<OpenText(59)>>)
DeviceInformation ==
  Format(41, <<AtLeast(17), Num(1), Num(1), Text(43), AtLeast(14),
               Num(4), Num(4), Num(4), Num(1), Num(1)>>)
ParameterWrite == Format(45, <<AtLeast(4), Num(1), Num(1), Num(1), Rest(32)>>)
Logging ==
  Format(52, <<AtLeast(6), Num(2), Num(4), MultipleOf(4), Many(4, 4, FALSE, 13, "Error")>>)
Remote ==
  Format(58, <<AtLeast(3), Num(1), Num(1), Tag(16), AtLeast(8), Num(4), Num(4)>>)
Game == Format(60, <<AtLeast(5), Num(1), Num(1), OneOf({1, 2}), Num(2)>>)
MavlinkEnvelope ==
  Format(170, <<AtLeast(2), Bits(<< <<4, 4, FALSE>>, <<0, 4, TRUE>> >>), Counted(1, 58)>>)

(* One structure, parsed from two types; PACKET_TYPE is the request's. *)
MspRequest  == Format(122, <<AtLeast(3), Num(1), Num(1), Num(1), Rest(57)>>)
MspResponse == [MspRequest EXCEPT !.type = 123]

ArduPilotSingle == Format(128, <<AtLeast(1), Tag(240), AtLeast(6), Num(2), Num(4)>>)
ArduPilotStatus == Format(128, <<AtLeast(1), Tag(241), AtLeast(1), Num(1), Rest(50)>>)
ArduPilotMulti  == Format(128, <<AtLeast(1), Tag(242), AtLeast(1), Counted(6, 9)>>)
-----------------------------------------------------------------------------
(* commands.rs: dst, src, command, sub-command and its data, and a CRC of  *)
(* type and payload.                                                       *)
Command(id, body) ==
  [Format(50, <<AtLeast(3), Num(1), Num(1), Tag(id), AtLeast(1)>> \o body)
     EXCEPT !.sealed = TRUE]

CommandFc              == Command(1, <<OneOf({1, 2})>>)
CommandOsd             == Command(5, <<Tag(1), AtLeast(1), Num(1)>>)
CommandVtxFrequency    == Command(8, <<Tag(2), AtLeast(2), Num(2)>>)
CommandVtxPitMode      == Command(8, <<Tag(4), AtLeast(1), PitByte>>)
CommandVtxPowerUp      == Command(8, <<Tag(5)>>)
CommandVtxPower        == Command(8, <<OneOf({6, 8}), AtLeast(1), Num(1)>>)
CommandCrossfire       == Command(16, <<OneOf({1, 2, 3, 6})>>)
CommandCrossfireModel  == Command(16, <<OneOf({5, 7}), AtLeast(1), Num(1)>>)
CommandSubscribe       == Command(32, <<Tag(1), AtLeast(3), Num(1), Num(2)>>)
CommandUnsubscribe     == Command(32, <<Tag(2), AtLeast(1), Num(1)>>)
CommandAck             == Command(255, <<AtLeast(3), Num(1), Num(1), Num(1), Rest(48)>>)
-----------------------------------------------------------------------------
(* parameter_settings_entry.rs: dst, src, number, chunks remaining, parent,*)
(* type, name, and by the type's low seven bits the rest.                  *)
DataTypes == {0, 1, 2, 3, 4, 5, 8, 9, 10, 11, 12, 13, 15, 127}

Entry(types, body) ==
  Format(43, <<AtLeast(7), Num(1), Num(1), Num(1), Num(1), Num(1),
               TypeByte(types), Label(128)>> \o body)

EntryBare == Entry(DataTypes, <<AtEnd>>)
(* to_bytes() checks for 20 bytes and the unit, and writes 21 and the unit.*)
EntryFloat ==
  [Entry({8}, <<More, AtLeast(21), Num(4), Num(4), Num(4), Num(4), Num(1), Num(4),
                Label(128)>>) EXCEPT !.short = 1]
EntryTextSelection ==
  Entry({9}, <<More, AtLeast(4), Label(512), AtLeast(4), Num(1), Num(1), Num(1), Num(1),
               Label(128)>>)
EntryString  == Entry({10}, <<More, AtLeast(2), Label(128), AtLeast(1), Num(1)>>)
EntryFolder  == Entry({11}, <<More, Until(255, 32)>>)
(* Seeded fault: a text that is not ended is accepted. *)
EntryInfoOpen == Entry({12}, <<More, [Label(128) EXCEPT !.open = TRUE]>>)
EntryInfo    == Entry({12}, <<More, Label(128)>>)
EntryCommand == Entry({13}, <<More, AtLeast(3), Num(1), Num(1), Label(128)>>)
EntryVtx     == Entry({15}, <<More, Rest(64)>>)

(* The deprecated integer types: read as a Float, without unit and with a  *)
(* step of one byte or none; nothing writes them.                          *)
Legacy(type, w, signed) ==
  LET value == Scalar(4, w, signed) IN
  Entry({type}, <<More, AtLeast(4 * w), value, value, value, value, Given(<<0>>),
                  ByteOrOne, Given(<< >>)>>)

EntryUint8  == Legacy(0, 1, FALSE)
EntryInt8   == Legacy(1, 1, TRUE)
EntryUint16 == Legacy(2, 2, FALSE)
EntryInt16  == Legacy(3, 2, TRUE)
EntryWord32 == [u \in {4, 5} |-> Legacy(u, 4, FALSE)]

(* A fragment of an entry: the four bytes of the header, and the rest. *)
ParameterChunk ==
  Format(43, <<AtLeast(4), Num(1), Num(1), Num(1), Num(1), Rest(56)>>)
-----------------------------------------------------------------------------
EntryFormats ==
  [EntryBare |-> EntryBare, EntryFloat |-> EntryFloat,
   EntryTextSelection |-> EntryTextSelection, EntryString |-> EntryString,
   EntryFolder |-> EntryFolder, EntryInfo |-> EntryInfo,
   EntryCommand |-> EntryCommand, EntryVtx |-> EntryVtx,
   EntryUint8 |-> EntryUint8, EntryInt8 |-> EntryInt8, EntryUint16 |-> EntryUint16,
   EntryInt16 |-> EntryInt16, EntryUint32 |-> EntryWord32[4],
   EntryInt32 |-> EntryWord32[5]]

Formats ==
  EntryFormats @@
  [Gps |-> Gps, GpsTime |-> GpsTime, GpsExtended |-> GpsExtended, Vario |-> Vario,
   Battery |-> Battery, BaroAltitude |-> BaroAltitude, AirSpeed |-> AirSpeed,
   Heartbeat |-> Heartbeat, Barometer |-> Barometer, Magnetometer |-> Magnetometer,
   AccelGyro |-> AccelGyro, LinkStatistics |-> LinkStatistics,
   LinkStatisticsRx |-> LinkStatisticsRx, LinkStatisticsTx |-> LinkStatisticsTx,
   Attitude |-> Attitude, MavLinkFc |-> MavLinkFc, EspNow |-> EspNow,
   ParameterRead |-> ParameterRead, ElrsStatus |-> ElrsStatus,
   MavLinkSensor |-> MavLinkSensor, DevicePing |-> DevicePing, Rpm |-> Rpm,
   Temp |-> Temp, Voltages |-> Voltages, VtxTelemetry |-> VtxTelemetry,
   RcChannelsPacked |-> RcChannelsPacked, FlightMode |-> FlightMode,
   DeviceInformation |-> DeviceInformation, ParameterWrite |-> ParameterWrite,
   Logging |-> Logging, Remote |-> Remote, Game |-> Game,
   MavlinkEnvelope |-> MavlinkEnvelope, MspRequest |-> MspRequest,
   MspResponse |-> MspResponse, ArduPilotSingle |-> ArduPilotSingle,
   ArduPilotStatus |-> ArduPilotStatus, ArduPilotMulti |-> ArduPilotMulti,
   CommandFc |-> CommandFc, CommandOsd |-> CommandOsd,
   CommandVtxFrequency |-> CommandVtxFrequency, CommandVtxPitMode |-> CommandVtxPitMode,
   CommandVtxPowerUp |-> CommandVtxPowerUp, CommandVtxPower |-> CommandVtxPower,
   CommandCrossfire |-> CommandCrossfire, CommandCrossfireModel |-> CommandCrossfireModel,
   CommandSubscribe |-> CommandSubscribe, CommandUnsubscribe |-> CommandUnsubscribe,
   CommandAck |-> CommandAck]

(* Types of PacketType that parse() has no decoder for. *)
Unhandled == {23, 120, 121, 124}

Kinds == DOMAIN Formats

LegacyKinds ==
  {"EntryUint8", "EntryInt8", "EntryUint16", "EntryInt16", "EntryUint32", "EntryInt32"}

(* The structure a variant is kept in: from there to_bytes() writes it. *)
StructureOf(kind) == IF kind \in LegacyKinds THEN "EntryFloat" ELSE kind
=============================================================================
