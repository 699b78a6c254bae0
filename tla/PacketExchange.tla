--------------------------- MODULE PacketExchange ---------------------------
(***************************************************************************)
(* A packet's way through the crate: to_bytes() and                        *)
(* write_packet_to_buffer() on one side, Packet::parse() on the other, and *)
(* between them a peer that may run other software: it sends a payload     *)
(* shorter, longer or different (its frame CRC right, as the framer has    *)
(* dropped the others).  A parameter entry that does not fit one frame is  *)
(* cut into fragments by the device; parse() has to tell a fragment from a *)
(* whole entry, and the reassembler puts the fragments together.           *)
(***************************************************************************)
EXTENDS PacketTypes, Units

CONSTANTS
  SentKinds,     \* the kinds of packet the runs send
  Styles,        \* how the fields of a packet are filled
  Sample(_, _),  \* the packet of a kind and a style: its fields
  SpareRoom,     \* caller's buffer less the bytes to write: to_bytes()
  Positions,     \* where the peer changes a byte
  CutSizes,      \* body bytes in a fragment, at most MAX_CHUNK_PAYLOAD_SIZE
  Readings       \* values converted, per quantity

VARIABLES
  packet,    \* what the sender holds: [kind, fields]
  wrote,     \* outcome of the last to_bytes(): [verdict, room, size]
  frame,     \* the frame on the link: [type, payload, origin]
  seen,      \* what parse() made of it: [verdict, kind, fields]
  queue,     \* fragments the device still has to send
  asm,       \* the receiver's reassembler
  entry,     \* what push() returned last: [verdict, kind, fields]
  measure    \* a conversion: [quantity, given, stored, back]

vars == <<packet, wrote, frame, seen, queue, asm, entry, measure>>

Nothing == [kind |-> "none"]

Chunks == INSTANCE ChunkReassembler
  WITH ParamId <- 0..255, Remaining <- 0..255, Fragment <- Seq(0..255), MaxChunks <- 8
-----------------------------------------------------------------------------
MaxPayload == 60   \* CRSF_MAX_PACKET_SIZE - 4

(* COMMAND_CRC_ALGO: polynomial 0xBA, nothing reflected, from 0. *)
CrcOf == [b \in 0..255 |->
            LET after[n \in 0..8] ==
                  IF n = 0 THEN b ELSE
                  LET s == after[n - 1] IN
                  IF s >= 128 THEN ((s * 2) % 256) ^^ 186 ELSE s * 2
            IN after[8]]

CommandCrc(body) == FoldLeft(LAMBDA crc, b : CrcOf[crc ^^ b], CrcOf[50], body)

Seal(body) == Append(body, CommandCrc(body))

(* What to_bytes() makes of a packet, and whether a buffer takes it. *)
Wire(format, fields) ==
  IF format.sealed THEN Seal(PutAll(format.layout, fields))
                   ELSE PutAll(format.layout, fields)

BytesOf(p) == Wire(Formats[StructureOf(p.kind)], p.fields)

(* Seeded fault: the check is one byte short for every packet. *)
IntoShort(format, size, room) ==
  IF room < size - format.short - 1 THEN "Error" ELSE IF room < size THEN "Panic" ELSE "ok"

Into(format, size, room) ==
  IF room < size - format.short THEN "Error" ELSE IF room < size THEN "Panic" ELSE "ok"

ToBytes(p, size, room) == Into(Formats[StructureOf(p.kind)], size, room)

(* write_packet_to_buffer(): the payload is written to a buffer of its own *)
(* first; the frame is four bytes longer.                                  *)
IntoFrame(payload, size, room) ==
  IF payload = "ok" /\ room < size + 4 THEN "Error" ELSE payload

WritePacketToBuffer(p, size, room) == IntoFrame(ToBytes(p, size, MaxPayload), size, room)

(* Seeded fault: the CRC of a command is cut off and not compared. *)
FromBytesUnsealed(format, payload) ==
  IF ~format.sealed THEN ReadAll(format.layout, payload) ELSE
  IF Len(payload) < 4
    THEN [verdict |-> "Error", fields |-> << >>, at |-> 0]
    ELSE ReadAll(format.layout, Front(payload))

(* from_bytes() *)
FromBytes(format, payload) ==
  IF ~format.sealed THEN ReadAll(format.layout, payload) ELSE
  IF Len(payload) < 4 \/ payload # Seal(Front(payload))
    THEN [verdict |-> "Error", fields |-> << >>, at |-> 0]
    ELSE ReadAll(format.layout, Front(payload))

Parsed(verdict, kind, fields) == [verdict |-> verdict, kind |-> kind, fields |-> fields]

(* ParameterChunk::from_bytes() *)
ParseChunk(payload) ==
  LET chunk == ReadAll(ParameterChunk.layout, payload) IN
  Parsed(chunk.verdict, "ParameterChunk", chunk.fields)

(* Packet::parse(): by the type; a 0x2B payload is a whole entry if it     *)
(* reads as one, whatever its chunks_remaining says, and a fragment else.  *)
Attempts(formats, type, payload) ==
  {[kind |-> k, read |-> FromBytes(formats[k], payload)] :
     k \in {j \in DOMAIN formats : formats[j].type = type}}

(* The one attempt that reads; parse() never has two. *)
Best(attempts) ==
  LET ok == {a \in attempts : a.read.verdict = "ok"} IN
  IF ok = {} THEN Parsed(IF \E a \in attempts : a.read.verdict = "Panic"
                           THEN "Panic" ELSE "Error", "none", << >>)
  ELSE LET a == CHOOSE a \in ok : TRUE IN Parsed("ok", a.kind, a.read.fields)

Parse(type, payload) ==
  IF type \in Unhandled THEN Parsed("ok", "NotImplemented", << >>) ELSE
  LET whole == Best(Attempts(Formats, type, payload)) IN
  IF type = 43 /\ whole.verdict = "Error" THEN ParseChunk(payload) ELSE whole
-----------------------------------------------------------------------------
Init ==
  /\ packet = Nothing /\ wrote = Nothing /\ frame = Nothing /\ seen = Nothing
  /\ queue = << >> /\ asm = Chunks!Idle /\ entry = Nothing /\ measure = Nothing

(* The application builds a packet. *)
New(kind, style) ==
  /\ packet = Nothing /\ measure = Nothing
  /\ packet' = [kind |-> kind, fields |-> Sample(kind, style)]
  /\ UNCHANGED <<wrote, frame, seen, queue, asm, entry, measure>>

(* ... and writes it to a buffer of its own, `spare` bytes larger or       *)
(* smaller than it needs,                                                  *)
Serialise(spare) ==
  /\ packet # Nothing /\ wrote = Nothing
  /\ \E size \in {Len(BytesOf(packet))} :
       /\ size + spare >= 0
       /\ wrote' = [kind |-> "bytes", verdict |-> ToBytes(packet, size, size + spare),
                    room |-> size + spare, size |-> size]
  /\ UNCHANGED <<packet, frame, seen, queue, asm, entry, measure>>

(* ... or sends it as a frame. *)
Send(spare) ==
  /\ packet # Nothing /\ wrote = Nothing
  /\ \E bytes \in {BytesOf(packet)} :
       LET size == Len(bytes)  room == size + 4 + spare IN
       /\ wrote' = [kind |-> "frame", verdict |-> WritePacketToBuffer(packet, size, room),
                    room |-> room, size |-> size]
       /\ frame' = IF wrote'.verdict # "ok" THEN Nothing
                   ELSE [kind |-> "frame", type |-> Formats[packet.kind].sentAs,
                         payload |-> bytes, origin |-> "crate"]
  /\ UNCHANGED <<packet, seen, queue, asm, entry, measure>>

(* A peer sends something else under the same type. *)
Replace(payload, origin) ==
  /\ frame # Nothing /\ frame.origin = "crate" /\ seen = Nothing
  /\ Len(payload) <= MaxPayload
  /\ frame' = [frame EXCEPT !.payload = payload, !.origin = origin]
  /\ UNCHANGED <<packet, wrote, seen, queue, asm, entry, measure>>

(* The peer seals what it sends as a command. *)
Sealed(body) == IF frame.type = 50 THEN Seal(body) ELSE body
Body == IF frame.type = 50 THEN Front(frame.payload) ELSE frame.payload

Shorten == frame # Nothing /\ \E n \in 0..(Len(Body) - 1) :
             Replace(Sealed(SubSeq(Body, 1, n)), "peer")
Lengthen == frame # Nothing /\ \E n \in 1..5, b \in {0, 255} :
             Replace(Sealed(Body \o [i \in 1..n |-> b]), "peer")
Alter == frame # Nothing /\ \E i \in Positions \cap DOMAIN Body, b \in {0, 65, 255} :
             Replace(Sealed(ReplaceAt(Body, i, b)), "peer")
Damage == frame # Nothing /\ \E i \in Positions \cap DOMAIN frame.payload :
             Replace(ReplaceAt(frame.payload, i, (frame.payload[i] + 1) % 256), "damaged")

(* Every type byte, with the payload at hand. *)
Retype == /\ frame # Nothing /\ frame.origin = "crate" /\ seen = Nothing
          /\ packet.kind = "Gps"
          /\ \E type \in 0..255 :
               frame' = [frame EXCEPT !.type = type, !.origin = "peer"]
          /\ UNCHANGED <<packet, wrote, seen, queue, asm, entry, measure>>

(* push_byte() has a frame and calls parse(). *)
Receive ==
  /\ frame # Nothing /\ seen = Nothing /\ queue = << >>
  /\ seen' = Parse(frame.type, frame.payload)
  /\ UNCHANGED <<packet, wrote, frame, queue, asm, entry, measure>>
-----------------------------------------------------------------------------
(* The device's side of a long entry: its body, from the parent on, in     *)
(* fragments of `size` bytes, each behind a header that counts down.       *)
EntryBody == LET bytes == BytesOf(packet) IN SubSeq(bytes, 5, Len(bytes))

Fragments(body, size) ==
  LET count == (Len(body) + size - 1) \div size IN
  [i \in 1..count |->
     <<234, 238, packet.fields[4][1], count - i>>
       \o SubSeq(body, (i - 1) * size + 1, IF i = count THEN Len(body) ELSE i * size)]

Cut(size) ==
  /\ packet # Nothing /\ wrote = Nothing /\ packet.kind \in DOMAIN EntryFormats
  /\ queue' = Fragments(EntryBody, size)
  /\ Len(queue') > 1
  /\ wrote' = [kind |-> "fragments", verdict |-> "ok", room |-> size, size |-> Len(queue')]
  /\ UNCHANGED <<packet, frame, seen, asm, entry, measure>>

(* The reassembler's push(): the first chunk's total of chunks is a u8,    *)
(* and a complete entry leaves its fragments behind.                       *)
ChunkIn(p) == [param |-> p.fields[4][1], remaining |-> p.fields[5][1],
               payload |-> p.fields[6]]

(* Seeded fault: the header of the rebuilt frame is left out. *)
ReassembleBare(assembled) ==
  Best(Attempts(EntryFormats, 43, FlattenSeq(assembled.chunks)))

Reassemble(assembled) ==
  Best(Attempts(EntryFormats, 43,
                <<0, 0, assembled.param, 0>> \o FlattenSeq(assembled.chunks)))

Push(chunk) ==
  CASE Chunks!IsIdle(asm) /\ chunk.remaining = 255 ->
         entry' = Parsed("Panic", "none", << >>) /\ asm' = Chunks!Idle
    [] Chunks!Overflows(asm, chunk) ->
         entry' = Parsed("Error", "none", << >>) /\ asm' = Chunks!Idle
    [] ~Chunks!Overflows(asm, chunk) /\ ~Chunks!Completes(chunk)
         /\ ~(Chunks!IsIdle(asm) /\ chunk.remaining = 255) ->
         asm' = Chunks!Buffer(asm, chunk) /\ UNCHANGED entry
    [] OTHER ->
         entry' = Reassemble(Chunks!Buffer(asm, chunk)) /\ asm' = Chunks!Buffer(asm, chunk)

(* The next fragment arrives and is parsed; a chunk goes to the            *)
(* reassembler, an entry is taken for the whole.                           *)
ReceiveFragment ==
  /\ queue # << >>
  /\ frame' = [kind |-> "frame", type |-> 43, payload |-> Head(queue), origin |-> "device"]
  /\ queue' = Tail(queue)
  /\ seen' = Parse(43, Head(queue))
  /\ IF seen'.kind = "ParameterChunk" /\ seen'.verdict = "ok"
       THEN Push(ChunkIn(seen'))
       ELSE entry' = seen' /\ UNCHANGED asm
  /\ UNCHANGED <<packet, wrote, measure>>

(* A frame parsed as a fragment by itself, outside a transfer. *)
PushSeen ==
  /\ seen # Nothing /\ seen.verdict = "ok" /\ seen.kind = "ParameterChunk"
  /\ frame.origin # "device" /\ entry = Nothing
  /\ Push(ChunkIn(seen))
  /\ UNCHANGED <<packet, wrote, frame, seen, queue, measure>>
-----------------------------------------------------------------------------
(* A value of the caller's, kept in the packet's unit, and read back. *)
Measure(quantity, given) ==
  /\ packet = Nothing /\ measure = Nothing
  /\ measure' =
       LET Result(stored, back) == [kind |-> "measure", quantity |-> quantity,
                                    given |-> given, stored |-> stored, back |-> back]
       IN CASE quantity = "baro" -> Result(AltitudePacked(given), AltitudeDm(AltitudePacked(given)))
            [] quantity = "gps"  -> Result(MetersToRaw(given), AltitudeMeters(MetersToRaw(given)))
            [] quantity = "us"   -> Result(UsToTicks(given), TicksToUs(UsToTicks(given)))
            [] quantity = "float" -> Result(WriteFloat(given), TakeFloat(WriteFloat(given)))
            [] quantity = "ticks" -> Result(TicksToUs(given), UsToTicks(TicksToUs(given)))
  /\ UNCHANGED <<packet, wrote, frame, seen, queue, asm, entry>>

(* On to the next. *)
Forget ==
  /\ queue = << >> /\ (packet # Nothing \/ measure # Nothing)
  /\ packet' = Nothing /\ wrote' = Nothing /\ frame' = Nothing /\ seen' = Nothing
  /\ entry' = Nothing /\ measure' = Nothing /\ asm' = Chunks!Idle /\ UNCHANGED queue

Next ==
  \/ \E kind \in SentKinds, style \in Styles : New(kind, style)
  \/ \E spare \in SpareRoom : Serialise(spare) \/ Send(spare)
  \/ Shorten \/ Lengthen \/ Alter \/ Damage \/ Retype
  \/ Receive \/ PushSeen
  \/ \E size \in CutSizes : Cut(size)
  \/ ReceiveFragment
  \/ \E quantity \in DOMAIN Readings : \E given \in Readings[quantity] : Measure(quantity, given)
  \/ Forget

Spec == Init /\ [][Next]_vars
-----------------------------------------------------------------------------
Verdicts == {"ok", "Error", "Panic"}

TypeOK ==
  /\ packet # Nothing => packet.kind \in Kinds
  /\ wrote # Nothing => wrote.verdict \in Verdicts
  /\ frame # Nothing => frame.payload \in Seq(0..255) /\ Len(frame.payload) <= MaxPayload
  /\ \A outcome \in {seen, entry} \ {Nothing} :
       outcome.verdict \in Verdicts /\ outcome.kind \in Kinds \cup {"none", "NotImplemented", "ParameterChunk"}
  /\ asm.chunks \in Seq(Seq(0..255)) /\ Len(asm.chunks) <= 8

(* A packet is written exactly when the buffer has room for all of it, and *)
(* refused with an error otherwise: with two exceptions, where the slice   *)
(* index stops the program instead of to_bytes() returning an error.  Rpm  *)
(* does not look at the buffer at all, and a Float entry asks for one byte *)
(* less than it writes (its sum leaves out the decimal point), which a     *)
(* name and unit of 32 bytes meet in write_packet_to_buffer() itself.      *)
WritesInBounds ==
  wrote # Nothing /\ wrote.kind # "fragments" =>
    LET room  == IF wrote.kind = "bytes" THEN wrote.room ELSE MaxPayload
        short == room - wrote.size
    IN wrote.verdict =
         IF short < 0 THEN IF \/ packet.kind = "Rpm"
                              \/ packet.kind = "EntryFloat" /\ short = -1
                             THEN "Panic" ELSE "Error"
         ELSE IF wrote.kind = "frame" /\ wrote.room < wrote.size + 4
                THEN "Error" ELSE "ok"

(* Whatever a peer puts in a well-framed payload, parse() and push()       *)
(* return: with three exceptions.  A ping is indexed unchecked, contrary   *)
(* to the promise of CrsfPacket that the slice has at least its minimum    *)
(* length; more than 20 temperatures are collected into a Vec of 20; and a *)
(* first chunk that announces 255 more overflows the u8 of total_chunks.   *)
ReadsInBounds ==
  /\ seen # Nothing =>
       (seen.verdict = "Panic" <=>
          \/ frame.type = 40 /\ Len(frame.payload) < 2
          \/ frame.type = 13 /\ Len(frame.payload) >= 43)
  /\ entry # Nothing =>
       (entry.verdict = "Panic" <=>
          frame.payload[4] = 255 /\ seen.kind = "ParameterChunk")

(* Whether the wire format can carry the packet: each field fits its width *)
(* and the lists that must not be empty are not.                           *)
Lossless(p) ==
  LET layout == Formats[p.kind].layout IN
  /\ \A k \in DOMAIN layout : Tells(layout[k], p.fields[k])
  /\ p.kind \in {"Rpm", "Temp", "Voltages"} => p.fields[3] # << >>
  /\ p.kind = "ParameterWrite" => p.fields[5] # << >>
  /\ p.kind = "EntryVtx" => p.fields[10] # << >>
  /\ p.kind # "MspResponse"

(* A packet arrives as the packet that was sent exactly when the format    *)
(* can carry it.  What it cannot, to_bytes() writes all the same: a number *)
(* too wide loses its high bytes, a channel above 11 bits runs into its    *)
(* neighbours, a child 0xFF ends the list, an MSP response goes out as a   *)
(* request, and an empty list is refused by the receiver.                  *)
RoundTrip ==
  seen # Nothing /\ frame.origin = "crate" =>
    (seen = Parsed("ok", packet.kind, packet.fields) <=> Lossless(packet))

(* What parse() accepted, from any peer, can be sent on: to_bytes() has    *)
(* room in a frame and parse() reads the same packet again.  Not so an Rpm *)
(* of three bytes, whose one value is cut short and dropped: it is then    *)
(* sent without any, and refused.  Nor the deprecated integers (kept as a  *)
(* Float under the old type byte) and MSP responses; fragments and unknown *)
(* types have no to_bytes().                                               *)
Relayed ==
  (seen # Nothing /\ seen.kind \in Kinds \ (LegacyKinds \cup {"MspResponse"})) =>
    LET again == BytesOf(seen) IN
    ToBytes(seen, Len(again), MaxPayload) = "ok" /\ Parse(frame.type, again) = seen
      <=> ~(seen.kind = "Rpm" /\ Len(frame.payload) = 3)

(* A command is obeyed only as it was sealed: one with any byte changed on *)
(* the way is refused by the CRC of its own, whatever the change hits.     *)
SealKept ==
  seen # Nothing /\ frame.origin = "damaged" /\ frame.type = 50 =>
    seen.verdict = "Error"

Cuts == wrote # Nothing /\ wrote.kind = "fragments"

(* The comment in parse() expects a chunked entry to fail from_bytes()     *)
(* "because the type-specific data is truncated".  The first fragment is   *)
(* taken for a whole entry exactly when the cut is right behind the name,  *)
(* where an entry without data ends too, or when the data is a VTX's,      *)
(* which has no end of its own.                                            *)
FirstFragmentTold ==
  Cuts /\ Len(queue) = wrote.size - 1 =>
    LET name == Len(packet.fields[8]) + 3   \* parent, type, name, NUL
    IN seen.kind # "ParameterChunk" <=>
         \/ wrote.room = name
         \/ packet.kind = "EntryVtx" /\ wrote.room > name

(* When every fragment was told as one, the last of them yields the entry  *)
(* the device holds exactly when they are at most eight.  With more, the   *)
(* ninth is refused with an error and the assembly starts over behind it:  *)
(* what it then yields, if it reads at all, is not the entry.              *)
ArrivesWhole ==
  (Cuts /\ queue = << >> /\ Lossless(packet)
   /\ \A i \in 1..wrote.size :
        Parse(43, Fragments(EntryBody, wrote.room)[i]).kind = "ParameterChunk") =>
    (wrote.size <= 8 <=>
       /\ entry.verdict = "ok" /\ entry.kind = packet.kind
       /\ \A k \in DOMAIN packet.fields \ {2, 3, 5} : entry.fields[k] = packet.fields[k])

(* A quantity set in the caller's unit reads back the same, but for the    *)
(* rounding of the unit on the wire and for what is out of its range.      *)
QuantityKept ==
  measure # Nothing =>
    LET given == measure.given  back == measure.back  stored == measure.stored IN
    CASE measure.quantity = "baro"  -> BaroKept(given, back)
      [] measure.quantity = "gps"   -> GpsKept(given, stored, back)
      [] measure.quantity = "us"    -> UsKept(given, stored, back)
      [] measure.quantity = "ticks" -> TicksKept(given, back)

(* A Float the user interface writes is the number the device takes.  It   *)
(* writes the four little-endian bytes that DeviceManager::write_parameter *)
(* documents; the library's own Float entry and the mock device are        *)
(* big-endian, as the protocol is.                                         *)
FloatArrives ==
  measure # Nothing /\ measure.quantity = "float" => measure.back = measure.given
=============================================================================
