----------------------------- MODULE CrsfParser -----------------------------
(***************************************************************************)
(* The byte-level frame parser, src/src/parser.rs: a fixed buffer, a write *)
(* position and a four-state machine, fed one byte at a time by            *)
(* push_byte_raw.  The buffer is never cleared: a new frame overwrites the *)
(* bytes of the old one, and only `position` says which bytes count.       *)
(*                                                                         *)
(* The bytes are abstract: the parser tells them apart only by whether     *)
(* they are a known address, by the frame size they announce and by the    *)
(* checksum, so Byte, SyncBytes and Crc are parameters.                    *)
(***************************************************************************)
EXTENDS Naturals, Sequences

CONSTANTS
  Byte,           \* u8
  SyncBytes,      \* the bytes PacketAddress::try_from_primitive accepts
  MinPacketSize,  \* CRSF_MIN_PACKET_SIZE (4)
  MaxPacketSize,  \* CRSF_MAX_PACKET_SIZE (64)
  Crc(_)          \* CRC-8/DVB-S2 of a sequence of bytes (the crc crate)

ASSUME ByteAssumption == Byte \subseteq Nat /\ 0 \in Byte
ASSUME SyncAssumption == SyncBytes \subseteq Byte
ASSUME SizeAssumption ==
  /\ MinPacketSize \in Nat
  /\ MaxPacketSize \in Nat
  /\ 4 <= MinPacketSize
  /\ MinPacketSize <= MaxPacketSize

VARIABLES
  buffer,    \* [u8; CRSF_MAX_PACKET_SIZE]
  state,     \* State, with the n of Reading(n)
  position,  \* index of the last byte written
  result     \* what the last push_byte_raw returned

vars == <<buffer, state, position, result>>

Index == 0..(MaxPacketSize - 1)

AwaitingSync   == [at |-> "AwaitingSync",   n |-> 0]
AwaitingLength == [at |-> "AwaitingLength", n |-> 0]
Reading(n)     == [at |-> "Reading",        n |-> n]
AwaitingCrc    == [at |-> "AwaitingCrc",    n |-> 0]

NoPacket          == [kind |-> "None",   bytes |-> << >>]
Failure(error, b) == [kind |-> error,    bytes |-> << b >>]
Received(frame)   == [kind |-> "Packet", bytes |-> frame]

-----------------------------------------------------------------------------
(* The slice contents[from..to] of a buffer, `to` excluded. *)
Slice(contents, from, to) == [i \in 1..(to - from) |-> contents[from + i - 1]]

(* reset(): only the position and the state; the buffer keeps its bytes. *)
Reset ==
  /\ position' = 0
  /\ state' = AwaitingSync

(* Seeded fault: the byte that ruled out the frame is thrown away with it. *)
RestartForgettingByte(b, contents) ==
  /\ Reset
  /\ buffer' = contents

(* reset() followed by try_start_frame_from_sync(b): the byte that ruled   *)
(* out the current frame is tried as the address of the next one.          *)
RestartFrom(b, contents) ==
  /\ position' = 0
  /\ IF b \in SyncBytes
       THEN /\ buffer' = [contents EXCEPT ![0] = b]
            /\ state' = AwaitingLength
       ELSE /\ buffer' = contents
            /\ state' = AwaitingSync

PushSync(b) ==
  /\ state = AwaitingSync
  /\ IF b \in SyncBytes
       THEN /\ position' = 0
            /\ buffer' = [buffer EXCEPT ![0] = b]
            /\ state' = AwaitingLength
            /\ result' = NoPacket
       ELSE /\ result' = Failure("InvalidSync", b)
            /\ UNCHANGED <<buffer, state, position>>

(* Seeded fault: the limit is taken for the length field, not the frame.   *)
ValidSizeUpToTwoMore(n) == n \in MinPacketSize..(MaxPacketSize + 2)

ValidSize(n) == n \in MinPacketSize..MaxPacketSize

PushLength(b) ==
  /\ state = AwaitingLength
  /\ LET n == b + 2 IN
       IF ValidSize(n)
         THEN /\ position' = 1
              /\ buffer' = [buffer EXCEPT ![1] = b]
              /\ state' = Reading(n - 1)
              /\ result' = NoPacket
         ELSE /\ RestartFrom(b, buffer)
              /\ result' = Failure("InvalidPacketLength", b)

(* Seeded fault: the end of the payload is noticed one byte late. *)
PushPayloadLate(b) ==
  /\ state.at = "Reading"
  /\ position' = position + 1
  /\ buffer' = [buffer EXCEPT ![position + 1] = b]
  /\ state' = IF position = state.n - 1 THEN AwaitingCrc ELSE state
  /\ result' = NoPacket

PushPayload(b) ==
  /\ state.at = "Reading"
  /\ position' = position + 1
  /\ buffer' = [buffer EXCEPT ![position + 1] = b]
  /\ state' = IF position + 1 = state.n - 1 THEN AwaitingCrc ELSE state
  /\ result' = NoPacket

PushCrc(b) ==
  /\ state = AwaitingCrc
  /\ LET last     == position + 1
         contents == [buffer EXCEPT ![last] = b]
     IN  IF Crc(Slice(contents, 2, last)) = b
           THEN /\ Reset
                /\ buffer' = contents
                /\ result' = Received(Slice(contents, 0, last + 1))
           ELSE /\ RestartFrom(b, contents)
                /\ result' = Failure("InvalidCrc", b)

(* push_byte_raw *)
PushByte(b) == PushSync(b) \/ PushLength(b) \/ PushPayload(b) \/ PushCrc(b)

(* The public reset(), called by the application between two bytes. *)
CallerReset == Reset /\ UNCHANGED <<buffer, result>>

Init ==
  /\ buffer = [i \in Index |-> 0]
  /\ state = AwaitingSync
  /\ position = 0
  /\ result = NoPacket

Next == CallerReset \/ \E b \in Byte : PushByte(b)

Spec == Init /\ [][Next]_vars

-----------------------------------------------------------------------------
(* The variables hold values of the types the struct declares. *)
TypeOK ==
  /\ buffer \in [Index -> Byte]
  /\ state \in {AwaitingSync, AwaitingLength, AwaitingCrc}
               \cup {Reading(n) : n \in (MinPacketSize - 1)..(MaxPacketSize - 1)}
  /\ position \in Index
  /\ result.kind \in {"None", "Packet", "InvalidSync", "InvalidPacketLength", "InvalidCrc"}

(* Whatever bytes arrive, the next write of push_byte_raw (buffer[position *)
(* + 1] in Reading and AwaitingCrc) is inside the buffer: the parser of a  *)
(* no_std firmware cannot panic on an index.                               *)
NextWriteInBounds ==
  state.at \in {"Reading", "AwaitingCrc"} => position + 1 \in Index

(* A frame in progress is described by its own first two bytes: they are   *)
(* still the ones that were accepted, and Reading(n) and the position      *)
(* agree with the size they announce.                                      *)
FrameInProgress ==
  /\ state # AwaitingSync => buffer[0] \in SyncBytes
  /\ state.at \in {"Reading", "AwaitingCrc"} => ValidSize(buffer[1] + 2)
  /\ state.at = "Reading" =>
       /\ state.n = buffer[1] + 1
       /\ position \in 1..(state.n - 2)
  /\ state.at = "AwaitingCrc" => position = buffer[1]
  /\ state.at \in {"AwaitingSync", "AwaitingLength"} => position = 0

(* The bytes received since the frame in progress began. *)
Candidate ==
  IF state = AwaitingSync THEN << >> ELSE Slice(buffer, 0, position + 1)

Abstract == INSTANCE Framer WITH candidate <- Candidate

(* The parser behaves as the abstract receiver: a returned packet is made  *)
(* of exactly the bytes received since its address byte, whatever older    *)
(* frames left in the buffer, and no error loses the byte that caused it.  *)
ImplementsFramer == Abstract!Spec
=============================================================================
