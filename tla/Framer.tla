------------------------------- MODULE Framer -------------------------------
(***************************************************************************)
(* What a CRSF frame receiver promises, independently of how it stores the *)
(* bytes.  A frame is                                                      *)
(*                                                                         *)
(*     sync address | length L | L - 1 bytes of type and payload | CRC     *)
(*                                                                         *)
(* so a frame of L + 2 bytes.  The receiver keeps only `candidate`, the    *)
(* bytes since the last one that could start a frame.  A byte that makes   *)
(* the candidate impossible (bad length, bad CRC) abandons it, and that    *)
(* same byte is looked at again as the first byte of the next candidate.   *)
(***************************************************************************)
EXTENDS Naturals, Sequences

CONSTANTS
  Byte,           \* the values a received byte can take
  SyncBytes,      \* the bytes that are a known device address
  MinPacketSize,  \* smallest whole frame, in bytes
  MaxPacketSize,  \* largest whole frame, in bytes
  Crc(_)          \* checksum of a sequence of bytes (type and payload)

VARIABLES
  candidate,      \* the bytes of the frame being received
  result          \* what the last byte produced

(* Results of feeding one byte: a failure names the byte that caused it.  *)
NoPacket          == [kind |-> "None",   bytes |-> << >>]
Failure(error, b) == [kind |-> error,    bytes |-> << b >>]
Received(frame)   == [kind |-> "Packet", bytes |-> frame]

FrameSize(length) == length + 2

ValidSize(n) == n \in MinPacketSize..MaxPacketSize

(* The checksum covers everything between the length byte and the CRC. *)
Covered(frame) == SubSeq(frame, 3, Len(frame) - 1)

CrcMatches(frame) == Crc(Covered(frame)) = frame[Len(frame)]

(* What is left of a candidate that the byte b has just ruled out. *)
StartWith(b) == IF b \in SyncBytes THEN << b >> ELSE << >>

Step(next, outcome) ==
  /\ candidate' = next
  /\ result' = outcome

(* A byte that is no address is skipped while nothing is being received. *)
Skip(b) ==
  /\ candidate = << >>
  /\ b \notin SyncBytes
  /\ Step(<< >>, Failure("InvalidSync", b))

Start(b) ==
  /\ candidate = << >>
  /\ b \in SyncBytes
  /\ Step(<< b >>, NoPacket)

BadLength(b) ==
  /\ Len(candidate) = 1
  /\ ~ ValidSize(FrameSize(b))
  /\ Step(StartWith(b), Failure("InvalidPacketLength", b))

GoodLength(b) ==
  /\ Len(candidate) = 1
  /\ ValidSize(FrameSize(b))
  /\ Step(Append(candidate, b), NoPacket)

Middle(b) ==
  /\ Len(candidate) >= 2
  /\ Len(candidate) + 1 < FrameSize(candidate[2])
  /\ Step(Append(candidate, b), NoPacket)

Last(b) ==
  /\ Len(candidate) >= 2
  /\ Len(candidate) + 1 = FrameSize(candidate[2])
  /\ LET frame == Append(candidate, b) IN
       IF CrcMatches(frame)
         THEN Step(<< >>, Received(frame))
         ELSE Step(StartWith(b), Failure("InvalidCrc", b))

(* The caller may throw the candidate away between two bytes. *)
Abandon ==
  /\ candidate' = << >>
  /\ UNCHANGED result

Accept(b) ==
  Skip(b) \/ Start(b) \/ BadLength(b) \/ GoodLength(b) \/ Middle(b) \/ Last(b)

Init ==
  /\ candidate = << >>
  /\ result = NoPacket

Next == Abandon \/ \E b \in Byte : Accept(b)

Spec == Init /\ [][Next]_<<candidate, result>>
=============================================================================
