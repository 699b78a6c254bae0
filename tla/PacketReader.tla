---------------------------- MODULE PacketReader ----------------------------
(***************************************************************************)
(* read_packet of the two stream readers, src/src/async_io.rs and          *)
(* src/src/blocking_io.rs, which are one algorithm: empty input_buffer     *)
(* into the parser byte by byte, return at the first packet or error,      *)
(* otherwise read some more of the stream into input_buffer.  The async    *)
(* reader can moreover be cancelled, at its only await: inside the read.   *)
(*                                                                         *)
(* A byte is its position in the stream.  The parser is deterministic, so  *)
(* what it answers to byte i, once fed the bytes before it, is a function  *)
(* of i: `verdict`, any function at all.                                   *)
(***************************************************************************)
EXTENDS Naturals, Sequences

CONSTANTS
  MaxBytes,     \* bound: length of the stream
  ReadSize,     \* size of temp_read_buf (64)
  BufferSize,   \* capacity of input_buffer (128)
  MaxFaults     \* bound: failed reads and cancelled calls

ASSUME SizeAssumption ==
  /\ MaxBytes \in Nat
  /\ MaxFaults \in Nat
  /\ ReadSize \in Nat \ {0}
  /\ BufferSize \in Nat
  /\ ReadSize <= BufferSize

VARIABLES
  verdict,  \* what the parser makes of each byte of the stream
  wire,     \* bytes sent and not yet read
  sent,     \* how many bytes were sent
  input,    \* input_buffer
  fed,      \* the bytes the parser was given
  phase,    \* where read_packet is: not running, in the first loop, in read
  answers,  \* the bytes whose verdict the caller was given
  outcome,  \* what the last call returned
  faults    \* failed reads and cancelled calls so far

vars == <<verdict, wire, sent, input, fed, phase, answers, outcome, faults>>

Position == 1..MaxBytes

Verdict == {"None", "Packet", "Error"}

StreamError == {"Io", "UnexpectedEof", "InputBufferTooSmall"}

Return(value) ==
  /\ phase' = "idle"
  /\ outcome' = value

-----------------------------------------------------------------------------
(* The other end sends a byte. *)
Send ==
  /\ sent < MaxBytes
  /\ sent' = sent + 1
  /\ wire' = Append(wire, sent + 1)
  /\ UNCHANGED <<verdict, input, fed, phase, answers, outcome, faults>>

(* The caller's loop calls read_packet again, whatever the last outcome. *)
Call ==
  /\ phase = "idle"
  /\ phase' = "feeding"
  /\ UNCHANGED <<verdict, wire, sent, input, fed, answers, outcome, faults>>

(* Seeded fault: an error of the parser also empties the input buffer. *)
FeedClearingOnError ==
  /\ phase = "feeding"
  /\ input # << >>
  /\ LET byte == Head(input) IN
       /\ input' = IF verdict[byte] = "Error" THEN << >> ELSE Tail(input)
       /\ fed' = Append(fed, byte)
       /\ IF verdict[byte] = "None"
            THEN UNCHANGED <<phase, answers, outcome>>
            ELSE answers' = Append(answers, byte) /\ Return(verdict[byte])
  /\ UNCHANGED <<verdict, wire, sent, faults>>

(* Seeded fault: the byte is looked at and popped only if nothing is       *)
(* returned.                                                               *)
FeedWithoutPop ==
  /\ phase = "feeding"
  /\ input # << >>
  /\ LET byte == Head(input) IN
       /\ input' = IF verdict[byte] = "None" THEN Tail(input) ELSE input
       /\ fed' = Append(fed, byte)
       /\ IF verdict[byte] = "None"
            THEN UNCHANGED <<phase, answers, outcome>>
            ELSE answers' = Append(answers, byte) /\ Return(verdict[byte])
  /\ UNCHANGED <<verdict, wire, sent, faults>>

(* Seeded fault: errors of the parser are passed over to find a packet. *)
FeedPastErrors ==
  /\ phase = "feeding"
  /\ input # << >>
  /\ LET byte == Head(input) IN
       /\ input' = Tail(input)
       /\ fed' = Append(fed, byte)
       /\ IF verdict[byte] # "Packet"
            THEN UNCHANGED <<phase, answers, outcome>>
            ELSE answers' = Append(answers, byte) /\ Return("Packet")
  /\ UNCHANGED <<verdict, wire, sent, faults>>

(* One turn of the first loop: pop a byte, push it to the parser, return   *)
(* on a packet and on an error.                                            *)
Feed ==
  /\ phase = "feeding"
  /\ input # << >>
  /\ LET byte == Head(input) IN
       /\ input' = Tail(input)
       /\ fed' = Append(fed, byte)
       /\ IF verdict[byte] = "None"
            THEN UNCHANGED <<phase, answers, outcome>>
            ELSE answers' = Append(answers, byte) /\ Return(verdict[byte])
  /\ UNCHANGED <<verdict, wire, sent, faults>>

(* Seeded fault: only one turn of the first loop before the next read. *)
StartReadEarly ==
  /\ phase = "feeding"
  /\ phase' = "reading"
  /\ UNCHANGED <<verdict, wire, sent, input, fed, answers, outcome, faults>>

(* Nothing is buffered: read more. *)
StartRead ==
  /\ phase = "feeding"
  /\ input = << >>
  /\ phase' = "reading"
  /\ UNCHANGED <<verdict, wire, sent, input, fed, answers, outcome, faults>>

(* The bytes of a batch that the input buffer still takes. *)
Fits(n) == IF Len(input) + n <= BufferSize THEN n ELSE BufferSize - Len(input)

(* Seeded fault: read_exact in the place of read. *)
CompleteFullOnly(n) ==
  /\ phase = "reading"
  /\ n = ReadSize
  /\ input' = input \o SubSeq(wire, 1, Fits(n))
  /\ wire' = SubSeq(wire, n + 1, Len(wire))
  /\ IF Fits(n) = n
       THEN phase' = "feeding" /\ UNCHANGED outcome
       ELSE Return("InputBufferTooSmall")
  /\ UNCHANGED <<verdict, sent, fed, answers, faults>>

(* The read brings n bytes; those that the buffer does not take are lost. *)
Complete(n) ==
  /\ phase = "reading"
  /\ input' = input \o SubSeq(wire, 1, Fits(n))
  /\ wire' = SubSeq(wire, n + 1, Len(wire))
  /\ IF Fits(n) = n
       THEN phase' = "feeding" /\ UNCHANGED outcome
       ELSE Return("InputBufferTooSmall")
  /\ UNCHANGED <<verdict, sent, fed, answers, faults>>

(* The stream has nothing and says so: 0 bytes. *)
EndOfStream ==
  /\ phase = "reading"
  /\ wire = << >>
  /\ Return("UnexpectedEof")
  /\ UNCHANGED <<verdict, wire, sent, input, fed, answers, faults>>

(* The read fails. *)
ReadFails ==
  /\ phase = "reading"
  /\ faults < MaxFaults
  /\ faults' = faults + 1
  /\ Return("Io")
  /\ UNCHANGED <<verdict, wire, sent, input, fed, answers>>

(* The future of the async reader is dropped while it awaits the read; a   *)
(* read that has not completed has taken nothing from the stream.          *)
Cancel ==
  /\ phase = "reading"
  /\ faults < MaxFaults
  /\ faults' = faults + 1
  /\ phase' = "idle"
  /\ UNCHANGED <<verdict, wire, sent, input, fed, answers, outcome>>

Init ==
  /\ verdict \in [Position -> Verdict]
  /\ wire = << >>
  /\ sent = 0
  /\ input = << >>
  /\ fed = << >>
  /\ phase = "idle"
  /\ answers = << >>
  /\ outcome = "None"
  /\ faults = 0

ReadSome == \E n \in 1..ReadSize : n <= Len(wire) /\ Complete(n)

Next ==
  \/ Send \/ Call \/ Feed \/ StartRead \/ ReadSome
  \/ EndOfStream \/ ReadFails \/ Cancel

Spec == Init /\ [][Next]_vars

(* The caller's loop goes on, and a read of a stream that has bytes ends.  *)
Fairness ==
  /\ WF_vars(Call)
  /\ WF_vars(Feed)
  /\ WF_vars(StartRead)
  /\ WF_vars(ReadSome)

FairSpec == Spec /\ Fairness

-----------------------------------------------------------------------------
(* The fields of the reader; the parser is given no more bytes than there  *)
(* are in the stream, although a byte stays known after it was popped.     *)
TypeOK ==
  /\ verdict \in [Position -> Verdict]
  /\ wire \in Seq(Position)
  /\ sent \in 0..MaxBytes
  /\ input \in Seq(Position)
  /\ Len(input) <= BufferSize
  /\ fed \in Seq(Position)
  /\ Len(fed) <= sent
  /\ phase \in {"idle", "feeding", "reading"}
  /\ answers \in Seq(Position)
  /\ outcome \in Verdict \cup StreamError
  /\ faults \in 0..MaxFaults

(* Every byte of the stream is in exactly one place, in order: behind the  *)
(* parser, in the input buffer, or still to be read.  This is what the     *)
(* readers promise under "Cancellation Safety": the next call continues    *)
(* without losing data, whichever way the last one ended.                  *)
Lossless == fed \o input \o wire = [i \in 1..sent |-> i]

(* Whatever the batches, the failures and the cancellations, the caller    *)
(* has been given each packet and each error the parser found, once and in *)
(* the order of the stream.                                                *)
AnswersInOrder ==
  /\ \A j, k \in 1..Len(answers) : j < k => answers[j] < answers[k]
  /\ {answers[k] : k \in 1..Len(answers)} =
       {i \in 1..Len(fed) : verdict[i] # "None"}

(* The error InputBufferTooSmall, which the docs of both readers explain,  *)
(* is never returned.                                                      *)
BufferNeverFills == outcome # "InputBufferTooSmall"

(* A caller that keeps calling has every byte that was sent looked at.     *)
EventuallyFed == \A n \in Position : sent >= n ~> Len(fed) >= n
=============================================================================
