-------------------------- MODULE CrsfParserProofs --------------------------
(***************************************************************************)
(* Proofs about the frame parser, for every set of bytes, every frame size *)
(* limit of at least 4 and every checksum.                                 *)
(***************************************************************************)
EXTENDS CrsfParser, TLAPS

(* FrameInProgress is inductive together with the types. *)
IInv == TypeOK /\ FrameInProgress

(* The types record of `result` only its kind; that of a failure is one of *)
(* the three errors.                                                       *)
LEMMA ResultKinds ==
  /\ NoPacket.kind = "None"
  /\ \A frame : Received(frame).kind = "Packet"
  /\ \A error, b : Failure(error, b).kind = error
BY DEF NoPacket, Received, Failure

LEMMA StateNames ==
  /\ AwaitingSync.at = "AwaitingSync"
  /\ AwaitingLength.at = "AwaitingLength"
  /\ AwaitingCrc.at = "AwaitingCrc"
  /\ \A n : Reading(n).at = "Reading" /\ Reading(n).n = n
BY DEF AwaitingSync, AwaitingLength, AwaitingCrc, Reading

LEMMA FirstIndices == 0 \in Index /\ 1 \in Index
BY SizeAssumption DEF Index

(* A restart leaves the parser as after its first byte, or as at the       *)
(* start: whatever contents the buffer then has.                           *)
LEMMA RestartInv ==
  ASSUME NEW b \in Byte, NEW contents \in [Index -> Byte],
         RestartFrom(b, contents)
  PROVE  /\ buffer' \in [Index -> Byte]
         /\ position' = 0
         /\ \/ state' = AwaitingSync
            \/ state' = AwaitingLength /\ buffer'[0] \in SyncBytes
<1>1. 0 \in Index
  BY SizeAssumption DEF Index
<1>2. CASE b \in SyncBytes
  BY <1>1, <1>2 DEF RestartFrom
<1>3. CASE b \notin SyncBytes
  BY <1>3 DEF RestartFrom
<1>4. QED
  BY <1>2, <1>3

(* The invariant holds of any state the parser can be in between frames or *)
(* after an address byte.                                                  *)
LEMMA BetweenFrames ==
  ASSUME buffer' \in [Index -> Byte],
         position' = 0,
         \/ state' = AwaitingSync
         \/ state' = AwaitingLength /\ buffer'[0] \in SyncBytes,
         result'.kind \in {"None", "Packet", "InvalidSync",
                           "InvalidPacketLength", "InvalidCrc"}
  PROVE  IInv'
BY StateNames, SizeAssumption DEF IInv, TypeOK, FrameInProgress, Index

LEMMA InitInv == Init => IInv
<1>1. ASSUME Init PROVE IInv
  BY <1>1, StateNames, ResultKinds, SizeAssumption, ByteAssumption
  DEF Init, IInv, TypeOK, FrameInProgress, Index
<1>2. QED
  BY <1>1

(* Each handler of push_byte_raw preserves the invariant. *)
LEMMA NextInv == IInv /\ [Next]_vars => IInv'
<1> SUFFICES ASSUME IInv, [Next]_vars PROVE IInv'
  OBVIOUS
<1> USE DEF IInv
<1>1. CASE CallerReset
  <2>1. buffer' = buffer /\ position' = 0 /\ state' = AwaitingSync /\ result' = result
    BY <1>1 DEF CallerReset, Reset
  <2>2. QED
    BY <2>1, BetweenFrames DEF TypeOK
<1>2. ASSUME NEW b \in Byte, PushSync(b) PROVE IInv'
  <2>1. CASE b \in SyncBytes
    <3>1. buffer' \in [Index -> Byte] /\ buffer'[0] = b
      BY <1>2, <2>1, SizeAssumption DEF PushSync, TypeOK, Index
    <3>2. position' = 0 /\ state' = AwaitingLength /\ result' = NoPacket
      BY <1>2, <2>1 DEF PushSync
    <3>3. QED
      BY <2>1, <3>1, <3>2, ResultKinds, BetweenFrames
  <2>2. CASE b \notin SyncBytes
    <3>1. /\ buffer' = buffer /\ position' = position /\ state' = AwaitingSync
          /\ state = AwaitingSync /\ result' = Failure("InvalidSync", b)
      BY <1>2, <2>2 DEF PushSync
    <3>2. position = 0
      BY <3>1, StateNames DEF FrameInProgress
    <3>3. QED
      BY <3>1, <3>2, ResultKinds, BetweenFrames DEF TypeOK
  <2>3. QED
    BY <2>1, <2>2
<1>3. ASSUME NEW b \in Byte, PushLength(b) PROVE IInv'
  <2> DEFINE n == b + 2
  <2>1. CASE ValidSize(n)
    <3>1. n \in Nat /\ 4 <= n /\ n <= MaxPacketSize /\ n \in MinPacketSize..MaxPacketSize
      BY <2>1, SizeAssumption, ByteAssumption DEF ValidSize
    <3>2. /\ position' = 1 /\ buffer' = [buffer EXCEPT ![1] = b]
          /\ state' = Reading(n - 1) /\ result' = NoPacket /\ state = AwaitingLength
      BY <1>3, <2>1 DEF PushLength
    <3>3. /\ buffer' \in [Index -> Byte] /\ buffer'[1] = b /\ buffer'[0] = buffer[0]
          /\ 1 \in Index
      BY <3>1, <3>2, SizeAssumption DEF TypeOK, Index
    <3>4. buffer[0] \in SyncBytes
      BY <3>2, StateNames DEF FrameInProgress
    <3>5. n - 1 \in (MinPacketSize - 1)..(MaxPacketSize - 1) /\ n - 1 = b + 1
      BY <3>1, SizeAssumption, ByteAssumption
    <3>6. state'.at = "Reading" /\ state'.n = n - 1
      BY <3>2, StateNames
    <3>7. TypeOK'
      BY <3>2, <3>3, <3>5, ResultKinds DEF TypeOK
    <3>8. 1 \in 1..(n - 1 - 2)
      BY <3>1
    <3>9. FrameInProgress'
      BY <2>1, <3>2, <3>3, <3>4, <3>5, <3>6, <3>8, StateNames
      DEF FrameInProgress
    <3>10. QED
      BY <3>7, <3>9
  <2>2. CASE ~ ValidSize(n)
    <3>1. RestartFrom(b, buffer) /\ result' = Failure("InvalidPacketLength", b)
      BY <1>3, <2>2 DEF PushLength
    <3>2. QED
      BY <3>1, RestartInv, BetweenFrames, ResultKinds DEF TypeOK
  <2>3. QED
    BY <2>1, <2>2
<1>4. ASSUME NEW b \in Byte, PushPayload(b) PROVE IInv'
  <2> DEFINE next == position + 1
  <2>1. /\ state.at = "Reading" /\ position' = next
        /\ buffer' = [buffer EXCEPT ![next] = b] /\ result' = NoPacket
        /\ state' = IF next = state.n - 1 THEN AwaitingCrc ELSE state
    BY <1>4 DEF PushPayload
  <2>2. /\ buffer[0] \in SyncBytes /\ ValidSize(buffer[1] + 2)
        /\ state.n = buffer[1] + 1 /\ position \in 1..(state.n - 2)
    BY <2>1, StateNames DEF FrameInProgress
  <2>3. buffer[1] \in Nat /\ 4 <= buffer[1] + 2 /\ buffer[1] + 2 <= MaxPacketSize
    <3>1. buffer[1] \in Nat
      BY FirstIndices, ByteAssumption DEF TypeOK
    <3>2. QED
      BY <2>2, <3>1, SizeAssumption DEF ValidSize
  <2>4. /\ next \in Index /\ next >= 2 /\ position \in Nat
        /\ next <= state.n - 1
    BY <2>2, <2>3, SizeAssumption DEF Index
  <2>5. buffer' \in [Index -> Byte] /\ buffer'[0] = buffer[0] /\ buffer'[1] = buffer[1]
    BY <2>1, <2>4, SizeAssumption DEF TypeOK, Index
  <2>6. CASE next = state.n - 1
    <3>1. state' = AwaitingCrc /\ position' = buffer'[1]
      BY <2>1, <2>2, <2>3, <2>5, <2>6
    <3>2. QED
      BY <2>1, <2>2, <2>4, <2>5, <3>1, StateNames, ResultKinds
      DEF TypeOK, FrameInProgress
  <2>7. CASE next # state.n - 1
    <3>1. state' = state /\ position' \in 1..(state.n - 2)
      BY <2>1, <2>2, <2>3, <2>4, <2>7
    <3>2. QED
      BY <2>1, <2>2, <2>4, <2>5, <3>1, StateNames, ResultKinds
      DEF TypeOK, FrameInProgress
  <2>8. QED
    BY <2>6, <2>7
<1>5. ASSUME NEW b \in Byte, PushCrc(b) PROVE IInv'
  <2> DEFINE last     == position + 1
             contents == [buffer EXCEPT ![last] = b]
  <2>1. contents \in [Index -> Byte]
    BY DEF TypeOK
  <2>2. CASE Crc(Slice(contents, 2, last)) = b
    <3>1. /\ Reset /\ buffer' = contents
          /\ result' = Received(Slice(contents, 0, last + 1))
      BY <1>5, <2>2 DEF PushCrc
    <3>2. QED
      BY <2>1, <3>1, BetweenFrames, ResultKinds DEF Reset
  <2>3. CASE Crc(Slice(contents, 2, last)) # b
    <3>1. RestartFrom(b, contents) /\ result' = Failure("InvalidCrc", b)
      BY <1>5, <2>3 DEF PushCrc
    <3>2. QED
      BY <2>1, <3>1, RestartInv, BetweenFrames, ResultKinds
  <2>4. QED
    BY <2>2, <2>3
<1>6. CASE UNCHANGED vars
  BY <1>6 DEF vars, TypeOK, FrameInProgress
<1>7. QED
  BY <1>1, <1>2, <1>3, <1>4, <1>5, <1>6 DEF Next, PushByte

LEMMA InvInductive == Spec => []IInv
BY InitInv, NextInv, PTL DEF Spec

(* The variables keep the types of the struct: in particular position      *)
(* stays an index of the buffer.                                           *)
THEOREM TypeCorrect == Spec => []TypeOK
<1>1. IInv => TypeOK
  BY DEF IInv
<1>2. QED
  BY InvInductive, <1>1, PTL

(* push_byte_raw never writes or reads outside its buffer, for every byte  *)
(* stream and every limit on the frame size.                               *)
THEOREM WritesInBounds == Spec => []NextWriteInBounds
<1>1. ASSUME IInv PROVE NextWriteInBounds
  <2>1. SUFFICES ASSUME state.at \in {"Reading", "AwaitingCrc"}
                 PROVE  position + 1 \in Index
    BY DEF NextWriteInBounds
  <2>2. ValidSize(buffer[1] + 2) /\ position \in Index /\ buffer \in [Index -> Byte]
    BY <1>1, <2>1, StateNames DEF IInv, TypeOK, FrameInProgress
  <2>3. buffer[1] \in Nat /\ buffer[1] + 2 <= MaxPacketSize /\ position \in Nat
    <3>1. buffer[1] \in Nat
      BY <2>2, FirstIndices, ByteAssumption
    <3>2. QED
      BY <2>2, <3>1, SizeAssumption DEF ValidSize, Index
  <2>4. position <= buffer[1]
    BY <1>1, <2>1, <2>3, StateNames DEF IInv, FrameInProgress
  <2>5. QED
    BY <2>3, <2>4, SizeAssumption DEF Index
<1>2. QED
  BY InvInductive, <1>1, PTL

(* The first two bytes of the buffer, the position and Reading(n) always   *)
(* describe one and the same frame.                                        *)
THEOREM FrameAgrees == Spec => []FrameInProgress
<1>1. IInv => FrameInProgress
  BY DEF IInv
<1>2. QED
  BY InvInductive, <1>1, PTL

-----------------------------------------------------------------------------
(* Slices of the buffer as sequences. *)

LEMMA SliceElements ==
  ASSUME NEW c \in [Index -> Byte], NEW from \in Nat, NEW to \in Nat,
         from <= to, to <= MaxPacketSize
  PROVE  /\ Slice(c, from, to) \in Seq(Byte)
         /\ Len(Slice(c, from, to)) = to - from
         /\ \A i \in 1..(to - from) : Slice(c, from, to)[i] = c[from + i - 1]
<1>1. \A i \in 1..(to - from) : from + i - 1 \in Index
  BY SizeAssumption DEF Index
<1>2. to - from \in Nat
  OBVIOUS
<1>3. QED
  BY <1>1, <1>2 DEF Slice

LEMMA PrefixElements ==
  ASSUME NEW c \in [Index -> Byte], NEW to \in Nat, to <= MaxPacketSize
  PROVE  /\ Slice(c, 0, to) \in Seq(Byte)
         /\ Len(Slice(c, 0, to)) = to
         /\ \A i \in 1..to : Slice(c, 0, to)[i] = c[i - 1]
<1>1. 0 \in Nat /\ 0 <= to /\ to - 0 = to
  OBVIOUS
<1>2. /\ Slice(c, 0, to) \in Seq(Byte)
      /\ Len(Slice(c, 0, to)) = to - 0
      /\ \A i \in 1..(to - 0) : Slice(c, 0, to)[i] = c[0 + i - 1]
  BY <1>1, SliceElements
<1>3. \A i \in 1..to : 0 + i - 1 = i - 1
  OBVIOUS
<1>4. QED
  BY <1>1, <1>2, <1>3

(* Writing one more byte behind a slice appends it. *)
LEMMA SliceAppend ==
  ASSUME NEW c \in [Index -> Byte], NEW p \in Index, NEW b \in Byte
  PROVE  Slice([c EXCEPT ![p] = b], 0, p + 1) = Append(Slice(c, 0, p), b)
<1> DEFINE after == [c EXCEPT ![p] = b]
           long  == Slice(after, 0, p + 1)
           short == Slice(c, 0, p)
<1>1. after \in [Index -> Byte] /\ p \in Nat /\ p + 1 <= MaxPacketSize
  BY SizeAssumption DEF Index
<1>2. /\ long \in Seq(Byte) /\ Len(long) = p + 1
      /\ \A i \in 1..(p + 1) : long[i] = after[i - 1]
  <2>1. p + 1 \in Nat
    BY <1>1
  <2> HIDE DEF after
  <2>2. QED
    BY <1>1, <2>1, PrefixElements
<1>3. /\ short \in Seq(Byte) /\ Len(short) = p
      /\ \A i \in 1..p : short[i] = c[i - 1]
  BY <1>1, PrefixElements, SizeAssumption
<1>4. \A i \in 1..p : after[i - 1] = c[i - 1]
  BY <1>1, SizeAssumption DEF Index
<1>5. after[p] = b
  OBVIOUS
<1> HIDE DEF after, long, short
<1>6. Len(Append(short, b)) = p + 1 /\ Append(short, b) \in Seq(Byte)
  BY <1>3
<1>7. \A i \in 1..(p + 1) : Append(short, b)[i] = long[i]
  BY <1>1, <1>2, <1>3, <1>4, <1>5
<1>8. long = Append(short, b)
  BY <1>1, <1>2, <1>6, <1>7
<1>9. QED
  BY <1>8 DEF after, long, short

(* What a frame receiver checksums is what the parser passes to the crc:   *)
(* the bytes after the length, without the last one.                       *)
LEMMA SliceCovered ==
  ASSUME NEW c \in [Index -> Byte], NEW last \in Index, 2 <= last
  PROVE  SubSeq(Slice(c, 0, last + 1), 3, last) = Slice(c, 2, last)
<1> DEFINE frame == Slice(c, 0, last + 1)
           body  == Slice(c, 2, last)
<1>1. last \in Nat /\ last + 1 <= MaxPacketSize
  BY SizeAssumption DEF Index
<1>2. /\ frame \in Seq(Byte) /\ Len(frame) = last + 1
      /\ \A i \in 1..(last + 1) : frame[i] = c[i - 1]
  BY <1>1, PrefixElements
<1>3. /\ body \in Seq(Byte) /\ Len(body) = last - 2
      /\ \A i \in 1..(last - 2) : body[i] = c[i + 1]
  <2>1. 2 \in Nat /\ last <= MaxPacketSize
    BY <1>1, SizeAssumption
  <2>2. /\ body \in Seq(Byte) /\ Len(body) = last - 2
        /\ \A i \in 1..(last - 2) : body[i] = c[2 + i - 1]
    BY <1>1, <2>1, SliceElements
  <2>3. \A i \in 1..(last - 2) : 2 + i - 1 = i + 1
    OBVIOUS
  <2>4. QED
    BY <2>2, <2>3
<1> HIDE DEF frame, body
<1>4. SubSeq(frame, 3, last) \in Seq(Byte) /\ Len(SubSeq(frame, 3, last)) = last - 2
  BY <1>1, <1>2
<1>5. ASSUME NEW i \in 1..(last - 2)
      PROVE  SubSeq(frame, 3, last)[i] = body[i]
  <2>1. i + 2 \in 1..(last + 1) /\ i + 2 - 1 = i + 1
    BY <1>1
  <2>2. frame[i + 2] = c[i + 1]
    BY <1>2, <2>1
  <2>3. SubSeq(frame, 3, last)[i] = frame[i + 2]
    BY <1>1, <1>2
  <2>4. QED
    BY <1>3, <2>2, <2>3
<1>6. SubSeq(frame, 3, last) = body
  BY <1>1, <1>3, <1>4, <1>5
<1>7. QED
  BY <1>6 DEF frame, body

-----------------------------------------------------------------------------
(* The refinement. *)

LEMMA StartOfFrame ==
  ASSUME NEW b \in Byte, buffer' \in [Index -> Byte], buffer'[0] = b,
         position' = 0, state' = AwaitingLength
  PROVE  Candidate' = << b >>
<1>1. state' # AwaitingSync
  BY StateNames
<1>2. Candidate' = Slice(buffer', 0, 1)
  BY <1>1 DEF Candidate
<1>3. /\ Slice(buffer', 0, 1) \in Seq(Byte)
      /\ Len(Slice(buffer', 0, 1)) = 1
      /\ Slice(buffer', 0, 1)[1] = buffer'[0]
  <2>1. 1 \in Nat /\ 1 <= MaxPacketSize /\ 1 \in 1..1 /\ 1 - 1 = 0
    BY SizeAssumption
  <2>2. \A i \in 1..1 : Slice(buffer', 0, 1)[i] = buffer'[i - 1]
    BY <2>1, PrefixElements
  <2>3. QED
    BY <2>1, <2>2, PrefixElements
<1>4. QED
  BY <1>2, <1>3

LEMMA RestartCandidate ==
  ASSUME NEW b \in Byte, NEW contents \in [Index -> Byte],
         RestartFrom(b, contents)
  PROVE  Candidate' = Abstract!StartWith(b)
<1>1. CASE b \in SyncBytes
  <2>1. /\ buffer' \in [Index -> Byte] /\ buffer'[0] = b
        /\ position' = 0 /\ state' = AwaitingLength
    BY <1>1, FirstIndices DEF RestartFrom
  <2>2. QED
    BY <1>1, <2>1, StartOfFrame DEF Abstract!StartWith
<1>2. CASE b \notin SyncBytes
  BY <1>2 DEF RestartFrom, Candidate, Abstract!StartWith
<1>3. QED
  BY <1>1, <1>2

(* The bytes of the frame in progress, by the invariant. *)
LEMMA CandidateInProgress ==
  ASSUME IInv, state # AwaitingSync
  PROVE  /\ Candidate = Slice(buffer, 0, position + 1)
         /\ Candidate \in Seq(Byte)
         /\ Len(Candidate) = position + 1
         /\ position >= 1 => Candidate[2] = buffer[1]
<1>1. Candidate = Slice(buffer, 0, position + 1)
  BY DEF Candidate
<1>2. /\ position \in Nat /\ position + 1 <= MaxPacketSize
      /\ buffer \in [Index -> Byte]
  BY SizeAssumption DEF IInv, TypeOK, Index
<1>3. /\ Slice(buffer, 0, position + 1) \in Seq(Byte)
      /\ Len(Slice(buffer, 0, position + 1)) = position + 1
      /\ \A i \in 1..(position + 1) :
           Slice(buffer, 0, position + 1)[i] = buffer[i - 1]
  BY <1>2, PrefixElements
<1>4. QED
  BY <1>1, <1>2, <1>3

LEMMA InitRefines == Init => Abstract!Init
BY DEF Init, Abstract!Init, Candidate, NoPacket, Abstract!NoPacket

(* Every step of the parser is a step of the receiver, or changes nothing  *)
(* the receiver can see.                                                   *)
LEMMA NextRefines ==
  IInv /\ [Next]_vars => [Abstract!Next]_<<Candidate, result>>
<1> SUFFICES ASSUME IInv, [Next]_vars
             PROVE  [Abstract!Next]_<<Candidate, result>>
  OBVIOUS
<1> USE DEF Abstract!Step
<1>1. CASE CallerReset
  <2>1. Abstract!Abandon
    BY <1>1 DEF CallerReset, Reset, Candidate, Abstract!Abandon
  <2>2. QED
    BY <2>1 DEF Abstract!Next
<1>2. ASSUME NEW b \in Byte, PushSync(b) PROVE Abstract!Accept(b)
  <2>1. Candidate = << >>
    BY <1>2 DEF PushSync, Candidate
  <2>2. CASE b \in SyncBytes
    <3>1. /\ buffer' \in [Index -> Byte] /\ buffer'[0] = b
          /\ position' = 0 /\ state' = AwaitingLength /\ result' = NoPacket
      BY <1>2, <2>2, FirstIndices DEF PushSync, IInv, TypeOK
    <3>2. Abstract!Start(b)
      BY <2>1, <2>2, <3>1, StartOfFrame
      DEF Abstract!Start, NoPacket, Abstract!NoPacket
    <3>3. QED
      BY <3>2 DEF Abstract!Accept
  <2>3. CASE b \notin SyncBytes
    <3>1. state' = AwaitingSync /\ result' = Failure("InvalidSync", b)
      BY <1>2, <2>3 DEF PushSync
    <3>2. Abstract!Skip(b)
      BY <2>1, <2>3, <3>1 DEF Candidate, Abstract!Skip, Failure, Abstract!Failure
    <3>3. QED
      BY <3>2 DEF Abstract!Accept
  <2>4. QED
    BY <2>2, <2>3
<1>3. ASSUME NEW b \in Byte, PushLength(b) PROVE Abstract!Accept(b)
  <2> DEFINE n == b + 2
  <2>1. state = AwaitingLength /\ state # AwaitingSync /\ position = 0
    BY <1>3, StateNames DEF PushLength, IInv, FrameInProgress
  <2>2. /\ Candidate = Slice(buffer, 0, 1)
        /\ Len(Candidate) = 1
    BY <2>1, CandidateInProgress
  <2>3. ValidSize(n) <=> Abstract!ValidSize(Abstract!FrameSize(b))
    BY DEF ValidSize, Abstract!ValidSize, Abstract!FrameSize
  <2>4. CASE ValidSize(n)
    <3>1. /\ position' = 1 /\ buffer' = [buffer EXCEPT ![1] = b]
          /\ state' = Reading(n - 1) /\ result' = NoPacket
      BY <1>3, <2>4 DEF PushLength
    <3>2. Candidate' = Slice([buffer EXCEPT ![1] = b], 0, 1 + 1)
      BY <3>1, StateNames DEF Candidate
    <3>3. Candidate' = Append(Candidate, b)
      BY <2>2, <3>2, SliceAppend, FirstIndices DEF IInv, TypeOK
    <3>4. Abstract!GoodLength(b)
      BY <2>2, <2>3, <2>4, <3>1, <3>3
      DEF Abstract!GoodLength, NoPacket, Abstract!NoPacket
    <3>5. QED
      BY <3>4 DEF Abstract!Accept
  <2>5. CASE ~ ValidSize(n)
    <3>1. RestartFrom(b, buffer) /\ result' = Failure("InvalidPacketLength", b)
      BY <1>3, <2>5 DEF PushLength
    <3>2. Candidate' = Abstract!StartWith(b)
      BY <3>1, RestartCandidate DEF IInv, TypeOK
    <3>3. Abstract!BadLength(b)
      BY <2>2, <2>3, <2>5, <3>1, <3>2
      DEF Abstract!BadLength, Failure, Abstract!Failure
    <3>4. QED
      BY <3>3 DEF Abstract!Accept
  <2>6. QED
    BY <2>4, <2>5
<1>4. ASSUME NEW b \in Byte, PushPayload(b) PROVE Abstract!Accept(b)
  <2>1. /\ state.at = "Reading" /\ position' = position + 1
        /\ buffer' = [buffer EXCEPT ![position + 1] = b] /\ result' = NoPacket
        /\ state' = IF position + 1 = state.n - 1 THEN AwaitingCrc ELSE state
    BY <1>4 DEF PushPayload
  <2>2. state # AwaitingSync /\ state' # AwaitingSync
    BY <2>1, StateNames
  <2>3. /\ position \in 1..(state.n - 2) /\ state.n = buffer[1] + 1
        /\ ValidSize(buffer[1] + 2) /\ buffer \in [Index -> Byte]
    BY <2>1, StateNames DEF IInv, TypeOK, FrameInProgress
  <2>4. buffer[1] \in Nat
    BY <2>3, FirstIndices, ByteAssumption
  <2>5. /\ position \in Nat /\ position >= 1 /\ position + 1 \in Index
        /\ position + 2 < buffer[1] + 2
    BY <2>3, <2>4, SizeAssumption DEF ValidSize, Index
  <2>6. /\ Candidate = Slice(buffer, 0, position + 1)
        /\ Len(Candidate) = position + 1
        /\ Candidate[2] = buffer[1]
    BY <2>2, <2>5, CandidateInProgress
  <2>7. Candidate' = Slice([buffer EXCEPT ![position + 1] = b], 0, position + 1 + 1)
    BY <2>1, <2>2 DEF Candidate
  <2>8. Candidate' = Append(Candidate, b)
    BY <2>3, <2>5, <2>6, <2>7, SliceAppend
  <2>9. Abstract!Middle(b)
    BY <2>1, <2>4, <2>5, <2>6, <2>8
    DEF Abstract!Middle, Abstract!FrameSize, NoPacket, Abstract!NoPacket
  <2>10. QED
    BY <2>9 DEF Abstract!Accept
<1>5. ASSUME NEW b \in Byte, PushCrc(b) PROVE Abstract!Accept(b)
  <2> DEFINE last     == position + 1
             contents == [buffer EXCEPT ![last] = b]
             frame    == Append(Candidate, b)
  <2>1. state = AwaitingCrc /\ state # AwaitingSync
    BY <1>5, StateNames DEF PushCrc
  <2>2. /\ position = buffer[1] /\ ValidSize(buffer[1] + 2)
        /\ buffer \in [Index -> Byte]
    BY <2>1, StateNames DEF IInv, TypeOK, FrameInProgress
  <2>3. buffer[1] \in Nat
    BY <2>2, FirstIndices, ByteAssumption
  <2>4. position \in Nat /\ position >= 2 /\ last \in Index
    BY <2>2, <2>3, SizeAssumption DEF ValidSize, Index
  <2>5. /\ Candidate = Slice(buffer, 0, last) /\ Candidate \in Seq(Byte)
        /\ Len(Candidate) = last /\ Candidate[2] = buffer[1]
    BY <2>1, <2>4, CandidateInProgress
  <2>6. contents \in [Index -> Byte] /\ contents[last] = b
    BY <2>2, <2>4
  <2>7. frame = Slice(contents, 0, last + 1)
    BY <2>2, <2>4, <2>5, SliceAppend
  <2>8. Len(frame) = last + 1 /\ frame[Len(frame)] = b
    BY <2>4, <2>5
  <2>9. Abstract!Covered(frame) = SubSeq(frame, 3, last)
    BY <2>4, <2>8 DEF Abstract!Covered
  <2>10. SubSeq(Slice(contents, 0, last + 1), 3, last) = Slice(contents, 2, last)
    <3>1. 2 <= last
      BY <2>4
    <3> HIDE DEF contents, last
    <3>2. QED
      BY <2>4, <2>6, <3>1, SliceCovered
  <2>11. Abstract!Covered(frame) = Slice(contents, 2, last)
    BY <2>7, <2>9, <2>10
  <2> HIDE DEF frame
  <2>12. Abstract!CrcMatches(frame) <=> Crc(Slice(contents, 2, last)) = b
    BY <2>8, <2>11 DEF Abstract!CrcMatches
  <2>13. /\ Len(Candidate) >= 2
         /\ Len(Candidate) + 1 = Abstract!FrameSize(Candidate[2])
    BY <2>2, <2>4, <2>5 DEF Abstract!FrameSize
  <2>14. CASE Crc(Slice(contents, 2, last)) = b
    <3>1. Reset /\ result' = Received(Slice(contents, 0, last + 1))
      BY <1>5, <2>14 DEF PushCrc
    <3>2. Candidate' = << >> /\ result' = Abstract!Received(frame)
      BY <2>7, <3>1 DEF Reset, Candidate, Received, Abstract!Received
    <3>3. Abstract!Last(b)
      BY <2>12, <2>13, <2>14, <3>2 DEF Abstract!Last, frame
    <3>4. QED
      BY <3>3 DEF Abstract!Accept
  <2>15. CASE Crc(Slice(contents, 2, last)) # b
    <3>1. RestartFrom(b, contents) /\ result' = Failure("InvalidCrc", b)
      BY <1>5, <2>15 DEF PushCrc
    <3>2. Candidate' = Abstract!StartWith(b)
      BY <2>6, <3>1, RestartCandidate
    <3>3. Abstract!Last(b)
      BY <2>12, <2>13, <2>15, <3>1, <3>2
      DEF Abstract!Last, frame, Failure, Abstract!Failure
    <3>4. QED
      BY <3>3 DEF Abstract!Accept
  <2>16. QED
    BY <2>14, <2>15
<1>6. CASE UNCHANGED vars
  BY <1>6 DEF vars, Candidate
<1>7. QED
  BY <1>1, <1>2, <1>3, <1>4, <1>5, <1>6 DEF Next, PushByte, Abstract!Next

(* The parser implements the abstract frame receiver: a packet it returns  *)
(* is exactly the bytes received since the address byte of its frame, with *)
(* a matching checksum, and the byte that rules a frame out is always      *)
(* tried as the first of the next.                                         *)
THEOREM ParserImplementsFramer == Spec => ImplementsFramer
<1>1. Spec => Abstract!Spec
  BY InitRefines, NextRefines, InvInductive, PTL DEF Spec, Abstract!Spec
<1>2. QED
  BY <1>1 DEF ImplementsFramer
=============================================================================
