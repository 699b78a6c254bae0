------------------------- MODULE PacketReaderProofs -------------------------
(***************************************************************************)
(* Proofs about the stream readers, for every length of the stream, every  *)
(* read size, every buffer at least as large as a read, any number of      *)
(* faults and whatever the parser makes of the bytes.                      *)
(***************************************************************************)
EXTENDS PacketReader, SequenceTheorems, TLAPS

(* read is only called with an empty input buffer: this is why the batch   *)
(* always fits, and a batch that fits is never lost.                       *)
ReadsWhenEmpty == phase = "reading" => input = << >>

IInv ==
  /\ TypeOK
  /\ Lossless
  /\ AnswersInOrder
  /\ ReadsWhenEmpty
  /\ BufferNeverFills

(* The stream up to its n-th byte. *)
Stream(n) == [i \in 1..n |-> i]

(* The invariant reads no variable of a step but these. *)
LEMMA SameSequences ==
  ASSUME IInv, UNCHANGED <<verdict, wire, sent, input, fed, answers>>,
         phase' \in {"idle", "feeding", "reading"},
         phase' = "reading" => input = << >>,
         outcome' \in Verdict \cup StreamError,
         outcome' # "InputBufferTooSmall",
         faults' \in 0..MaxFaults
  PROVE  IInv'
BY DEF IInv, TypeOK, Lossless, AnswersInOrder, ReadsWhenEmpty, BufferNeverFills

LEMMA StreamIsSeq ==
  ASSUME NEW n \in 0..MaxBytes
  PROVE  Stream(n) \in Seq(Position) /\ Len(Stream(n)) = n
<1>1. n \in Nat /\ \A i \in 1..n : i \in Position
  BY SizeAssumption DEF Position
<1>2. QED
  BY <1>1 DEF Stream

(* The lengths of the three places add up. *)
LEMMA Lengths ==
  ASSUME TypeOK, Lossless
  PROVE  Len(fed) + Len(input) + Len(wire) = sent
<1>1. fed \o input \in Seq(Position) /\ Len(fed \o input) = Len(fed) + Len(input)
  BY ConcatProperties DEF TypeOK
<1>2. Len((fed \o input) \o wire) = Len(fed) + Len(input) + Len(wire)
  BY <1>1, ConcatProperties DEF TypeOK
<1>3. QED
  BY <1>2, StreamIsSeq DEF TypeOK, Lossless, Stream

(* The byte to be fed is the one after those fed. *)
LEMMA HeadIsNext ==
  ASSUME TypeOK, Lossless, input # << >>
  PROVE  Head(input) = Len(fed) + 1
<1> DEFINE k == Len(fed) + 1
<1>1. /\ fed \o input \in Seq(Position)
      /\ Len(fed \o input) = Len(fed) + Len(input)
      /\ \A i \in 1..(Len(fed) + Len(input)) :
           (fed \o input)[i] = IF i <= Len(fed) THEN fed[i] ELSE input[i - Len(fed)]
  BY ConcatProperties DEF TypeOK
<1>2. Len(fed) \in Nat /\ Len(input) \in Nat /\ Len(wire) \in Nat /\ Len(input) >= 1
  BY EmptySeq, LenProperties DEF TypeOK
<1>3. (fed \o input)[k] = input[1]
  BY <1>1, <1>2
<1>4. ((fed \o input) \o wire)[k] = (fed \o input)[k]
  BY <1>1, <1>2, ConcatProperties DEF TypeOK
<1>5. k \in 1..sent
  BY <1>2, Lengths DEF TypeOK
<1>6. ((fed \o input) \o wire)[k] = k
  BY <1>5 DEF Lossless
<1>7. Head(input) = input[1]
  BY <1>2 DEF TypeOK
<1>8. QED
  BY <1>3, <1>4, <1>6, <1>7

LEMMA InitInv == Init => IInv
<1>1. SUFFICES ASSUME Init PROVE IInv
  OBVIOUS
<1>2. TypeOK
  <2>1. << >> \in Seq(Position) /\ Len(<< >>) = 0
    OBVIOUS
  <2>2. QED
    BY <1>1, <2>1, SizeAssumption DEF Init, TypeOK, Verdict
<1>3. Lossless
  <2>1. [i \in 1..0 |-> i] = << >>
    OBVIOUS
  <2>2. << >> \in Seq(Position) /\ (<< >> \o << >>) \o << >> = << >>
    OBVIOUS
  <2>3. QED
    BY <1>1, <2>1, <2>2 DEF Init, Lossless
<1>4. AnswersInOrder
  BY <1>1 DEF Init, AnswersInOrder
<1>5. QED
  BY <1>1, <1>2, <1>3, <1>4 DEF Init, IInv, ReadsWhenEmpty, BufferNeverFills

(* A byte sent goes to the end of the wire, hence of the whole stream. *)
LEMMA SendInv == IInv /\ Send => IInv'
<1> SUFFICES ASSUME IInv, Send PROVE IInv'
  OBVIOUS
<1> USE DEF IInv
<1>1. sent + 1 \in Position /\ sent' = sent + 1 /\ sent' \in 0..MaxBytes /\ sent \in Nat
  BY SizeAssumption DEF Send, TypeOK, Position
<1>2. wire' = Append(wire, sent + 1) /\ wire' \in Seq(Position)
  BY <1>1, AppendProperties DEF Send, TypeOK
<1>3. UNCHANGED <<verdict, input, fed, phase, answers, outcome, faults>>
  BY DEF Send
<1>4. TypeOK'
  BY <1>1, <1>2, <1>3 DEF TypeOK
<1>5. Lossless'
  <2> DEFINE front == fed \o input
             e     == sent + 1
  <2>1. front \in Seq(Position) /\ wire \in Seq(Position) /\ <<e>> \in Seq(Position)
    BY <1>1, ConcatProperties DEF TypeOK
  <2>2. wire' = wire \o <<e>>
    BY <1>1, <1>2, AppendIsConcat DEF TypeOK
  <2>3. front \o wire' = (front \o wire) \o <<e>>
    BY <2>1, <2>2, ConcatAssociative
  <2>4. front \o wire = Stream(sent)
    BY DEF Lossless, Stream
  <2>5. Stream(sent) \o <<e>> = Stream(sent + 1)
    BY <1>1 DEF Stream
  <2>6. QED
    BY <1>1, <1>3, <2>3, <2>4, <2>5 DEF Lossless, Stream
<1>6. AnswersInOrder' /\ ReadsWhenEmpty' /\ BufferNeverFills'
  BY <1>3 DEF AnswersInOrder, ReadsWhenEmpty, BufferNeverFills
<1>7. QED
  BY <1>4, <1>5, <1>6

(* A byte popped and fed moves from one place to the next, and its verdict *)
(* is an answer exactly if it says something.                              *)
LEMMA FeedInv == IInv /\ Feed => IInv'
<1> SUFFICES ASSUME IInv, Feed PROVE IInv'
  OBVIOUS
<1> USE DEF IInv
<1> DEFINE byte == Head(input)
<1>1. /\ phase = "feeding" /\ input # << >>
      /\ input' = Tail(input) /\ fed' = Append(fed, byte)
      /\ UNCHANGED <<verdict, wire, sent, faults>>
  BY DEF Feed
<1>2. \/ /\ verdict[byte] = "None"
         /\ UNCHANGED <<phase, answers, outcome>>
      \/ /\ verdict[byte] # "None"
         /\ answers' = Append(answers, byte)
         /\ phase' = "idle" /\ outcome' = verdict[byte]
  BY DEF Feed, Return
<1>3. byte = Len(fed) + 1
  BY <1>1, HeadIsNext
<1>4. byte \in Position /\ input' \in Seq(Position) /\ Len(input') = Len(input) - 1
  BY <1>1, HeadTailProperties DEF TypeOK
<1>5. fed' \in Seq(Position) /\ Len(fed') = Len(fed) + 1
  BY <1>1, <1>4, AppendProperties DEF TypeOK
<1>6. Len(fed) + Len(input) <= sent /\ Len(fed) \in Nat /\ Len(input) \in Nat
      /\ Len(input) >= 1
  BY <1>1, Lengths, LenProperties, EmptySeq DEF TypeOK
<1>7. verdict[byte] \in Verdict
  BY <1>4 DEF TypeOK
<1>8. answers' \in Seq(Position)
  <2>1. answers \in Seq(Position) /\ Append(answers, byte) \in Seq(Position)
    BY <1>4, AppendProperties DEF TypeOK
  <2>2. answers' = answers \/ answers' = Append(answers, byte)
    BY <1>2
  <2>3. QED
    BY <2>1, <2>2
<1>9. TypeOK'
  <2>1. phase' \in {"idle", "feeding", "reading"} /\ outcome' \in Verdict \cup StreamError
    BY <1>2, <1>7 DEF TypeOK
  <2>2. Len(input') <= BufferSize
    BY <1>4, <1>6, SizeAssumption DEF TypeOK
  <2>3. Len(fed') <= sent'
    BY <1>1, <1>5, <1>6 DEF TypeOK
  <2>4. QED
    BY <1>1, <1>4, <1>5, <1>8, <2>1, <2>2, <2>3 DEF TypeOK
<1>10. Lossless'
  <2>1. <<byte>> \in Seq(Position) /\ fed \in Seq(Position)
    BY <1>4 DEF TypeOK
  <2>2. fed' = fed \o <<byte>>
    BY <1>1, <1>4, AppendIsConcat DEF TypeOK
  <2>3. fed' \o input' = fed \o (<<byte>> \o input')
    BY <1>4, <2>1, <2>2, ConcatAssociative
  <2>4. <<byte>> \o input' = input
    BY <1>1, <1>6 DEF TypeOK
  <2>5. QED
    BY <1>1, <2>3, <2>4 DEF Lossless
<1>11. AnswersInOrder'
  <2> DEFINE Given(s)    == {s[k] : k \in 1..Len(s)}
             Found(n)    == {i \in 1..n : verdict[i] # "None"}
  <2>1. Given(answers) = Found(Len(fed)) /\ answers \in Seq(Position) /\ Len(answers) \in Nat
    BY LenProperties DEF AnswersInOrder, TypeOK
  <2>2. CASE verdict[byte] = "None"
    <3>1. Found(Len(fed) + 1) = Found(Len(fed))
      BY <1>3, <1>6, <2>2
    <3>2. answers' = answers /\ verdict' = verdict
      BY <1>1, <1>2, <2>2
    <3>3. QED
      BY <1>5, <2>1, <3>1, <3>2 DEF AnswersInOrder
  <2>3. CASE verdict[byte] # "None"
    <3>1. /\ answers' = Append(answers, byte) /\ verdict' = verdict
          /\ Len(answers') = Len(answers) + 1
          /\ \A k \in 1..Len(answers) : answers'[k] = answers[k]
          /\ answers'[Len(answers) + 1] = byte
      <4>1. answers' = Append(answers, byte) /\ verdict' = verdict
        BY <1>1, <1>2, <2>3
      <4>2. answers \in Seq(Position) /\ byte \in Position
        BY <1>4, <2>1
      <4>3. QED
        BY ONLY <4>1, <4>2, AppendProperties
    <3>2. Found(Len(fed) + 1) = Found(Len(fed)) \cup {byte}
      BY <1>3, <1>6, <2>3
    <3>3. Given(answers') = Given(answers) \cup {byte}
      BY <2>1, <3>1
    <3>4. \A k \in 1..Len(answers) : answers[k] \in 1..Len(fed)
      BY <2>1
    <3>5. \A k \in 1..Len(answers) : answers[k] < byte
      BY <1>3, <1>6, <3>4
    <3>6. \A j, k \in 1..Len(answers') : j < k => answers'[j] < answers'[k]
      BY <2>1, <3>1, <3>5 DEF AnswersInOrder
    <3>7. Given(answers') = Found(Len(fed'))
      BY <1>5, <2>1, <3>2, <3>3
    <3>8. QED
      BY <3>1, <3>6, <3>7 DEF AnswersInOrder
  <2>4. QED
    BY <2>2, <2>3
<1>12. ReadsWhenEmpty' /\ BufferNeverFills'
  BY <1>1, <1>2, <1>7 DEF ReadsWhenEmpty, BufferNeverFills, Verdict
<1>13. QED
  BY <1>9, <1>10, <1>11, <1>12

(* A read finds the buffer empty, so the whole batch fits. *)
LEMMA ReadSomeInv == IInv /\ ReadSome => IInv'
<1> SUFFICES ASSUME IInv, NEW n \in 1..ReadSize, n <= Len(wire), Complete(n)
             PROVE  IInv'
  BY DEF ReadSome
<1> USE DEF IInv
<1>1. phase = "reading" /\ input = << >>
  BY DEF Complete, ReadsWhenEmpty
<1>2. Fits(n) = n
  BY <1>1, SizeAssumption DEF Fits
<1>3. /\ input' = input \o SubSeq(wire, 1, n)
      /\ wire' = SubSeq(wire, n + 1, Len(wire))
      /\ phase' = "feeding"
      /\ UNCHANGED <<verdict, sent, fed, answers, faults, outcome>>
  BY <1>2 DEF Complete
<1>4. n \in Nat /\ n >= 1 /\ Len(wire) \in Nat /\ n <= Len(wire) /\ wire \in Seq(Position)
  BY SizeAssumption DEF TypeOK
<1>5. SubSeq(wire, 1, n) \in Seq(Position) /\ Len(SubSeq(wire, 1, n)) = n
  BY <1>4, SubSeqProperties
<1>6. input' = SubSeq(wire, 1, n)
  BY <1>1, <1>3, <1>5, ConcatEmptySeq
<1>7. wire' \in Seq(Position)
  BY <1>3, <1>4, SubSeqProperties
<1>8. TypeOK'
  BY <1>3, <1>5, <1>6, <1>7, SizeAssumption DEF TypeOK
<1>9. Lossless'
  <2>1. input' \o wire' = wire
    <3>1. 1 \in 1..(Len(wire) + 1) /\ n \in 0..Len(wire) /\ Len(wire) \in n..Len(wire)
      BY <1>4
    <3>2. SubSeq(wire, 1, n) \o SubSeq(wire, n + 1, Len(wire)) = SubSeq(wire, 1, Len(wire))
      BY <1>4, <3>1, ConcatAdjacentSubSeq
    <3>3. QED
      BY <1>3, <1>4, <1>6, <3>2, SubSeqFull
  <2>2. fed \o input = fed
    BY <1>1, ConcatEmptySeq DEF TypeOK
  <2>3. (fed \o input') \o wire' = fed \o (input' \o wire')
    <3>1. fed \in Seq(Position) /\ input' \in Seq(Position) /\ wire' \in Seq(Position)
      BY <1>5, <1>6, <1>7 DEF TypeOK
    <3>2. QED
      BY <3>1, ConcatAssociative
  <2>4. QED
    BY <1>3, <2>1, <2>2, <2>3 DEF Lossless
<1>10. AnswersInOrder' /\ ReadsWhenEmpty' /\ BufferNeverFills'
  BY <1>3 DEF AnswersInOrder, ReadsWhenEmpty, BufferNeverFills
<1>11. QED
  BY <1>8, <1>9, <1>10

(* Every step preserves the invariant; those that only leave or enter a    *)
(* call touch no sequence.                                                 *)
LEMMA NextInv == IInv /\ [Next]_vars => IInv'
<1> SUFFICES ASSUME IInv, [Next]_vars PROVE IInv'
  OBVIOUS
<1>1. outcome \in Verdict \cup StreamError /\ outcome # "InputBufferTooSmall"
      /\ faults \in 0..MaxFaults /\ phase \in {"idle", "feeding", "reading"}
  BY DEF IInv, TypeOK, BufferNeverFills
<1>2. CASE Send
  BY <1>2, SendInv
<1>3. CASE Call
  BY <1>1, <1>3, SameSequences DEF Call
<1>4. CASE Feed
  BY <1>4, FeedInv
<1>5. CASE StartRead
  BY <1>1, <1>5, SameSequences DEF StartRead
<1>6. CASE ReadSome
  BY <1>6, ReadSomeInv
<1>7. CASE EndOfStream
  BY <1>1, <1>7, SameSequences DEF EndOfStream, Return, StreamError
<1>8. ASSUME faults < MaxFaults, faults' = faults + 1 PROVE faults' \in 0..MaxFaults
  BY <1>1, <1>8, SizeAssumption
<1>9. CASE ReadFails
  BY <1>1, <1>8, <1>9, SameSequences DEF ReadFails, Return, StreamError
<1>10. CASE Cancel
  BY <1>1, <1>8, <1>10, SameSequences DEF Cancel
<1>11. CASE UNCHANGED vars
  BY <1>1, <1>11, SameSequences DEF vars, IInv, ReadsWhenEmpty
<1>12. QED
  BY <1>2, <1>3, <1>4, <1>5, <1>6, <1>7, <1>9, <1>10, <1>11 DEF Next

LEMMA InvInductive == Spec => []IInv
BY InitInv, NextInv, PTL DEF Spec

(* The fields of the reader keep their types, and the parser is fed no     *)
(* more bytes than were sent.                                              *)
THEOREM TypeCorrect == Spec => []TypeOK
<1>1. IInv => TypeOK
  BY DEF IInv
<1>2. QED
  BY InvInductive, <1>1, PTL

(* read_packet loses, repeats and reorders no byte, however its calls end, *)
(* cancelled calls included.                                               *)
THEOREM NoByteLost == Spec => []Lossless
<1>1. IInv => Lossless
  BY DEF IInv
<1>2. QED
  BY InvInductive, <1>1, PTL

(* The caller is given every packet and every error, once and in order.    *)
THEOREM EveryAnswerGiven == Spec => []AnswersInOrder
<1>1. IInv => AnswersInOrder
  BY DEF IInv
<1>2. QED
  BY InvInductive, <1>1, PTL

(* The input buffer suffices as soon as it takes one read: InputBuffer-    *)
(* TooSmall is unreachable with the constants of either reader.            *)
THEOREM BufferSuffices == Spec => []BufferNeverFills
<1>1. IInv => BufferNeverFills
  BY DEF IInv
<1>2. QED
  BY InvInductive, <1>1, PTL
=============================================================================
