----------------------------- MODULE WireFormat -----------------------------
(***************************************************************************)
(* How the packets of src/src/packets are laid out in a frame's payload,   *)
(* and what their from_bytes() and to_bytes() do with it.  A layout is a   *)
(* sequence of steps that from_bytes() takes from the front of the         *)
(* payload to its end: a check of what is left, or a field.  A packet is   *)
(* the sequence of its fields, one for every step of its layout (a check   *)
(* and a tag have the empty field), a number being the sequence of its     *)
(* bytes, most significant first.                                          *)
(*                                                                         *)
(* The three outcomes of a step: "ok", "Error" (any CrsfParsingError:      *)
(* which one is left out) and "Panic" (an index past a slice, a Vec that   *)
(* collects more than it holds).  A byte of text above 127 stands for      *)
(* text that is not UTF-8: no text of these models has a character of      *)
(* several bytes.                                                          *)
(***************************************************************************)
EXTENDS Integers, Sequences, SequencesExt, Bitwise

(* The checks: what must be left of the payload. *)
AtLeast(n)    == [is |-> "atLeast", n |-> n]
Exactly(n)    == [is |-> "exactly", n |-> n]
MultipleOf(n) == [is |-> "multipleOf", n |-> n]
AtEnd         == Exactly(0)
More          == AtLeast(1)

(* A number of n bytes in the program of which the low w are sent. *)
Scalar(n, w, signed) == [is |-> "number", n |-> n, w |-> w, signed |-> signed]
Num(n) == Scalar(n, n, FALSE)
Nums(widths) == [i \in DOMAIN widths |-> Num(widths[i])]

Tag(b)      == [is |-> "tag", tag |-> b]                    \* a constant
OneOf(S)    == [is |-> "byte", set |-> S, modulus |-> 256]
TypeByte(S) == [is |-> "byte", set |-> S, modulus |-> 128]  \* bit 7: hidden
Bits(parts) == [is |-> "bits", parts |-> parts]  \* <<shift, width, masked>>
Rest(cap)   == [is |-> "rest", cap |-> cap]
Text(cap)   == [is |-> "text", cap |-> cap, open |-> FALSE, arrows |-> FALSE]
OpenText(cap) == [Text(cap) EXCEPT !.open = TRUE]
Label(cap)  == [Text(cap) EXCEPT !.arrows = TRUE]
Until(mark, cap) == [is |-> "until", mark |-> mark, cap |-> cap]
Counted(w, cap)  == [is |-> "counted", item |-> Scalar(w, w, FALSE), cap |-> cap]
Many(n, w, signed, cap, full) ==
  [is |-> "many", item |-> Scalar(n, w, signed), cap |-> cap, full |-> full]
Channels    == [is |-> "channels"]
Given(field) == [is |-> "given", field |-> field]  \* not in the payload
ByteOrOne   == [is |-> "byteOrOne"]
-----------------------------------------------------------------------------
Got(field, used) == [verdict |-> "ok", field |-> field, used |-> used]
Refused == [verdict |-> "Error", field |-> << >>, used |-> 0]
Stopped == [verdict |-> "Panic", field |-> << >>, used |-> 0]

Passes(condition) == IF condition THEN Got(<< >>, 0) ELSE Refused

(* The n bytes of a number of which raw was sent. *)
Widen(raw, item) ==
  LET filler == IF item.signed /\ raw[1] >= 128 THEN 255 ELSE 0 IN
  [i \in 1..(item.n - item.w) |-> filler] \o raw

(* `count` numbers, one behind the other. *)
Items(bytes, item, count) ==
  [i \in 1..count |->
     Widen(SubSeq(bytes, (i - 1) * item.w + 1, i * item.w), item)]

First(bytes, b) == SelectInSeq(bytes, LAMBDA x : x = b)  \* 0: none

(* 0xC0 and 0xC1 are the arrows of ExpressLRS, shown as '^' and 'v'. *)
Arrow(b) == CASE b = 192 -> 94 [] b = 193 -> 118 [] OTHER -> b

(* A string that ends at a NUL, or at the end of the payload if `open`. *)
ReadText(step, bytes) ==
  LET nul  == First(bytes, 0)
      raw  == IF nul = 0 THEN bytes ELSE SubSeq(bytes, 1, nul - 1)
      text == IF step.arrows THEN [i \in DOMAIN raw |-> Arrow(raw[i])] ELSE raw
  IN IF \/ nul = 0 /\ ~step.open
        \/ Len(text) > step.cap
        \/ \E i \in DOMAIN text : text[i] > 127
       THEN Refused
       ELSE Got(text, IF nul = 0 THEN Len(bytes) ELSE nul)

(* A count byte and as many items, taken together. *)
ReadCounted(step, bytes) ==
  IF bytes = << >> THEN Stopped ELSE
  IF \/ Len(bytes) - 1 < bytes[1] * step.item.w
     \/ bytes[1] > step.cap
    THEN Refused
    ELSE Got(Items(Tail(bytes), step.item, bytes[1]), 1 + bytes[1] * step.item.w)

(* Items to the end of the payload; bytes that do not fill one are ignored. *)
ReadMany(step, bytes) ==
  LET count == Len(bytes) \div step.item.w IN
  IF count <= step.cap
    THEN Got(Items(bytes, step.item, count), Len(bytes))
    ELSE [Refused EXCEPT !.verdict = step.full]
-----------------------------------------------------------------------------
(* rc_channels_packed.rs: which channel, shifted right by how much, is     *)
(* or-ed into each of the first 11 bytes, and which byte into each of the  *)
(* first 8 channels; the other halves repeat the pattern.                  *)
PackPlan ==
  << << <<0, 0>> >>, << <<0, 8>>, <<1, -3>> >>, << <<1, 5>>, <<2, -6>> >>,
     << <<2, 2>> >>, << <<2, 10>>, <<3, -1>> >>, << <<3, 7>>, <<4, -4>> >>,
     << <<4, 4>>, <<5, -7>> >>, << <<5, 1>> >>, << <<5, 9>>, <<6, -2>> >>,
     << <<6, 6>>, <<7, -5>> >>, << <<7, 3>> >> >>

UnpackPlan ==
  << << <<0, 0>>, <<1, -8>> >>, << <<1, 3>>, <<2, -5>> >>,
     << <<2, 6>>, <<3, -2>>, <<4, -10>> >>, << <<4, 1>>, <<5, -7>> >>,
     << <<5, 4>>, <<6, -4>> >>, << <<6, 7>>, <<7, -1>>, <<8, -9>> >>,
     << <<8, 2>>, <<9, -6>> >>, << <<9, 5>>, <<10, -3>> >> >>

(* x >> by, or x << -by, of a u16. *)
Shift16(x, by) == IF by >= 0 THEN x \div 2^by ELSE (x * 2^(-by)) % 65536

(* The or of the plan's shifted words, those of the half that starts at    *)
(* `base` of `words`.                                                      *)
Gather(plan, words, base) ==
  FoldLeft(LAMBDA acc, p : acc | Shift16(words[base + p[1] + 1], p[2]), 0, plan)

(* Seeded fault: the second half of the payload repeats the first. *)
PackTwice(channels) ==
  [b \in 1..22 |-> IF b <= 11 THEN Gather(PackPlan[b], channels, 0) % 256
                              ELSE Gather(PackPlan[b - 11], channels, 0) % 256]

Pack(channels) ==
  [b \in 1..22 |-> IF b <= 11 THEN Gather(PackPlan[b], channels, 0) % 256
                              ELSE Gather(PackPlan[b - 11], channels, 8) % 256]

Unpack(bytes) ==
  [c \in 1..16 |-> IF c <= 8 THEN Gather(UnpackPlan[c], bytes, 0) % 2048
                             ELSE Gather(UnpackPlan[c - 8], bytes, 11) % 2048]
-----------------------------------------------------------------------------
(* Seeded fault: the fields are shifted in a word and not in the byte. *)
PackBitsWide(parts, values) ==
  FoldLeftDomain(LAMBDA acc, i :
                   LET v == IF parts[i][3] THEN values[i] % 2^parts[i][2]
                                           ELSE values[i]
                   IN acc | (v * 2^parts[i][1]), 0, parts)

(* Several small fields in one byte; `masked` ones cannot spill over. *)
PackBits(parts, values) ==
  FoldLeftDomain(LAMBDA acc, i :
                   LET v == IF parts[i][3] THEN values[i] % 2^parts[i][2]
                                           ELSE values[i]
                   IN acc | ((v * 2^parts[i][1]) % 256), 0, parts)

UnpackBits(parts, byte) ==
  [i \in DOMAIN parts |-> (byte \div 2^parts[i][1]) % 2^parts[i][2]]

(* One step of from_bytes() on what is left of the payload. *)
Take(step, bytes) ==
  LET left == Len(bytes) IN
  CASE step.is = "atLeast"    -> Passes(left >= step.n)
    [] step.is = "exactly"    -> Passes(left = step.n)
    [] step.is = "multipleOf" -> Passes(left % step.n = 0)
    [] step.is = "number"     -> IF left < step.w THEN Stopped
                                 ELSE Got(Widen(SubSeq(bytes, 1, step.w), step), step.w)
    [] step.is = "tag"        -> IF left = 0 THEN Stopped
                                 ELSE IF bytes[1] = step.tag THEN Got(<< >>, 1) ELSE Refused
    [] step.is = "byte"       -> IF left = 0 THEN Stopped
                                 ELSE IF bytes[1] % step.modulus \in step.set
                                 THEN Got(<<bytes[1]>>, 1) ELSE Refused
    [] step.is = "bits"       -> IF left = 0 THEN Stopped
                                 ELSE Got(UnpackBits(step.parts, bytes[1]), 1)
    [] step.is = "rest"       -> IF left > step.cap THEN Refused ELSE Got(bytes, left)
    [] step.is = "text"       -> ReadText(step, bytes)
    [] step.is = "until"      -> LET end == First(bytes, step.mark) IN
                                 IF end = 0 \/ end - 1 > step.cap THEN Refused
                                 ELSE Got(SubSeq(bytes, 1, end - 1), end)
    [] step.is = "counted"    -> ReadCounted(step, bytes)
    [] step.is = "many"       -> ReadMany(step, bytes)
    [] step.is = "channels"   -> IF left < 22 THEN Stopped ELSE Got(Unpack(bytes), 22)
    [] step.is = "given"      -> Got(step.field, 0)
    [] step.is = "byteOrOne"  -> IF left = 0 THEN Got(<<0, 0, 0, 1>>, 0)
                                 ELSE Got(<<0, 0, 0, bytes[1]>>, 1)

(* from_bytes(): the fields read, or why reading ended; `at` bytes read. *)
ReadAll(layout, bytes) ==
  LET after[k \in 0..Len(layout)] ==
        IF k = 0 THEN [verdict |-> "ok", fields |-> << >>, at |-> 0] ELSE
        LET before == after[k - 1]
            step   == Take(layout[k], SubSeq(bytes, before.at + 1, Len(bytes)))
        IN IF before.verdict # "ok" THEN before ELSE
           [verdict |-> step.verdict,
            fields  |-> Append(before.fields, step.field),
            at      |-> before.at + step.used]
  IN after[Len(layout)]
-----------------------------------------------------------------------------
LowBytes(number, item) == SubSeq(number, item.n - item.w + 1, item.n)

PutItems(items, item) ==
  FlattenSeq([i \in DOMAIN items |-> LowBytes(items[i], item)])

(* The bytes to_bytes() writes for one field. *)
Put(step, field) ==
  CASE step.is = "number"   -> LowBytes(field, step)
    [] step.is = "tag"      -> <<step.tag>>
    [] step.is \in {"byte", "rest"} -> field
    [] step.is = "bits"     -> <<PackBits(step.parts, field)>>
    [] step.is = "text"     -> Append(field, 0)
    [] step.is = "until"    -> Append(field, step.mark)
    [] step.is = "counted"  -> <<Len(field)>> \o PutItems(field, step.item)
    [] step.is = "many"     -> PutItems(field, step.item)
    [] step.is = "channels" -> Pack(field)
    [] OTHER                -> << >>

PutAll(layout, fields) ==
  FlattenSeq([k \in DOMAIN layout |-> Put(layout[k], fields[k])])

(* Whether the bytes of a field tell all of it. *)
Tells(step, field) ==
  CASE step.is = "number"   -> Widen(LowBytes(field, step), step) = field
    [] step.is = "bits"     -> \A i \in DOMAIN field : field[i] < 2^step.parts[i][2]
    [] step.is = "text"     -> \A i \in DOMAIN field : field[i] \in 1..127
    [] step.is = "until"    -> \A i \in DOMAIN field : field[i] # step.mark
    [] step.is \in {"counted", "many"} ->
         \A i \in DOMAIN field :
           Widen(LowBytes(field[i], step.item), step.item) = field[i]
    [] step.is = "channels" -> \A i \in DOMAIN field : field[i] < 2048
    [] OTHER                -> TRUE
=============================================================================
