-------------------------- MODULE MCPacketExchange --------------------------
(***************************************************************************)
(* The packets of the run: every kind, filled in four ways: "zero" (empty  *)
(* lists, all bits clear), "low" (ones), "fit" (distinct bytes, the        *)
(* largest values the wire has room for) and "high" (all bits set, lists   *)
(* and short texts at their capacity).                                     *)
(***************************************************************************)
EXTENDS PacketExchange

MCStyles == {"zero", "low", "fit", "high"}
MCSentKinds == Kinds \ LegacyKinds
MCSpareRoom == {-2, -1, 0, 3}
MCPositions == {1, 2, 3, 4, 5, 6, 7}
MCCutSizes  == 1..56

Least(a, b) == IF a < b THEN a ELSE b

Bytes(n, of(_)) == [i \in 1..n |-> of(i)]
Fill(style, i) == CASE style = "zero" -> 0
                    [] style = "low"  -> 1
                    [] style = "fit"  -> 16 + i
                    [] style = "high" -> 255

(* How long a list or text of the style is. *)
Length(style, cap) ==
  CASE style = "zero" -> 0
    [] style = "low"  -> 1
    [] style = "fit"  -> Least(cap, 16)
    [] style = "high" -> Least(cap, 70)

NumberOf(step, style) ==
  [i \in 1..step.n |->
     IF style = "high" THEN 255 ELSE
     IF style = "fit" /\ i > step.n - step.w THEN 16 + i ELSE
     IF style = "low" /\ i = step.n THEN 1 ELSE 0]

ByteOf(step, style) ==
  LET least == CHOOSE x \in step.set : \A y \in step.set : x <= y
      most  == CHOOSE x \in step.set : \A y \in step.set : x >= y
  IN CASE style = "zero" -> least
       [] style \in {"low", "fit"} -> most
       [] style = "high" -> IF step.modulus = 128 THEN most + 128 ELSE most

(* A boolean is 0 or 1 whatever the style; the other parts are u8. *)
BitsOf(step, style) ==
  [i \in DOMAIN step.parts |->
     LET w == step.parts[i][2] IN
     CASE style = "zero" -> 0
       [] style = "low"  -> 1
       [] style = "fit"  -> 2^w - 1
       [] style = "high" -> IF w = 1 THEN 1 ELSE 255]

FieldOf(step, style) ==
  CASE step.is = "number"   -> NumberOf(step, style)
    [] step.is = "byte"     -> <<ByteOf(step, style)>>
    [] step.is = "bits"     -> BitsOf(step, style)
    [] step.is = "rest"     -> [i \in 1..Least(Length(style, step.cap), 58) |-> Fill(style, i)]
    [] step.is = "text"     -> [i \in 1..Length(style, step.cap) |-> 65 + (i % 26)]
    [] step.is = "until"    -> [i \in 1..Length(style, step.cap) |->
                                  IF style = "high" THEN 256 - i ELSE 16 + i]
    [] step.is \in {"counted", "many"} ->
         [i \in 1..Length(style, step.cap) |-> NumberOf(step.item, style)]
    [] step.is = "channels" -> [c \in 1..16 |-> CASE style = "zero" -> 0
                                                  [] style = "low"  -> 1
                                                  [] style = "fit"  -> 987 + 66 * c
                                                  [] style = "high" -> 2047 + c]
    [] OTHER                -> << >>

MCSample(kind, style) ==
  [k \in DOMAIN Formats[kind].layout |-> FieldOf(Formats[kind].layout[k], style)]

MCReadings ==
  [baro  |-> {-10001, -10000, -9999, -1, 0} \cup (22760..22790)
             \cup (327640..327660) \cup {400000},
   gps   |-> {-2147483647, -1001, -1000, 0, 64535, 64536, 2147482647, 2147482648, 2147483647},
   us    |-> (870..2170) \cup {0, 41839, 41840, 43119, 43120, 65535},
   ticks |-> (0..2050) \cup {65535}]

(* 0, 1, 1000 and -1 *)
MCFloats ==
  [float |-> {<<0, 0, 0, 0>>, <<0, 0, 0, 1>>, <<0, 0, 3, 232>>, <<255, 255, 255, 255>>}]
=============================================================================
