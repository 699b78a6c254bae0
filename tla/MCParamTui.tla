----------------------------- MODULE MCParamTui -----------------------------
(***************************************************************************)
(* A small instance of ParamTui: a root folder with a selection, a         *)
(* selection that takes two frames and a folder, and in that folder a      *)
(* command for which the device wants a confirmation.                      *)
(***************************************************************************)
EXTENDS ParamTui

CONSTANT d

MCAddr == {d}
MCParamId == 0..MaxParamId
MCKind == 0 :> "folder" @@ 1 :> "selection" @@ 2 :> "selection" @@ 3 :> "folder" @@ 4 :> "command"
MCChildren == 0 :> <<2, 1, 3>> @@ 3 :> <<4>>
MCOptions == 1 :> <<"None", "On", "Off">> @@ 2 :> <<"On", "Off">>
MCLimits == 1 :> [min |-> 1, max |-> 2] @@ 2 :> [min |-> 0, max |-> 1]
MCNumeral == "1" :> 1 @@ "0" :> 0 @@ "7" :> 7
MCLower(text) == CASE text \in {"ON", "On"} -> "on"
                   [] text \in {"OFF", "Off"} -> "off"
                   [] text \in {"NONE", "None"} -> "none"
                   [] text = "Start" -> "start"
                   [] text = "YES" -> "yes"
                   [] OTHER -> text
MCLong == {2}
MCConfirmed == {4}
MCTyped == {"7"}

Write(p, text) == [param |-> p, text |-> text]
Line(command, writes) == [command |-> command, writes |-> writes, confirm |-> FALSE]
Confirming(command, writes) == [Line(command, writes) EXCEPT !.confirm = TRUE]
MCCommandLines ==
  { Line("tui", << >>),
    Line("set", <<Write(1, "OFF"), Write(4, "")>>),
    Confirming("set", <<Write(1, "2"), Write(2, "1"), Write(1, "ON")>>),
    Confirming("set", <<Write(1, "none"), Write(4, "Start")>>),
    Line("schema", <<Write(4, "start"), Write(1, "Off")>>),
    Confirming("schema", <<Write(1, "7"), Write(4, "start"), Write(4, "YES")>>),
    Line("schema", <<Write(3, "1")>>),
    Confirming("schema", <<Write(1, "NONE"), Write(4, "confirm"), Write(4, "cancel")>>),
    Line("get", <<Write(1, ""), Write(2, "")>>) }

MCFragment == [param : ParamId, index : {0, 1}, value : 0..6]
MCContent == [param : ParamId, value : 0..6]

(* The value of a selection comes after its options: in the second frame.  *)
MCParsed(fragments) ==
  IF Len(fragments) >= 2 /\ fragments[1].index = 0 /\ fragments[2].index = 1
       /\ fragments[1].param = fragments[2].param
    THEN {[param |-> fragments[2].param, value |-> fragments[2].value]}
    ELSE {Failed}
=============================================================================
