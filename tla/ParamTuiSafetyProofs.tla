------------------------ MODULE ParamTuiSafetyProofs ------------------------
(***************************************************************************)
(* What the programs of ParamTui show, send and tell: that an editor       *)
(* writes what the user opened and aims at, that a list that has come to   *)
(* rest shows what the device holds, that `set --check` and `export --get` *)
(* tell it, and that the enumeration does not stop short.  All of it rests *)
(* on there being one read of a parameter at a time.                       *)
(***************************************************************************)
EXTENDS ParamTuiProofs

-----------------------------------------------------------------------------
(* The list and the editor *)

(* What an editor or a question that is clear shows is what it was opened  *)
(* for: the list still has the parameter at the cursor, with what it was   *)
(* seen to hold, and the buffer names the option that is aimed at.         *)
EditOK ==
  /\ DOMAIN edit = {"opened", "aim", "clear"} /\ edit.clear \in BOOLEAN
  /\ Asking /\ edit.clear =>
    /\ Whole /\ HasSelected /\ Selected = edit.opened
    /\ HasData(edit.opened)
    /\ app.confirming => Kind[edit.opened] = "command" /\ edit.aim = AimOf(edit.opened)
    /\ app.editing =>
         /\ Kind[edit.opened] = "selection"
         /\ edit.aim \in Lowest(edit.opened)..Highest(edit.opened)
         /\ ToldApart(edit.opened) =>
              app.buffer = Options[edit.opened][edit.aim + 1]

(* An option whose name no other has, capitals or not, is found at its     *)
(* place.                                                                  *)
LEMMA PositionOf ==
  ASSUME NEW p \in DOMAIN Kind, Kind[p] = "selection", ToldApart(p),
         NEW i \in Lowest(p)..Highest(p)
  PROVE  LET name == Options[p][i + 1] IN
         /\ Position(p, name) = i
         /\ name # "" /\ name \notin DOMAIN Numeral
         /\ OptionAt(p, i) = name
<1> DEFINE options == Options[p]
           name == options[i + 1]
           Same(o) == Lower(o) = Lower(name)
           places == {k \in 1..Len(options) : Same(options[k])}
<1>1. Len(options) \in Nat /\ DOMAIN options = 1..Len(options)
  <2> DEFINE Names == STRING
  <2>1. options \in Seq(Names)
    BY DeviceAssumption
  <2> HIDE DEF Names, options
  <2>2. QED
    BY <2>1
<1>2. i \in Nat /\ i + 1 \in DOMAIN options /\ i + 1 \in Nat
  <2>1. Lowest(p) \in Nat /\ Highest(p) \in Nat /\ Highest(p) < Len(options)
    BY ValuesNat DEF ToldApart
  <2>2. QED
    BY <1>1, <2>1
<1>3. /\ \A k \in DOMAIN options : Same(options[k]) => k = i + 1
      /\ ToSet(options) \cap ({""} \cup DOMAIN Numeral) = {}
  BY <1>2 DEF ToldApart
<1>4. name \in ToSet(options)
  BY <1>2 DEF ToSet
<1>5. name # "" /\ name \notin DOMAIN Numeral
  BY <1>3, <1>4
<1>6. OptionAt(p, i) = name
  BY <1>2 DEF OptionAt
<1>7. places = {i + 1}
  BY <1>1, <1>2, <1>3
<1>8. SelectInSeq(options, Same) = i + 1
  <2>1. SelectInSeq(options, Same) = IF places # {} THEN Min(places) ELSE 0
    BY DEF SelectInSeq
  <2>2. Min(places) = i + 1
    BY <1>2, <1>7 DEF Min
  <2>3. QED
    BY <1>7, <2>1, <2>2
<1>9. Position(p, name) = i
  BY <1>2, <1>8 DEF Position
<1>10. QED
  BY <1>5, <1>6, <1>9

(* A list that lacks no parameter of the folder depends on the path alone. *)
WholeList ==
  IF Len(app.path) > 1
    THEN InOrder(ToSet(Children[Last(app.path)]))
    ELSE At(Children[0], DOMAIN Children[0])

LEMMA WholeShown ==
  ASSUME AppOK, Whole
  PROVE  CurrentParameters = WholeList
<1> DEFINE folder == Last(app.path)
<1>1. \A p \in ToSet(Children[folder]) : HasData(p) /\ p \in Shown
  BY DEF Whole, HasData
<1>2. Is(folder, "folder")
  BY DEF Whole
<1>3. CASE Len(app.path) > 1
  <2>1. {p \in Shown : HasData(p) /\ p \in ToSet(Children[folder])} = ToSet(Children[folder])
    BY <1>1
  <2>2. QED
    BY <1>3, <2>1 DEF CurrentParameters, WholeList
<1>4. CASE ~ (Len(app.path) > 1)
  <2>1. app.path \in Seq(DOMAIN Kind) /\ app.path # << >> /\ app.path[1] = 0
    BY DEF AppOK, Browser
  <2>2. folder = 0
    <3> DEFINE path == app.path
    <3>1. path \in Seq(DOMAIN Kind) /\ path # << >> /\ path[1] = 0 /\ ~ (Len(path) > 1)
      BY <1>4, <2>1
    <3> HIDE DEF path
    <3>2. Len(path) = 1
      BY <3>1
    <3>3. QED
      BY <3>1, <3>2 DEF Last, path
  <2>3. {i \in DOMAIN Children[0] : Children[0][i] \in Shown} = DOMAIN Children[0]
    BY <1>1, <2>2 DEF ToSet
  <2>4. QED
    BY <1>2, <1>4, <2>2, <2>3 DEF CurrentParameters, WholeList
<1>5. QED
  BY <1>3, <1>4

(* What the list shows does not change as long as the map only grows.      *)
Grows == Shown \subseteq Shown' /\ \A y \in Shown : Device0'.params[y] = Device0.params[y]

LEMMA GrownData ==
  ASSUME Grows, NEW p
  PROVE  /\ HasData(p) => HasData(p)'
         /\ \A kind : Is(p, kind) => Is(p, kind)'
         /\ p \in Shown => ValueOf(p)' = ValueOf(p) /\ AimOf(p)' = AimOf(p)
BY DEF Grows, HasData, Is, ValueOf, AimOf

LEMMA GrownWhole ==
  ASSUME AppOK, AppOK', Grows, Whole, app'.path = app.path, app'.cursor = app.cursor
  PROVE  Whole' /\ Selected' = Selected /\ (HasSelected => HasSelected')
<1>1. Whole'
  <2>1. \A p \in ToSet(Children[Last(app.path)]) : HasData(p)'
    BY GrownData DEF Whole
  <2>2. Is(Last(app.path), "folder")'
    BY GrownData DEF Whole
  <2> DEFINE folder == Last(app.path)
  <2>3. folder' = folder
    BY DEF Last
  <2> HIDE DEF folder
  <2>4. QED
    BY <2>1, <2>2, <2>3 DEF Whole, folder, Is, HasData
<1>2. WholeList' = WholeList
  BY DEF WholeList
<1>3. CurrentParameters = WholeList /\ CurrentParameters' = WholeList'
  <2>1. AppOK /\ Whole => CurrentParameters = WholeList
    BY WholeShown
  <2>2. (AppOK /\ Whole => CurrentParameters = WholeList)'
    BY WholeShown, PTL
  <2>3. QED
    BY <1>1, <2>1, <2>2
<1>4. QED
  BY <1>1, <1>2, <1>3 DEF Selected, HasSelected

(* The editor's own steps leave the list alone. *)
LEMMA KeyOnlyGrows ==
  ASSUME UNCHANGED devices
  PROVE  Grows
BY DEF Grows, Shown, Device0

(* An editor or a question is opened on what the list shows.               *)
LEMMA OpenedOK ==
  ASSUME TypeInv, AppOK', SelectCommand \/ SelectOption
  PROVE  EditOK'
<1>1. ManagerOK /\ AppOK
  BY DEF TypeInv
<1>2. /\ HasSelected /\ UNCHANGED devices /\ ~ app.editing /\ ~ app.confirming
      /\ app'.path = app.path /\ app'.cursor = app.cursor
  BY <1>1 DEF SelectCommand, SelectOption, KeyOnly, vars, Browsing, AppOK, Browser
<1>3. Grows
  BY <1>2, KeyOnlyGrows
<1>4. Whole => Whole' /\ Selected' = Selected /\ HasSelected'
  BY <1>1, <1>2, <1>3, GrownWhole
<1>5. CASE SelectCommand
  <2>1. /\ Is(Selected, "command")
        /\ app' = [app EXCEPT !.confirming = TRUE]
        /\ Opens(Selected, AimOf(Selected), TRUE)
    BY <1>5 DEF SelectCommand, AimOf
  <2>2. CASE ~ Whole
    BY <2>1, <2>2 DEF Opens, NoEdit, EditOK
  <2>3. CASE Whole
    <3>1. edit' = [opened |-> Selected, aim |-> AimOf(Selected), clear |-> TRUE]
      BY <2>1, <2>3 DEF Opens
    <3>2. ~ app'.editing
      BY <1>1, <1>2, <2>1 DEF AppOK, Browser
    <3>3. HasData(Selected)' /\ AimOf(Selected)' = AimOf(Selected) /\ Kind[Selected] = "command"
      <4> DEFINE p == Selected
      <4>1. HasData(p) /\ p \in Shown /\ Kind[p] = "command" /\ p' = p
        BY <1>4, <2>1, <2>3 DEF Is, HasData
      <4> HIDE DEF p
      <4>2. HasData(p)' /\ AimOf(p)' = AimOf(p)
        BY <1>3, <4>1, GrownData DEF HasData, AimOf, ValueOf
      <4>3. QED
        BY <4>1, <4>2 DEF p
    <3>4. /\ edit'.clear = TRUE /\ edit'.opened = Selected' /\ edit'.aim = AimOf(Selected)'
          /\ DOMAIN edit' = {"opened", "aim", "clear"} /\ edit'.clear \in BOOLEAN
      BY <1>4, <2>3, <3>1, <3>3
    <3>5. HasData(edit.opened)' /\ AimOf(edit.opened)' = AimOf(Selected)'
      BY <3>3, <3>4 DEF HasData, AimOf, ValueOf
    <3>6. Kind[edit'.opened] = "command"
      BY <3>1, <3>3
    <3>7. QED
      BY <1>2, <1>4, <2>3, <3>2, <3>4, <3>5, <3>6 DEF EditOK
  <2>4. QED
    BY <2>2, <2>3
<1>6. CASE SelectOption
  <2> DEFINE value == ValueOf(Selected)
             clear == value \in Values(Selected)
  <2>1. /\ Is(Selected, "selection")
        /\ app' = [app EXCEPT !.editing = TRUE, !.buffer = OptionAt(Selected, value)]
        /\ Opens(Selected, value, clear)
    BY <1>6 DEF SelectOption
  <2>2. CASE ~ (Whole /\ clear)
    BY <2>1, <2>2 DEF Opens, NoEdit, EditOK
  <2>3. CASE Whole /\ clear
    <3>1. edit' = [opened |-> Selected, aim |-> value, clear |-> TRUE]
      BY <2>1, <2>3 DEF Opens
    <3>2. ~ app'.confirming /\ app'.buffer = OptionAt(Selected, value)
      BY <1>1, <1>2, <2>1 DEF AppOK, Browser
    <3>3. /\ HasData(Selected)' /\ Kind[Selected] = "selection"
          /\ Selected \in DOMAIN Kind
      <4> DEFINE p == Selected
      <4>1. HasData(p) /\ p \in DOMAIN Kind /\ Kind[p] = "selection" /\ p' = p
        BY <1>1, <1>4, <2>1, <2>3, OwnFacts DEF Is, HasData
      <4> HIDE DEF p
      <4>2. HasData(p)'
        BY <1>3, <4>1, GrownData DEF HasData
      <4>3. QED
        BY <4>1, <4>2 DEF p
    <3>4. /\ edit'.clear = TRUE /\ edit'.opened = Selected /\ edit'.opened = Selected'
          /\ edit'.aim = value
          /\ DOMAIN edit' = {"opened", "aim", "clear"} /\ edit'.clear \in BOOLEAN
      BY <1>4, <2>3, <3>1
    <3>5. HasData(edit.opened)'
      BY <3>3, <3>4 DEF HasData
    <3>6. /\ value \in Lowest(Selected)..Highest(Selected)
          /\ ToldApart(Selected) => OptionAt(Selected, value) = Options[Selected][value + 1]
      BY <2>3, <3>3, PositionOf, ValuesNat
    <3> HIDE DEF value
    <3>7. /\ edit'.aim \in Lowest(edit'.opened)..Highest(edit'.opened)
          /\ Kind[edit'.opened] = "selection"
          /\ ToldApart(edit'.opened) =>
               app'.buffer = Options[edit'.opened][edit'.aim + 1]
      BY <2>3, <3>2, <3>3, <3>4, <3>6
    <3>8. QED
      BY <1>4, <2>3, <3>2, <3>4, <3>5, <3>7 DEF EditOK
  <2>4. QED
    BY <2>2, <2>3
<1>7. QED
  BY <1>5, <1>6

LEMMA NeighbourFacts ==
  ASSUME NEW p, Lowest(p) \in Nat, Highest(p) \in Nat, NEW i \in Lowest(p)..Highest(p),
         NEW step \in {-1, 1}
  PROVE  Neighbour(p, i, step) \in Lowest(p)..Highest(p)
BY DEF Neighbour

(* An arrow steps from the option that is aimed at to the next.            *)
LEMMA ArrowOK ==
  ASSUME TypeInv, EditOK, AppOK', NEW step \in {-1, 1}, Arrow(step)
  PROVE  EditOK'
<1> DEFINE p == edit.opened
           next == Neighbour(p, edit.aim, step)
           name == Options[p][edit.aim + 1]
<1>1. ManagerOK /\ AppOK
  BY DEF TypeInv
<1>2. /\ app.editing /\ ~ app.confirming /\ UNCHANGED devices
      /\ app' = [app EXCEPT !.buffer =
           OptionAt(Selected, Neighbour(Selected, CurrentIndex(Selected), step))]
      /\ edit' = IF edit.clear THEN [edit EXCEPT !.aim = Neighbour(p, @, step)]
                                ELSE edit
  BY <1>1 DEF Arrow, KeyOnly, vars, AppOK
<1>3. app'.path = app.path /\ app'.cursor = app.cursor /\ ~ app'.confirming
  BY <1>1, <1>2 DEF AppOK, Browser
<1>4. CASE ~ edit.clear
  BY <1>2, <1>4 DEF EditOK
<1>5. CASE edit.clear
  <2>1. /\ Whole /\ HasSelected /\ Selected = p /\ HasData(p)
        /\ Kind[p] = "selection" /\ edit.aim \in Lowest(p)..Highest(p)
        /\ ToldApart(p) => app.buffer = name
    BY <1>2, <1>5 DEF EditOK, Asking
  <2>2. p \in DOMAIN Kind
    BY <1>1, <2>1, OwnFacts
  <2>3. Grows
    BY <1>2, KeyOnlyGrows
  <2>4. Whole' /\ Selected' = Selected /\ HasSelected'
    BY <1>1, <1>3, <2>1, <2>3, GrownWhole
  <2>5. Lowest(p) \in Nat /\ Highest(p) \in Nat
    BY <2>1, <2>2, ValuesNat
  <2>6. next \in Lowest(p)..Highest(p)
    BY <2>1, <2>5, NeighbourFacts
  <2>7. /\ edit'.opened = p /\ edit'.aim = next /\ edit'.clear = edit.clear
        /\ DOMAIN edit' = {"opened", "aim", "clear"} /\ edit'.clear \in BOOLEAN
    <3>1. edit' = [edit EXCEPT !.aim = next]
      BY <1>2, <1>5
    <3> HIDE DEF next
    <3>2. QED
      BY <3>1 DEF EditOK
  <2>8. ToldApart(p) => app'.buffer = Options[p][next + 1]
    <3>1. ASSUME ToldApart(p) PROVE app'.buffer = OptionAt(p, next)
      <4>1. app.buffer = name /\ Position(p, name) = edit.aim /\ name # ""
            /\ name \notin DOMAIN Numeral
        BY <2>1, <2>2, <3>1, PositionOf
      <4>2. ~ (edit.aim < 0)
        BY <2>1, <2>5
      <4> HIDE DEF name
      <4>3. CurrentIndex(p) = edit.aim
        BY <4>1, <4>2 DEF CurrentIndex
      <4> DEFINE option == OptionAt(p, next)
      <4>4. app' = [app EXCEPT !.buffer = option]
        BY <1>2, <2>1, <4>3
      <4> HIDE DEF option, next
      <4>5. app'.buffer = option
        BY <1>1, <4>4 DEF AppOK, Browser
      <4>6. QED
        BY <4>5 DEF option
    <3>2. ToldApart(p) => OptionAt(p, next) = Options[p][next + 1]
      BY <2>1, <2>2, <2>6, PositionOf
    <3>3. QED
      BY <3>1, <3>2
  <2>9. HasData(edit.opened)'
    BY <2>1, <2>3, <2>7 DEF Grows, HasData
  <2> HIDE DEF next
  <2>10. QED
    BY <1>3, <1>5, <2>1, <2>4, <2>6, <2>7, <2>8, <2>9 DEF EditOK
<1>6. QED
  BY <1>4, <1>5 DEF EditOK

(* What arrives leaves an open editor alone.                               *)
LEMMA EditKept ==
  ASSUME TypeInv, EditOK, AppOK', Grows, edit' = edit,
         app'.path = app.path, app'.cursor = app.cursor, app'.buffer = app.buffer,
         app'.editing = app.editing, app'.confirming = app.confirming
  PROVE  EditOK'
<1> DEFINE p == edit.opened
<1>1. AppOK
  BY DEF TypeInv
<1>2. CASE ~ (Asking /\ edit.clear)
  BY <1>2 DEF EditOK, Asking
<1>3. CASE Asking /\ edit.clear
  <2>1. Whole /\ HasSelected /\ Selected = p /\ HasData(p)
    BY <1>3 DEF EditOK
  <2>2. Whole' /\ Selected' = Selected /\ HasSelected'
    BY <1>1, <2>1, GrownWhole
  <2>3. HasData(edit.opened)' /\ AimOf(edit.opened)' = AimOf(p)
    BY <2>1 DEF Grows, HasData, AimOf, ValueOf
  <2>4. QED
    BY <1>3, <2>1, <2>2, <2>3 DEF EditOK, Asking
<1>4. QED
  BY <1>2, <1>3

LEMMA NotedApp ==
  ASSUME AppOK, app' = app \/ \E x : Noted(x)
  PROVE  /\ app'.path = app.path /\ app'.cursor = app.cursor /\ app'.buffer = app.buffer
         /\ app'.editing = app.editing /\ app'.confirming = app.confirming
<1> DEFINE stored == Stored(devices'[Dev])
<1>1. app' = app \/ app' = [app EXCEPT !.waiting = @ \ stored]
  BY DEF Noted
<1> HIDE DEF stored
<1>2. QED
  BY <1>1 DEF AppOK, Browser

LEMMA PacketsGrow ==
  ASSUME TypeInv, ReadOnce, phase = "tui", Packets
  PROVE  Grows /\ edit' = edit /\ (app' = app \/ \E x : Noted(x))
<1>1. ManagerOK /\ LineOK
  BY DEF TypeInv
<1>2. CASE ReceiveEntry
  <2> DEFINE x == Head(toHost).param
             content == Entry(Head(toHost).param, Head(toHost).value)
  <2>1. /\ toHost # << >> /\ Head(toHost).kind = "entry"
        /\ HandleParameterEntry(Dev, x, content) /\ Noted(x) /\ edit' = edit
    BY <1>2 DEF ReceiveEntry, Arrives
  <2>2. x \in DOMAIN Kind /\ content \in Content
    BY <1>1, <2>1, EntryFacts
  <2>3. x \in Shown => Device0.params[x] = content
    <3>1. x # 0 => x \notin Shown
      BY <1>2, EntryReadsOnce DEF ReadOnce, Enumerating
    <3>2. x = 0 => content = Entry(0, 0) /\ 0 \in Plain
      BY <1>1, <2>1, EntryFacts, ValuesNat, DeviceAssumption
    <3>3. QED
      BY <3>1, <3>2 DEF ReadOnce, RootKept, Enumerating
  <2> HIDE DEF x, content
  <2>4. /\ Shown' \in {Shown, Shown \cup {x}}
        /\ \A y \in ParamId \ {x} : Device0'.params[y] = Device0.params[y]
        /\ Device0'.params[x] \in {Device0.params[x], content}
    BY <1>1, <2>1, <2>2, EntryManager
  <2>5. Shown \subseteq ParamId
    BY DEF Shown, Stored
  <2>6. Grows
    BY <2>3, <2>4, <2>5 DEF Grows
  <2>7. QED
    BY <2>1, <2>6
<1>3. CASE ReceiveChunk
  <2> DEFINE chunk == Head(toHost).chunk
  <2>1. /\ toHost # << >> /\ Head(toHost).kind = "chunk"
        /\ HandleParameterChunk(Dev, chunk) /\ edit' = edit
        /\ Noted(chunk.param) \/ app' = app
    BY <1>3 DEF ReceiveChunk, Arrives
  <2>2. chunk \in Chunk /\ chunk.param \in Long
    BY <1>1, <2>1, HeadFacts DEF Chunking
  <2> HIDE DEF chunk
  <2>3. Grows
    BY <1>1, <2>1, <2>2, ChunkManager DEF Grows
  <2>4. QED
    BY <2>1, <2>3
<1>4. CASE SendDrained \/ TimePasses
  BY <1>4, KeyOnlyGrows DEF SendDrained, TimePasses, DrainAll, UpdateTime, tui
<1>5. QED
  BY <1>2, <1>3, <1>4 DEF Packets

LEMMA EditStep == TypeInv /\ ReadOnce /\ EditOK /\ [TuiNext]_allVars => EditOK'
<1> SUFFICES ASSUME TypeInv, ReadOnce, EditOK, [TuiNext]_allVars PROVE EditOK'
  OBVIOUS
<1>1. AppOK /\ AppOK'
  BY TypeStep DEF TypeInv
<1>2. /\ DOMAIN NoEdit = {"opened", "aim", "clear"} /\ NoEdit.clear = FALSE
  BY ONLY DEF NoEdit
<1>3. edit' = edit \/ edit' = NoEdit \/ SelectCommand \/ SelectOption
        \/ \E step \in {-1, 1} : Arrow(step)
  BY DEF TuiNext, Keys, Jobs, Packets, World, allVars, tui,
         Down, Up, SelectFolder, GoBack, Refresh, Type, Dismiss, ApplyEdit, ApplyNothing,
         ExecuteCommand, CancelCommand, AnswerNothing, PollCommand, Answered, KeyOnly,
         SetStart, SetNothing, GetStart, GetDone, Verified, GiveUp,
         VerifyEntry, VerifyRunning, VerifyAsked, StrayEntry, PromptTold,
         ReceiveEntry, ReceiveChunk, SendDrained, TimePasses,
         DeviceAnswers, DeviceObeys, LoseRequest, LoseReply, DeviceFinishes
<1>4. CASE edit' = NoEdit
  BY <1>2, <1>4 DEF EditOK
<1>5. CASE SelectCommand \/ SelectOption
  BY <1>1, <1>5, OpenedOK
<1>6. CASE \E step \in {-1, 1} : Arrow(step)
  BY <1>1, <1>6, ArrowOK
<1>7. CASE edit' = edit /\ ~ Asking'
  BY <1>7 DEF EditOK
<1>8. CASE edit' = edit /\ Asking' /\ ~ SelectCommand /\ ~ SelectOption
             /\ ~ (\E step \in {-1, 1} : Arrow(step)) /\ edit' # NoEdit
  <2>1. phase' = "tui" /\ phase = "tui" /\ ~ Jobs
    BY <1>1, <1>8, BrowserOnly DEF AppOK
  <2>2. CASE Keys
    <3>1. Browser(app) /\ Browser(app')
      BY <1>1 DEF AppOK
    <3>2. ~ (Down \/ Up \/ SelectFolder \/ GoBack \/ Refresh \/ PollCommand)
      <4>1. CASE Down \/ Up \/ SelectFolder \/ GoBack \/ Refresh
        <5>1. /\ ~ app.editing /\ ~ app.confirming
              /\ app'.editing = app.editing /\ app'.confirming = app.confirming
          BY <3>1, <4>1 DEF Down, Up, SelectFolder, GoBack, Refresh, Browsing, Browser
        <5>2. QED
          BY <1>8, <5>1 DEF Asking
      <4>2. CASE PollCommand
        <5>1. ~ app'.editing /\ ~ app'.confirming
          BY <3>1, <4>2 DEF PollCommand, WriteAndReread, Browser
        <5>2. QED
          BY <1>8, <5>1 DEF Asking
      <4>3. QED
        BY <4>1, <4>2
    <3>3. edit' = NoEdit
      BY <1>8, <2>2, <3>2 DEF Keys, Type, Dismiss, ApplyEdit, ApplyNothing, ExecuteCommand,
                              CancelCommand, AnswerNothing, Answered
    <3>4. QED
      BY <1>8, <3>3
  <2>3. CASE Packets
    <3>1. Grows /\ (app' = app \/ \E x : Noted(x))
      BY <2>1, <2>3, PacketsGrow
    <3>2. QED
      BY <1>1, <1>8, <3>1, NotedApp, EditKept
  <2>4. CASE World \/ UNCHANGED allVars
    <3>1. UNCHANGED vars /\ UNCHANGED tui
      BY <2>4 DEF World, DeviceAnswers, DeviceObeys, LoseRequest, LoseReply, DeviceFinishes,
                  allVars
    <3>2. Grows /\ app' = app
      BY <3>1, KeyOnlyGrows DEF vars, tui
    <3>3. QED
      BY <1>1, <1>8, <3>2, EditKept
  <2>5. QED
    BY <2>1, <2>2, <2>3, <2>4 DEF TuiNext
<1>9. QED
  BY <1>3, <1>4, <1>5, <1>6, <1>7, <1>8

LEMMA EditInductive == TuiSpec => [](TypeInv /\ ReadOnce /\ EditOK)
<1>1. TuiInit => TypeInv /\ ReadOnce /\ EditOK
  <2>1. TuiInit => EditOK
    <3> SUFFICES ASSUME TuiInit PROVE EditOK
      OBVIOUS
    <3>1. edit = NoEdit
      BY DEF TuiInit
    <3>2. DOMAIN NoEdit = {"opened", "aim", "clear"} /\ NoEdit.clear = FALSE
      BY DEF NoEdit
    <3>3. QED
      BY <3>1, <3>2 DEF EditOK
  <2>2. QED
    BY <2>1, InitType, InitReadsOnce
<1>2. TypeInv /\ ReadOnce /\ EditOK /\ [TuiNext]_allVars => (TypeInv /\ ReadOnce /\ EditOK)'
  BY TypeStep, ReadOnceStep, EditStep
<1>3. QED
  BY <1>1, <1>2, PTL DEF TuiSpec

(* What a step that is not a write adds to the line is no write.           *)
LEMMA WritesOnlyByKeys ==
  ASSUME TypeInv, phase = "tui", TuiNext \/ UNCHANGED allVars,
         ~ ApplyEdit, ~ ExecuteCommand, ~ CancelCommand, ~ PollCommand,
         NEW i \in (Len(toDevice) + 1)..Len(toDevice')
  PROVE  toDevice'[i].kind = "read"
<1> DEFINE T == Reading \cup Writing
<1>1. ManagerOK /\ LineOK /\ toDevice \in Seq(T)
  BY DEF TypeInv, LineOK
<1> HIDE DEF T
<1>2. Len(toDevice) \in Nat
  BY <1>1
<1>3. toDevice' # toDevice /\ ~ (toDevice # << >> /\ toDevice' = Tail(toDevice))
  <2>1. toDevice' # toDevice
    BY <1>2
  <2>2. ASSUME toDevice # << >>, toDevice' = Tail(toDevice) PROVE FALSE
    <3>1. Len(toDevice') = Len(toDevice) - 1
      BY <1>1, <2>2
    <3>2. QED
      BY <1>2, <3>1
  <2>3. QED
    BY <2>1, <2>2
<1>4. SendDrained
  <2>1. ~ Jobs
    BY DEF Jobs, SetStart, SetNothing, GetStart, GetDone, Verified, GiveUp, MayStart,
           VerifyEntry, VerifyRunning, VerifyAsked, StrayEntry, PromptTold
  <2>2. CASE Keys
    BY <1>3, <2>2, KeyKinds DEF KeyOnly, Refresh, wire
  <2>3. CASE World
    BY <1>3, <2>3 DEF World, DeviceAnswers, DeviceObeys, LoseRequest, LoseReply, DeviceFinishes
  <2>4. CASE Packets
    BY <1>3, <2>4 DEF Packets, ReceiveEntry, ReceiveChunk, TimePasses, wire
  <2>5. CASE UNCHANGED allVars
    BY <1>3, <2>5 DEF allVars, wire
  <2>6. QED
    BY <2>1, <2>2, <2>3, <2>4, <2>5 DEF TuiNext
<1>5. Resent \in Seq(Reading) /\ Emptied \in Seq(Reading)
  BY <1>1, DrainedFrames
<1> DEFINE new == Resent \o Emptied
<1>6. new \in Seq(Reading)
  BY <1>5
<1>7. toDevice' = toDevice \o new
  <2>1. toDevice' = toDevice \o Resent \o Emptied
    BY <1>4 DEF SendDrained, Resent, Emptied
  <2>2. Resent \in Seq(T) /\ Emptied \in Seq(T)
    BY <1>1, DrainedFrames DEF T
  <2>3. QED
    BY <1>1, <2>1, <2>2
<1> HIDE DEF new
<1>8. toDevice'[i] \in Reading
  <2> DEFINE k == i - Len(toDevice)
  <2>1. Len(new) \in Nat /\ Len(toDevice') = Len(toDevice) + Len(new)
    BY <1>1, <1>6, <1>7
  <2>2. k \in 1..Len(new) /\ i = Len(toDevice) + k
    BY <1>2, <2>1
  <2>3. toDevice'[i] = new[k]
    BY <1>1, <1>6, <1>7, <2>1, <2>2
  <2>4. QED
    BY <1>6, <2>2, <2>3
<1>9. QED
  BY <1>8 DEF Reading

(* The frames of a write and the read that follows it.                     *)
LEMMA WrittenFrames ==
  ASSUME TypeInv, NEW p, NEW data, Writable(p, data), WriteAndReread(p, data),
         NEW i \in (Len(toDevice) + 1)..Len(toDevice'), toDevice'[i].kind = "write"
  PROVE  toDevice'[i] = WriteFrame(p, data)
<1> DEFINE T == Reading \cup Writing
           q == RequestEach(pending, <<p>>)
           frame == WriteFrame(p, data)
           out == Append(toDevice, frame)
           reads == q.packets
<1>1. ManagerOK /\ toDevice \in Seq(T) /\ frame \in T
  BY WriteFrameType DEF TypeInv, LineOK
<1>2. reads \in Seq(Reading)
  <2>1. <<p>> \in Seq(DOMAIN Kind)
    BY DEF Writable
  <2>2. QED
    BY <1>1, <2>1, OwnFacts, RequestEachOwn
<1>3. toDevice' = out \o reads
  BY DEF WriteAndReread
<1> HIDE DEF q, frame, reads
<1>4. reads \in Seq(T)
  BY <1>2 DEF T
<1> HIDE DEF T
<1>5. /\ out \in Seq(T) /\ Len(out) = Len(toDevice) + 1 /\ out[Len(toDevice) + 1] = frame
      /\ Len(toDevice) \in Nat
  BY <1>1
<1> HIDE DEF out
<1>6. Len(toDevice') = Len(out) + Len(reads) /\ Len(reads) \in Nat
  <2>1. out \in Seq(T) /\ reads \in Seq(T)
    BY <1>4, <1>5
  <2>2. Len(out \o reads) = Len(out) + Len(reads) /\ Len(reads) \in Nat
    BY <2>1
  <2>3. QED
    BY <1>3, <2>2
<1>7. CASE i = Len(toDevice) + 1
  <2>1. toDevice'[i] = out[i]
    BY <1>3, <1>4, <1>5, <1>6, <1>7
  <2>2. QED
    BY <1>5, <1>7, <2>1 DEF frame
<1>8. CASE i # Len(toDevice) + 1
  <2> DEFINE k == i - Len(out)
  <2>1. k \in 1..Len(reads) /\ i = Len(out) + k
    <3>1. i \in (Len(toDevice) + 1)..(Len(out) + Len(reads))
      BY <1>6
    <3>2. QED
      BY <1>5, <1>6, <1>8, <3>1
  <2>2. toDevice'[i] = reads[k]
    BY <1>3, <1>4, <1>5, <1>6, <2>1
  <2>3. toDevice'[i] \in Reading
    BY <1>2, <2>1, <2>2
  <2>4. QED
    BY <2>3 DEF Reading
<1>9. QED
  BY <1>7, <1>8

(* What the keys write while an editor or a question is open and clear.    *)
LEMMA WrittenAsAimed ==
  ASSUME TypeInv, EditOK, Asking, edit.clear,
         Kind[edit.opened] = "selection" => ToldApart(edit.opened),
         ApplyEdit \/ ExecuteCommand \/ CancelCommand \/ PollCommand
  PROVE  \E data : /\ WriteAndReread(edit.opened, data) /\ Writable(edit.opened, data)
                   /\ data = edit.aim \/ (app.confirming /\ data = Cancel)
<1> DEFINE p == edit.opened
           name == Options[p][edit.aim + 1]
<1>1. /\ ManagerOK /\ AppOK
      /\ Selected = p /\ HasData(p)
      /\ app.confirming => Kind[p] = "command" /\ edit.aim = AimOf(p)
      /\ app.editing => /\ Kind[p] = "selection" /\ edit.aim \in Lowest(p)..Highest(p)
                        /\ ToldApart(p) => app.buffer = name
  BY DEF TypeInv, EditOK
<1>2. PICK data : /\ WriteAndReread(p, data) /\ Writable(p, data)
                  /\ ApplyEdit => data = ResolveWriteData(p, app.buffer).data
                  /\ ExecuteCommand => data = AimOf(p)
  BY <1>1, WritingKeys
<1>3. CASE ApplyEdit
  <2>1. app.editing
    BY <1>3 DEF ApplyEdit
  <2>2. Kind[p] = "selection" /\ edit.aim \in Lowest(p)..Highest(p) /\ p \in DOMAIN Kind
    BY <1>1, <2>1, OwnFacts
  <2>3. /\ app.buffer = name /\ Position(p, name) = edit.aim /\ name \notin DOMAIN Numeral
    BY <1>1, <2>1, <2>2, PositionOf
  <2> HIDE DEF name
  <2>4. Is(p, "selection")
    BY <1>1, <2>2 DEF Is
  <2>5. ResolveWriteData(p, app.buffer) = Data(edit.aim)
    BY <2>2, <2>3, <2>4 DEF ResolveWriteData, Index, Is
  <2>6. data = edit.aim
    BY <1>2, <1>3, <2>5 DEF Data
  <2>7. QED
    BY <1>2, <2>6
<1>4. CASE ExecuteCommand
  <2>1. app.confirming
    BY <1>4 DEF ExecuteCommand, Answered
  <2>2. QED
    BY <1>1, <1>2, <1>4, <2>1
<1>5. CASE CancelCommand
  <2>1. app.confirming /\ WriteAndReread(p, Cancel) /\ Is(p, "command")
    BY <1>1, <1>5 DEF CancelCommand, Answered
  <2>2. Writable(p, Cancel)
    BY <1>1, <2>1, OwnFacts, ValuesNat DEF Writable
  <2>3. QED
    BY <2>1, <2>2
<1>6. CASE PollCommand
  BY <1>6 DEF PollCommand, Browsing, Asking
<1>7. QED
  BY <1>3, <1>4, <1>5, <1>6

(* What is sent while an editor or a question is open is what it was       *)
(* opened for and aims at, whatever arrives meanwhile, for all limits of a *)
(* selection and all options that name each of its values and tell them    *)
(* apart in the way the code compares them, capitals aside.                *)
THEOREM EditsAreAsAimed == TuiSpec => EditsAsAimed
<1>1. TypeInv /\ ReadOnce /\ EditOK /\ [TuiNext]_allVars =>
        ((app.editing \/ app.confirming) /\ toDevice' # toDevice
           /\ edit.clear
           /\ (Kind[edit.opened] = "selection" => ToldApart(edit.opened))
           => \A i \in (Len(toDevice) + 1)..Len(toDevice') :
                toDevice'[i].kind = "write" =>
                  /\ toDevice'[i].param = edit.opened
                  /\ toDevice'[i].data \in {edit.aim} \cup
                       (IF app.confirming THEN {Cancel} ELSE {}))
  <2> SUFFICES ASSUME TypeInv, EditOK, [TuiNext]_allVars, Asking, edit.clear,
                      Kind[edit.opened] = "selection" => ToldApart(edit.opened),
                      NEW i \in (Len(toDevice) + 1)..Len(toDevice'),
                      toDevice'[i].kind = "write"
               PROVE  /\ toDevice'[i].param = edit.opened
                      /\ toDevice'[i].data \in {edit.aim} \cup
                           (IF app.confirming THEN {Cancel} ELSE {})
    BY DEF Asking
  <2>1. phase = "tui"
    BY DEF TypeInv, AppOK
  <2>2. ApplyEdit \/ ExecuteCommand \/ CancelCommand \/ PollCommand
    BY <2>1, WritesOnlyByKeys
  <2>3. PICK data : /\ WriteAndReread(edit.opened, data) /\ Writable(edit.opened, data)
                    /\ data = edit.aim \/ (app.confirming /\ data = Cancel)
    BY <2>2, WrittenAsAimed
  <2>4. toDevice'[i] = WriteFrame(edit.opened, data)
    BY <2>3, WrittenFrames
  <2>5. toDevice'[i].param = edit.opened /\ toDevice'[i].data = data
    BY <2>4 DEF WriteFrame
  <2>6. QED
    BY <2>3, <2>5
<1>2. QED
  BY <1>1, EditInductive, PTL DEF TuiSpec, EditsAsAimed

-----------------------------------------------------------------------------
(* What the list shows, and what the device holds *)

(* What is known of the value of a parameter that fits a frame, or is on   *)
(* its way, is what the device holds, but for a command that has finished  *)
(* meanwhile: a write goes before the read that follows it, and while one  *)
(* is on its way nothing is known.                                         *)
Unwritten(p) == Sent(toDevice, "write", p) = {}

KnownFresh(p) ==
  p \in Shown => StillHeld(ValueOf(p), p) /\ Unwritten(p) /\ p \notin app.waiting
RepliesFresh(p) ==
  \A i \in Sent(toHost, "entry", p) : StillHeld(toHost[i].value, p) /\ Unwritten(p)
ReadsLast(p) ==
  \A i \in Sent(toDevice, "read", p), j \in Sent(toDevice, "write", p) : j < i

FreshOf(p) == KnownFresh(p) /\ RepliesFresh(p) /\ ReadsLast(p)

Fresh == phase = "tui" => \A p \in Plain : FreshOf(p)

(* Of a parameter whose part of the state is the same, or less.            *)
LEMMA KnownSame ==
  ASSUME NEW p, KnownFresh(p), held'[p] = held[p],
         p \in Shown' => /\ p \in Shown /\ Device0'.params[p] = Device0.params[p]
                         /\ p \in app'.waiting => p \in app.waiting,
         Unwritten(p) => Unwritten(p)'
  PROVE  KnownFresh(p)'
BY DEF KnownFresh, StillHeld, ValueOf

LEMMA RepliesSame ==
  ASSUME NEW p, RepliesFresh(p), held'[p] = held[p], Unwritten(p) => Unwritten(p)',
         \/ toHost' = toHost
         \/ LineOK /\ toHost # << >> /\ toHost' = Tail(toHost)
  PROVE  RepliesFresh(p)'
<1>1. CASE toHost' = toHost
  BY <1>1 DEF RepliesFresh, StillHeld
<1>2. CASE LineOK /\ toHost # << >> /\ toHost' = Tail(toHost)
  <2> DEFINE T == Telling \cup Chunking
  <2>1. toHost \in Seq(T)
    BY <1>2 DEF LineOK
  <2> HIDE DEF T
  <2>2. /\ DOMAIN toHost' = 1..(Len(toHost) - 1) /\ DOMAIN toHost = 1..Len(toHost)
        /\ Len(toHost) \in Nat
        /\ \A i \in DOMAIN toHost' : i \in Nat /\ toHost'[i] = toHost[i + 1]
    BY <1>2, <2>1
  <2>3. \A i \in DOMAIN toHost' : i + 1 \in DOMAIN toHost
    BY <2>2
  <2>4. \A i \in Sent(toHost', "entry", p) :
          \E k \in Sent(toHost, "entry", p) : toHost'[i] = toHost[k]
    BY <2>2, <2>3 DEF Sent
  <2>5. QED
    BY <2>4 DEF RepliesFresh, StillHeld
<1>3. QED
  BY <1>1, <1>2

LEMMA ReadsLastTail ==
  ASSUME NEW p, ReadsLast(p), LineOK, toDevice # << >>, toDevice' = Tail(toDevice)
  PROVE  ReadsLast(p)' /\ (Unwritten(p) => Unwritten(p)')
<1> DEFINE T == Reading \cup Writing
<1>1. toDevice \in Seq(T)
  BY DEF LineOK
<1> HIDE DEF T
<1>2. \A kind : \A i \in Sent(toDevice', kind, p) :
        i \in Nat /\ i + 1 \in Sent(toDevice, kind, p)
  BY <1>1, SentTail
<1>3. ASSUME NEW i \in Sent(toDevice', "read", p), NEW j \in Sent(toDevice', "write", p)
      PROVE  j < i
  <2>1. i \in Nat /\ j \in Nat /\ j + 1 < i + 1
    BY <1>2 DEF ReadsLast
  <2>2. QED
    BY <2>1
<1>4. Unwritten(p) => Unwritten(p)'
  BY <1>2 DEF Unwritten
<1>5. QED
  BY <1>3, <1>4 DEF ReadsLast

LEMMA ReadsOnly ==
  ASSUME NEW reads \in Seq(Reading), NEW p
  PROVE  Sent(reads, "write", p) = {}
<1> DEFINE T == Reading
<1>1. reads \in Seq(T) /\ \A f \in T : f.kind = "read"
  BY DEF Reading
<1> HIDE DEF T
<1>2. \A i \in DOMAIN reads : reads[i].kind = "read"
  BY <1>1
<1>3. QED
  BY <1>2 DEF Sent

(* Reads that are added come after the writes that are there.              *)
LEMMA ReadsLastJoined ==
  ASSUME NEW p, ReadsLast(p), LineOK, NEW reads \in Seq(Reading),
         toDevice' = toDevice \o reads
  PROVE  ReadsLast(p)' /\ (Unwritten(p) => Unwritten(p)')
<1> DEFINE T == Reading \cup Writing
<1>1. toDevice \in Seq(T) /\ reads \in Seq(T) /\ Len(toDevice) \in Nat
  BY DEF LineOK
<1>2. Sent(reads, "write", p) = {}
  BY ReadsOnly
<1> HIDE DEF T
<1>3. /\ \A i \in Sent(toDevice', "read", p) :
           \/ i \in Sent(toDevice, "read", p)
           \/ i \in Nat /\ i - Len(toDevice) \in Sent(reads, "read", p)
      /\ \A i \in Sent(reads, "read", p) : i \in 1..Len(reads)
      /\ \A j \in Sent(toDevice, "write", p) : j \in 1..Len(toDevice)
      /\ Sent(toDevice', "write", p) = Sent(toDevice, "write", p)
  BY <1>1, <1>2, SentConcat, SentJoined
<1>4. ASSUME NEW i \in Sent(toDevice', "read", p), NEW j \in Sent(toDevice', "write", p)
      PROVE  j < i
  <2>1. CASE i \in Sent(toDevice, "read", p)
    BY <1>3, <2>1 DEF ReadsLast
  <2>2. CASE i \in Nat /\ i - Len(toDevice) \in Sent(reads, "read", p)
    <3>1. i - Len(toDevice) \in 1..Len(reads) /\ j \in 1..Len(toDevice)
      BY <1>3, <2>2
    <3>2. QED
      BY <1>1, <2>2, <3>1
  <2>3. QED
    BY <1>3, <2>1, <2>2
<1>5. QED
  BY <1>3, <1>4 DEF ReadsLast, Unwritten

(* A write takes the parameter out of the map and sends the read of it     *)
(* after itself.                                                           *)
LEMMA WriteFresh ==
  ASSUME TypeInv, ReadOnce, Fresh, phase = "tui", NEW x, NEW data, Writable(x, data),
         past.edits < MaxEdits, WriteAndReread(x, data), x \in Shown
  PROVE  Fresh'
<1> DEFINE q == RequestEach(pending, <<x>>)
           frame == WriteFrame(x, data)
           T == Reading \cup Writing
           out == Append(toDevice, frame)
           reads == q.packets
<1>1. ManagerOK /\ LineOK /\ AppOK /\ x \in DOMAIN Kind /\ x \in ParamId
  BY KindFacts DEF TypeInv, Writable
<1>2. toDevice \in Seq(T) /\ frame \in T /\ frame.kind = "write" /\ frame.param = x
  BY <1>1, WriteFrameType DEF LineOK, WriteFrame
<1>3. reads \in Seq(Reading)
  <2>1. <<x>> \in Seq(DOMAIN Kind)
    BY <1>1
  <2>2. QED
    BY <1>1, <2>1, OwnFacts, RequestEachOwn
<1>4. /\ toDevice' = out \o reads /\ UNCHANGED <<held, toHost, phase>>
      /\ app' = [app EXCEPT !.editing = FALSE, !.confirming = FALSE, !.buffer = "",
                            !.waiting = IF reads # << >> THEN @ \cup {x} ELSE @]
  BY DEF WriteAndReread
<1>5. /\ Shown' = Shown \ {x}
      /\ \A y \in ParamId \ {x} : Device0'.params[y] = Device0.params[y]
  BY WriteType
<1> HIDE DEF q, frame, reads
<1>6. \A y : y \in app'.waiting => y \in app.waiting \/ y = x
  BY <1>1, <1>4 DEF AppOK, Browser
<1>7. reads \in Seq(T) /\ out \in Seq(T) /\ out = toDevice \o <<frame>> /\ <<frame>> \in Seq(T)
      /\ Len(out) = Len(toDevice) + 1 /\ Len(toDevice) \in Nat
  BY <1>2, <1>3
<1>8. \A p : Sent(reads, "write", p) = {}
  BY <1>3, ReadsOnly
<1> HIDE DEF T, out
<1>9. /\ \A p : Sent(toDevice', "write", p) = Sent(out, "write", p)
      /\ \A p : \A i \in Sent(toDevice', "read", p) :
           \/ i \in Sent(out, "read", p)
           \/ i \in Nat /\ i - Len(out) \in Sent(reads, "read", p)
      /\ \A p : \A i \in Sent(reads, "read", p) : i \in 1..Len(reads)
      /\ \A p : \A i \in Sent(out, "write", p) : i \in 1..Len(out)
  <2>1. ASSUME NEW p
        PROVE  /\ Sent(out \o reads, "write", p) = Sent(out, "write", p)
               /\ \A i \in Sent(out \o reads, "read", p) :
                    \/ i \in Sent(out, "read", p)
                    \/ i \in Nat /\ i - Len(out) \in Sent(reads, "read", p)
               /\ \A i \in Sent(reads, "read", p) : i \in 1..Len(reads)
               /\ \A i \in Sent(out, "write", p) : i \in 1..Len(out)
    <3>1. Sent(out \o reads, "write", p) = Sent(out, "write", p)
      <4>1. out \in Seq(T) /\ reads \in Seq(T) /\ Sent(reads, "write", p) = {}
        BY <1>7, <1>8
      <4>2. QED
        BY <4>1, SentJoined
    <3>2. \A i \in Sent(out \o reads, "read", p) :
            \/ i \in Sent(out, "read", p)
            \/ i \in Nat /\ i - Len(out) \in Sent(reads, "read", p)
      BY <1>7, SentConcat
    <3>3. \A i \in Sent(reads, "read", p) : i \in 1..Len(reads)
      BY <1>7, SentConcat
    <3>4. \A i \in Sent(out, "write", p) : i \in 1..Len(out)
      BY <1>7, SentConcat
    <3>5. QED
      BY <3>1, <3>2, <3>3, <3>4
  <2>2. QED
    BY <1>4, <2>1
<1>10. \A p : Sent(<<frame>>, "read", p) = {} /\ (p # x => Sent(<<frame>>, "write", p) = {})
  <2>1. \A i \in DOMAIN <<frame>> : <<frame>>[i] = frame
    OBVIOUS
  <2>2. QED
    BY <1>2, <2>1 DEF Sent
<1>11. \A p : /\ Sent(out, "read", p) = Sent(toDevice, "read", p)
              /\ p # x => Sent(out, "write", p) = Sent(toDevice, "write", p)
  <2> DEFINE last == <<frame>>
  <2>1. /\ toDevice \in Seq(T) /\ last \in Seq(T) /\ out = toDevice \o last
        /\ \A p : Sent(last, "read", p) = {} /\ (p # x => Sent(last, "write", p) = {})
    BY <1>2, <1>7, <1>10
  <2> HIDE DEF last
  <2>2. QED
    BY <2>1, SentJoined
<1>12. ASSUME NEW p \in Plain, p # x PROVE FreshOf(p)'
  <2>1. FreshOf(p) /\ p \in ParamId
    BY KindFacts DEF Fresh, Plain
  <2>2. Sent(toDevice', "write", p) = Sent(toDevice, "write", p)
    BY <1>9, <1>11, <1>12
  <2>3. Unwritten(p) => Unwritten(p)'
    BY <2>2 DEF Unwritten
  <2>4. KnownFresh(p)'
    BY <1>4, <1>5, <1>6, <1>12, <2>1, <2>3, KnownSame DEF FreshOf
  <2>5. RepliesFresh(p)'
    BY <1>4, <2>1, <2>3, RepliesSame DEF FreshOf
  <2>6. ASSUME NEW i \in Sent(toDevice', "read", p), NEW j \in Sent(toDevice', "write", p)
        PROVE  j < i
    <3>1. j \in Sent(toDevice, "write", p) /\ j \in 1..Len(out)
      BY <1>9, <2>2
    <3>2. CASE i \in Sent(out, "read", p)
      BY <1>11, <2>1, <3>1, <3>2 DEF FreshOf, ReadsLast
    <3>3. CASE i \in Nat /\ i - Len(out) \in Sent(reads, "read", p)
      <4>1. i - Len(out) \in 1..Len(reads)
        BY <1>9, <3>3
      <4>2. QED
        BY <1>7, <3>1, <3>3, <4>1
    <3>4. QED
      BY <1>9, <3>2, <3>3
  <2>7. QED
    BY <2>4, <2>5, <2>6 DEF FreshOf, ReadsLast
<1>13. ASSUME x \in Plain PROVE FreshOf(x)'
  <2>1. Sent(toDevice, "read", x) = {} /\ Sent(toHost, "entry", x) = {}
    <3>1. ReadOnceOf(Queues, toDevice, toHost, Shown, x) /\ Queues.requests = pending
      <4>1. x # 0
        BY DeviceAssumption DEF Writable
      <4>2. QED
        BY <1>13, <4>1, ReadOnceEach DEF ReadOnce, Queues, Enumerating
    <3>2. QED
      BY <3>1 DEF ReadOnceOf, OneRead
  <2>2. KnownFresh(x)'
    BY <1>5 DEF KnownFresh
  <2>3. RepliesFresh(x)'
    BY <1>4, <2>1 DEF RepliesFresh
  <2>4. ASSUME NEW i \in Sent(toDevice', "read", x), NEW j \in Sent(toDevice', "write", x)
        PROVE  j < i
    <3>1. j \in 1..Len(out) /\ i \in Nat /\ i - Len(out) \in 1..Len(reads)
      BY <1>9, <1>11, <2>1
    <3>2. QED
      BY <1>7, <3>1
  <2>5. QED
    BY <2>2, <2>3, <2>4 DEF FreshOf, ReadsLast
<1>14. QED
  BY <1>12, <1>13 DEF Fresh

(* The parts of a step that leaves what the list shows as it is.           *)
LEMMA FreshSame ==
  ASSUME NEW p, FreshOf(p), held'[p] = held[p], UNCHANGED <<devices, app>>,
         \/ UNCHANGED toDevice
         \/ ReadsLast(p)' /\ (Unwritten(p) => Unwritten(p)'),
         \/ toHost' = toHost
         \/ LineOK /\ toHost # << >> /\ toHost' = Tail(toHost)
  PROVE  FreshOf(p)'
<1>1. Unwritten(p) => Unwritten(p)'
  BY DEF Unwritten
<1>2. ReadsLast(p)'
  BY DEF FreshOf, ReadsLast
<1>3. Shown' = Shown /\ Device0' = Device0
  BY DEF Shown, Device0
<1>4. KnownFresh(p)'
  BY <1>1, <1>3, KnownSame DEF FreshOf
<1>5. RepliesFresh(p)'
  BY <1>1, RepliesSame DEF FreshOf
<1>6. QED
  BY <1>2, <1>4, <1>5 DEF FreshOf

LEMMA NotedWaiting ==
  ASSUME AppOK, phase = "tui", NEW x, Noted(x)
  PROVE  app'.waiting = app.waiting \ Shown'
<1> DEFINE stored == Stored(devices'[Dev])
<1>1. app' = [app EXCEPT !.waiting = @ \ stored]
  BY DEF Noted
<1>2. Shown' = stored
  BY DEF Shown, Device0
<1> HIDE DEF stored
<1>3. QED
  BY <1>1, <1>2 DEF AppOK, Browser

(* An entry shows what was held when it was sent, which is still held.     *)
LEMMA EntryFresh ==
  ASSUME TypeInv, ReadOnce, Fresh, phase = "tui", ReceiveEntry
  PROVE  Fresh'
<1>0. PICK x, value : x = Head(toHost).param /\ value = Head(toHost).value
  OBVIOUS
<1> DEFINE content == Entry(x, value)
<1>1. ManagerOK /\ LineOK /\ AppOK
  BY DEF TypeInv
<1>2. /\ toHost # << >> /\ Head(toHost).kind = "entry"
      /\ HandleParameterEntry(Dev, x, content) /\ Noted(x)
      /\ toHost' = Tail(toHost) /\ UNCHANGED <<toDevice, held, phase>>
  BY <1>0 DEF ReceiveEntry, Arrives
<1>3. /\ x \in Plain /\ x \in DOMAIN Kind /\ x \in ParamId
      /\ content \in Content /\ content.value = value
  BY <1>0, <1>1, <1>2, EntryFacts, KindFacts
<1>4. 1 \in Sent(toHost, "entry", x) /\ toHost[1].value = value
  BY <1>0, <1>1, <1>2, TakenReply DEF LineOK
<1> HIDE DEF content
<1>5. /\ Shown' \in {Shown, Shown \cup {x}}
      /\ \A y \in ParamId \ {x} : Device0'.params[y] = Device0.params[y]
      /\ Device0'.params[x] \in {Device0.params[x], content}
  BY <1>1, <1>2, <1>3, EntryManager
<1>6. app'.waiting = app.waiting \ Shown'
  BY <1>1, <1>2, NotedWaiting
<1>7. \A p \in Plain : FreshOf(p) /\ p \in ParamId
  BY KindFacts DEF Fresh, Plain
<1>8. \A p : /\ Unwritten(p) => Unwritten(p)'
             /\ ReadsLast(p) => ReadsLast(p)'
  BY <1>2 DEF Unwritten, ReadsLast
<1>9. ASSUME NEW p \in Plain PROVE RepliesFresh(p)'
  BY <1>1, <1>2, <1>7, <1>8, RepliesSame DEF FreshOf
<1>10. ASSUME NEW p \in Plain, p # x PROVE KnownFresh(p)'
  <2>1. KnownFresh(p) /\ held'[p] = held[p] /\ Device0'.params[p] = Device0.params[p]
    BY <1>2, <1>5, <1>7, <1>10 DEF FreshOf
  <2>2. p \in Shown' => p \in Shown
    BY <1>5, <1>10
  <2>3. QED
    BY <1>6, <1>8, <2>1, <2>2, KnownSame
<1>11. KnownFresh(x)'
  <2>1. ASSUME x \in Shown' PROVE StillHeld(ValueOf(x), x)'
    <3>1. StillHeld(value, x)
      BY <1>3, <1>4, <1>7 DEF FreshOf, RepliesFresh
    <3>2. CASE Device0'.params[x] = content
      BY <1>2, <1>3, <3>1, <3>2 DEF StillHeld, ValueOf
    <3>3. CASE Device0'.params[x] = Device0.params[x]
      <4>1. x \in Shown
        BY <1>3, <2>1, <3>3 DEF Shown, Stored
      <4>2. StillHeld(ValueOf(x), x)
        BY <1>3, <1>7, <4>1 DEF FreshOf, KnownFresh
      <4>3. QED
        BY <1>2, <3>3, <4>2 DEF StillHeld, ValueOf
    <3>4. QED
      BY <1>5, <3>2, <3>3
  <2>2. Unwritten(x)'
    BY <1>3, <1>4, <1>7, <1>8 DEF FreshOf, RepliesFresh
  <2>3. x \in Shown' => x \notin app'.waiting
    BY <1>6
  <2>4. QED
    BY <2>1, <2>2, <2>3 DEF KnownFresh
<1>12. ASSUME NEW p \in Plain PROVE FreshOf(p)'
  BY <1>7, <1>8, <1>9, <1>10, <1>11 DEF FreshOf
<1>13. QED
  BY <1>12 DEF Fresh

LEMMA ChunkFresh ==
  ASSUME TypeInv, Fresh, phase = "tui", ReceiveChunk
  PROVE  Fresh'
<1> DEFINE chunk == Head(toHost).chunk
<1>1. ManagerOK /\ LineOK /\ AppOK
  BY DEF TypeInv
<1>2. /\ toHost # << >> /\ Head(toHost).kind = "chunk"
      /\ HandleParameterChunk(Dev, chunk) /\ (Noted(chunk.param) \/ app' = app)
      /\ toHost' = Tail(toHost) /\ UNCHANGED <<toDevice, held, phase>>
  BY DEF ReceiveChunk, Arrives
<1>3. chunk \in Chunk /\ chunk.param \in Long
  BY <1>1, <1>2, HeadFacts DEF Chunking
<1> HIDE DEF chunk
<1>4. \A p \in Plain : Device0'.params[p] = Device0.params[p]
  BY <1>1, <1>2, <1>3, ChunkManager
<1>5. \A p : p \in app'.waiting => p \in app.waiting
  BY <1>1, <1>2, NotedWaiting
<1>6. ASSUME NEW p \in Plain PROVE FreshOf(p)'
  <2>1. FreshOf(p)
    BY DEF Fresh
  <2>2. p \in Shown' => p \in Shown
    BY <1>4 DEF Shown, Stored
  <2>3. (Unwritten(p) => Unwritten(p)') /\ (ReadsLast(p) => ReadsLast(p)')
    BY <1>2 DEF Unwritten, ReadsLast
  <2>4. KnownFresh(p)'
    BY <1>2, <1>4, <1>5, <2>1, <2>2, <2>3, KnownSame DEF FreshOf
  <2>5. RepliesFresh(p)'
    BY <1>1, <1>2, <2>1, <2>3, RepliesSame DEF FreshOf
  <2>6. QED
    BY <2>1, <2>3, <2>4, <2>5 DEF FreshOf
<1>7. QED
  BY <1>6 DEF Fresh

(* What is drained asks for parameters, after the writes that are sent.    *)
LEMMA DrainFresh ==
  ASSUME TypeInv, Fresh, phase = "tui", SendDrained
  PROVE  Fresh'
<1> DEFINE T == Reading \cup Writing
           new == Resent \o Emptied
<1>1. ManagerOK /\ LineOK /\ toDevice \in Seq(T)
  BY DEF TypeInv, LineOK
<1>2. Resent \in Seq(T) /\ Emptied \in Seq(T) /\ new \in Seq(Reading)
  BY <1>1, DrainedFrames
<1>3. toDevice' = toDevice \o Resent \o Emptied /\ UNCHANGED <<devices, held, toHost, phase, app>>
  BY DEF SendDrained, DrainAll, Resent, Emptied
<1> HIDE DEF T
<1>4. toDevice' = toDevice \o new
  BY <1>1, <1>2, <1>3
<1> HIDE DEF new
<1>5. ASSUME NEW p \in Plain PROVE FreshOf(p)'
  <2>1. FreshOf(p)
    BY DEF Fresh
  <2>2. ReadsLast(p)' /\ (Unwritten(p) => Unwritten(p)')
    BY <1>1, <1>2, <1>4, <2>1, ReadsLastJoined DEF FreshOf
  <2>3. QED
    BY <1>3, <2>1, <2>2, FreshSame
<1>6. QED
  BY <1>5 DEF Fresh

(* The keys that write nothing and forget nothing. *)
LEMMA QuietKeys ==
  ASSUME AppOK, Keys, ~ Refresh, ~ ApplyEdit, ~ ExecuteCommand, ~ CancelCommand, ~ PollCommand
  PROVE  KeyOnly /\ app'.waiting = app.waiting
<1>1. Browser(app)
  BY DEF AppOK
<1>2. CASE Down
  <2> DEFINE cursor == LET last == Len(CurrentParameters) - 1 IN
               IF last < 0 THEN 0 ELSE IF app.cursor + 1 > last THEN last ELSE app.cursor + 1
  <2>1. app' = [app EXCEPT !.cursor = cursor] /\ KeyOnly
    BY <1>2 DEF Down
  <2> HIDE DEF cursor
  <2>2. QED
    BY <1>1, <2>1 DEF Browser
<1>3. CASE Up
  BY <1>1, <1>3 DEF Up, Browser
<1>4. CASE SelectFolder
  <2> DEFINE path == Append(app.path, Selected)
  <2>1. app' = [app EXCEPT !.path = path, !.cursor = 0] /\ KeyOnly
    BY <1>4 DEF SelectFolder
  <2> HIDE DEF path
  <2>2. QED
    BY <1>1, <2>1 DEF Browser
<1>5. CASE GoBack
  <2> DEFINE path == Front(app.path)
  <2>1. app' = [app EXCEPT !.path = path, !.cursor = 0] /\ KeyOnly
    BY <1>5 DEF GoBack
  <2> HIDE DEF path
  <2>2. QED
    BY <1>1, <2>1 DEF Browser
<1>6. CASE SelectCommand \/ SelectOption
  BY <1>1, <1>6 DEF SelectCommand, SelectOption, Browser
<1>7. CASE \E step \in {-1, 1} : Arrow(step)
  <2>1. PICK text : app' = [app EXCEPT !.buffer = text] /\ KeyOnly
    BY <1>7 DEF Arrow
  <2>2. QED
    BY <1>1, <2>1 DEF Browser
<1>8. CASE (\E text \in Typed : Type(text)) \/ Dismiss \/ ApplyNothing \/ AnswerNothing
  BY <1>1, <1>8 DEF Type, Dismiss, ApplyNothing, AnswerNothing, Browser
<1>9. QED
  BY <1>2, <1>3, <1>4, <1>5, <1>6, <1>7, <1>8 DEF Keys

LEMMA QuietFresh ==
  ASSUME Fresh, UNCHANGED <<devices, held, toDevice, toHost, phase>>,
         app'.waiting = app.waiting
  PROVE  Fresh'
<1>1. Shown' = Shown /\ Device0' = Device0
  BY DEF Shown, Device0
<1>2. QED
  BY <1>1 DEF Fresh, FreshOf, KnownFresh, RepliesFresh, ReadsLast, Unwritten, StillHeld, ValueOf

(* The map is emptied: nothing is known that could be wrong.               *)
LEMMA RefreshFresh ==
  ASSUME TypeInv, Fresh, Refresh
  PROVE  Fresh'
<1>1. Shown' = {} /\ UNCHANGED <<held, toDevice, toHost, phase>>
  BY RefreshType DEF Refresh, wire
<1>2. \A p : /\ RepliesFresh(p) => RepliesFresh(p)'
             /\ ReadsLast(p) => ReadsLast(p)'
             /\ KnownFresh(p)'
  BY <1>1 DEF KnownFresh, RepliesFresh, ReadsLast, Unwritten, StillHeld
<1>3. QED
  BY <1>1, <1>2 DEF Fresh, FreshOf

(* The device answers the first of its frames, which no write is before:   *)
(* what the answer says is held, and is until the next write is sent.      *)
LEMMA AnswerReplies ==
  ASSUME LineOK, DeviceAnswers, NEW p \in Plain, RepliesFresh(p), ReadsLast(p)
  PROVE  RepliesFresh(p)'
<1> DEFINE T == Telling \cup Chunking
           answer == Answer(Head(toDevice))
<1>0. PICK x : x = Head(toDevice).param
  OBVIOUS
<1>1. toDevice # << >> /\ Head(toDevice).kind = "read" /\ toHost \in Seq(T)
  BY DEF LineOK, DeviceAnswers
<1>2. toDevice' = Tail(toDevice) /\ toHost' = toHost \o answer /\ held' = held
  BY DEF DeviceAnswers
<1>3. answer \in Seq(T) /\ \A y : y # x \/ y \in Long => Sent(answer, "entry", y) = {}
  BY <1>0, <1>1, ToDeviceFacts, AnswerType, AnswerEntries
<1>4. \A i \in Sent(answer, "entry", x) : answer[i].value = held[x]
  <2>1. CASE x \notin Long
    <3> DEFINE told == [kind |-> "entry", param |-> x, value |-> held[x]]
    <3>1. answer = <<told>>
      BY <1>0, <2>1 DEF Answer
    <3> HIDE DEF answer, told
    <3>2. \A i \in DOMAIN answer : answer[i] = told
      BY <3>1
    <3>3. QED
      BY <3>2 DEF Sent, told
  <2>2. CASE x \in Long
    BY <1>3, <2>2
  <2>3. QED
    BY <2>1, <2>2
<1>5. 1 \in Sent(toDevice, "read", x)
  BY <1>0, <1>1, TakenRequest
<1> HIDE DEF T, answer
<1>6. Unwritten(p) => Unwritten(p)'
  BY <1>1, <1>2, ReadsLastTail
<1>7. p = x => Unwritten(p)
  <2>1. ASSUME p = x, NEW j \in Sent(toDevice, "write", p) PROVE FALSE
    <3>1. j < 1
      BY <1>5, <2>1 DEF ReadsLast
    <3>2. j \in Nat \ {0}
      <4> DEFINE R == Reading \cup Writing
      <4>1. toDevice \in Seq(R)
        BY DEF LineOK
      <4> HIDE DEF R
      <4>2. QED
        BY <1>1, <4>1, SentTail
    <3>3. QED
      BY <3>1, <3>2
  <2>2. QED
    BY <2>1 DEF Unwritten
<1>8. ASSUME NEW i \in Sent(toHost', "entry", p)
      PROVE  StillHeld(toHost'[i].value, p) /\ Unwritten(p)
  <2>1. \/ i \in Sent(toHost, "entry", p)
        \/ i \in Nat /\ i - Len(toHost) \in Sent(answer, "entry", p)
    BY <1>1, <1>2, <1>3, SentConcat
  <2>2. CASE i \in Sent(toHost, "entry", p)
    <3>1. (toHost \o answer)[i] = toHost[i]
      BY <1>1, <1>3, <2>2, SentConcat
    <3>2. QED
      BY <1>2, <2>2, <3>1 DEF RepliesFresh
  <2>3. CASE i \in Nat /\ i - Len(toHost) \in Sent(answer, "entry", p)
    <3> DEFINE k == i - Len(toHost)
    <3>1. p = x /\ answer[k].value = held[x]
      BY <1>3, <1>4, <2>3
    <3>2. toHost'[i] = answer[k]
      <4>1. k \in 1..Len(answer)
        BY <1>1, <1>3, <2>3, SentConcat
      <4>2. Len(toHost) \in Nat /\ i = Len(toHost) + k
        BY <1>1, <2>3
      <4> HIDE DEF k
      <4>3. (toHost \o answer)[Len(toHost) + k] = answer[k]
        BY <1>1, <1>3, <4>1, <4>2
      <4>4. QED
        BY <1>2, <4>2, <4>3
    <3>3. QED
      BY <1>7, <3>1, <3>2 DEF StillHeld
  <2>4. QED
    BY <2>1, <2>2, <2>3
<1>9. QED
  BY <1>2, <1>6, <1>8 DEF RepliesFresh, StillHeld

(* Whatever the line and the device do: a value that agrees with what is   *)
(* held goes on agreeing until the next write is sent, and what is on its  *)
(* way does.                                                               *)
LEMMA WorldKeeps ==
  ASSUME LineOK, World, NEW p \in Plain, RepliesFresh(p), ReadsLast(p)
  PROVE  /\ RepliesFresh(p)' /\ ReadsLast(p)'
         /\ Unwritten(p) => Unwritten(p)' /\ \A v : StillHeld(v, p) => StillHeld(v, p)'
<1>1. CASE DeviceAnswers
  <2>1. held' = held /\ toDevice # << >> /\ toDevice' = Tail(toDevice)
    BY <1>1 DEF DeviceAnswers
  <2>2. QED
    BY <1>1, <2>1, AnswerReplies, ReadsLastTail DEF StillHeld
<1>2. CASE LoseRequest \/ LoseReply
  <2>1. /\ held' = held
        /\ \/ toDevice # << >> /\ toDevice' = Tail(toDevice) /\ toHost' = toHost
           \/ toHost # << >> /\ toHost' = Tail(toHost) /\ toDevice' = toDevice
    BY <1>2 DEF LoseRequest, LoseReply
  <2>2. ReadsLast(p)' /\ (Unwritten(p) => Unwritten(p)')
    <3>1. CASE toDevice' = toDevice
      BY <3>1 DEF ReadsLast, Unwritten
    <3>2. QED
      BY <2>1, <3>1, ReadsLastTail
  <2>3. RepliesFresh(p)'
    BY <2>1, <2>2, RepliesSame
  <2>4. QED
    BY <2>1, <2>2, <2>3 DEF StillHeld
<1>3. CASE DeviceObeys
  <2>0. PICK x : x = Head(toDevice).param
    OBVIOUS
  <2> DEFINE value == Obeyed(Head(toDevice).param, Head(toDevice).data)
  <2>1. /\ toDevice # << >> /\ Head(toDevice).kind = "write"
        /\ toDevice' = Tail(toDevice) /\ held' = [held EXCEPT ![x] = value]
        /\ toHost' = toHost
    BY <1>3, <2>0 DEF DeviceObeys
  <2> HIDE DEF value
  <2>2. 1 \in Sent(toDevice, "write", x)
    BY <2>0, <2>1, TakenRequest
  <2>3. ReadsLast(p)' /\ (Unwritten(p) => Unwritten(p)')
    BY <2>1, ReadsLastTail
  <2>4. CASE p # x
    <3>1. held'[p] = held[p]
      BY <2>1, <2>4 DEF LineOK, Plain
    <3>2. QED
      BY <2>1, <2>3, <3>1, RepliesSame DEF StillHeld
  <2>5. CASE p = x
    <3>1. ~ Unwritten(p)
      BY <2>2, <2>5 DEF Unwritten
    <3>2. Sent(toHost, "entry", p) = {}
      BY <3>1 DEF RepliesFresh
    <3>3. Sent(toHost', "entry", p) = {}
      BY <2>1, <3>2
    <3>4. QED
      BY <2>3, <3>1, <3>3 DEF RepliesFresh
  <2>6. QED
    BY <2>4, <2>5
<1>4. CASE \E x \in DOMAIN Kind : DeviceFinishes(x)
  <2>1. PICK x \in DOMAIN Kind : DeviceFinishes(x)
    BY <1>4
  <2>2. /\ Kind[x] = "command" /\ held[x] = Progress
        /\ held' = [held EXCEPT ![x] = Ready] /\ UNCHANGED <<toDevice, toHost>>
    BY <2>1 DEF DeviceFinishes
  <2>3. held'[p] = IF p = x THEN Ready ELSE held[p]
    BY <2>2 DEF LineOK, Plain
  <2>4. \A v : StillHeld(v, p) => StillHeld(v, p)'
    BY <2>2, <2>3 DEF StillHeld, Ready, Progress
  <2>5. (Unwritten(p) <=> Unwritten(p)') /\ (ReadsLast(p) => ReadsLast(p)')
    BY <2>2 DEF Unwritten, ReadsLast
  <2>6. \A v : StillHeld(v, p) => v = held'[p] \/ (Kind[p] = "command" /\ v = Progress /\ held'[p] = Ready)
    BY <2>4 DEF StillHeld
  <2>7. RepliesFresh(p)'
    BY <2>2, <2>5, <2>6 DEF RepliesFresh, StillHeld
  <2>8. QED
    BY <2>4, <2>5, <2>7
<1>5. QED
  BY <1>1, <1>2, <1>3, <1>4 DEF World

LEMMA WorldFresh ==
  ASSUME TypeInv, Fresh, phase = "tui", World
  PROVE  Fresh'
<1>1. LineOK /\ UNCHANGED <<devices, app>>
  BY DEF TypeInv, World, DeviceAnswers, DeviceObeys, LoseRequest, LoseReply, DeviceFinishes,
         vars, tui
<1>2. Shown' = Shown /\ Device0' = Device0
  BY <1>1 DEF Shown, Device0
<1>3. ASSUME NEW p \in Plain PROVE FreshOf(p)'
  <2>1. KnownFresh(p) /\ RepliesFresh(p) /\ ReadsLast(p)
    BY DEF Fresh, FreshOf
  <2>2. /\ RepliesFresh(p)' /\ ReadsLast(p)'
        /\ Unwritten(p) => Unwritten(p)' /\ \A v : StillHeld(v, p) => StillHeld(v, p)'
    BY <1>1, <2>1, WorldKeeps
  <2>3. ASSUME p \in Shown' PROVE StillHeld(ValueOf(p), p)' /\ Unwritten(p)' /\ p \notin app'.waiting
    <3>1. StillHeld(ValueOf(p), p) /\ Unwritten(p) /\ p \notin app.waiting
      BY <1>2, <2>1, <2>3 DEF KnownFresh
    <3>2. ValueOf(p)' = ValueOf(p)
      BY <1>2 DEF ValueOf
    <3>3. QED
      BY <1>1, <2>2, <3>1, <3>2 DEF StillHeld
  <2>4. QED
    BY <2>2, <2>3 DEF FreshOf, KnownFresh
<1>4. QED
  BY <1>3 DEF Fresh

LEMMA FreshStep == TypeInv /\ ReadOnce /\ Fresh /\ [TuiNext]_allVars => Fresh'
<1> SUFFICES ASSUME TypeInv, ReadOnce, Fresh, [TuiNext]_allVars PROVE Fresh'
  OBVIOUS
<1>1. SUFFICES ASSUME phase' = "tui" PROVE Fresh'
  BY DEF Fresh
<1>2. phase = "tui" /\ ~ Jobs
  BY <1>1, BrowserOnly
<1>3. CASE Keys
  <2>1. CASE Refresh
    BY <2>1, RefreshFresh
  <2>2. CASE ApplyEdit \/ ExecuteCommand \/ CancelCommand \/ PollCommand
    BY <1>2, <2>2, WritingKeys, WriteFresh
  <2>3. CASE ~ Refresh /\ ~ ApplyEdit /\ ~ ExecuteCommand /\ ~ CancelCommand /\ ~ PollCommand
    <3>1. KeyOnly /\ app'.waiting = app.waiting
      BY <1>3, <2>3, QuietKeys DEF TypeInv
    <3>2. QED
      BY <3>1, QuietFresh DEF KeyOnly, vars, wire
  <2>4. QED
    BY <2>1, <2>2, <2>3
<1>4. CASE Packets
  <2>1. CASE TimePasses
    BY <2>1, QuietFresh DEF TimePasses, UpdateTime, wire, tui
  <2>2. QED
    BY <1>2, <1>4, <2>1, EntryFresh, ChunkFresh, DrainFresh DEF Packets
<1>5. CASE World
  BY <1>2, <1>5, WorldFresh
<1>6. CASE UNCHANGED allVars
  BY <1>6, QuietFresh DEF allVars, vars, wire, tui
<1>7. QED
  BY <1>2, <1>3, <1>4, <1>5, <1>6 DEF TuiNext

LEMMA InitFresh == TuiInit => Fresh
<1> SUFFICES ASSUME TuiInit PROVE Fresh
  OBVIOUS
<1>1. Shown = {} /\ toDevice = << >> /\ toHost = << >>
  BY InitType DEF TuiInit
<1>2. \A kind, p : Sent(toDevice, kind, p) = {} /\ Sent(toHost, kind, p) = {}
  BY <1>1 DEF Sent
<1>3. QED
  BY <1>1, <1>2 DEF Fresh, FreshOf, KnownFresh, RepliesFresh, ReadsLast

LEMMA FreshInductive == TuiSpec => [](TypeInv /\ ReadOnce /\ Fresh)
<1>1. TuiInit => TypeInv /\ ReadOnce /\ Fresh
  BY InitType, InitReadsOnce, InitFresh
<1>2. TypeInv /\ ReadOnce /\ Fresh /\ [TuiNext]_allVars => (TypeInv /\ ReadOnce /\ Fresh)'
  BY TypeStep, ReadOnceStep, FreshStep
<1>3. QED
  BY <1>1, <1>2, PTL DEF TuiSpec

(* At any time, whatever is written, lost or asked for again meanwhile,    *)
(* what the browser knows of a parameter that fits a frame is what the     *)
(* device holds, and it waits for it no longer.                            *)
THEOREM KnownIsHeld ==
  TuiSpec => [](phase = "tui" => \A p \in Plain \cap Shown :
                  StillHeld(ValueOf(p), p) /\ p \notin app.waiting)
<1>1. Fresh => (phase = "tui" => \A p \in Plain \cap Shown :
                  StillHeld(ValueOf(p), p) /\ p \notin app.waiting)
  BY DEF Fresh, FreshOf, KnownFresh
<1>2. QED
  BY <1>1, FreshInductive, PTL

(* So on a device whose entries all fit a frame, what the list shows when  *)
(* the line has gone quiet is what the device holds.                       *)
THEOREM ShownIsAsHeld ==
  ASSUME Long = {}
  PROVE  TuiSpec => []ShownIsHeld
<1>1. TypeInv /\ Fresh => ShownIsHeld
  <2> SUFFICES ASSUME TypeInv, Fresh, phase = "tui"
               PROVE  /\ \A p \in Shown : StillHeld(ValueOf(p), p)
                      /\ app.waiting \cap Shown = {}
    BY DEF ShownIsHeld, StillHeld
  <2>1. Shown \subseteq Plain
    BY OwnFacts DEF TypeInv, Plain
  <2>2. \A p \in Shown : StillHeld(ValueOf(p), p) /\ p \notin app.waiting
    BY <2>1 DEF Fresh, FreshOf, KnownFresh
  <2>3. QED
    BY <2>2
<1>2. QED
  BY <1>1, FreshInductive, PTL
-----------------------------------------------------------------------------
(* `set` and `export`: what they tell is what the device holds *)

(* When every entry fits a frame there are no others on the line.          *)
LEMMA WholeEntries ==
  ASSUME Long = {}, LineOK, toHost # << >>
  PROVE  Head(toHost).kind = "entry"
<1>1. Head(toHost) \in Telling \cup Chunking /\ Chunking = {}
  BY HeadFacts DEF Chunking
<1>2. QED
  BY <1>1 DEF Telling

LEMMA NoChunks == Long = {} /\ LineOK => ~ ReceiveChunk
BY WholeEntries DEF ReceiveChunk, Arrives

(* A device that is loaded has its parameters stored, all of them.         *)
AllStored(dev) == dev.loaded => Stored(dev) = DOMAIN Kind

LEMMA StoredAll ==
  ASSUME NEW dev, BrowsedOK(dev), AllStored(dev),
         NEW x \in DOMAIN Kind, NEW content \in Content \cup {Stub}
  PROVE  AllStored(WithParameter(dev, x, content))
<1> DEFINE added == AddParameter(dev, x, content)
           with == WithParameter(dev, x, content)
<1>1. with = IF Full(added) THEN [added EXCEPT !.loaded = TRUE] ELSE added
  BY DEF WithParameter
<1>2. added.total = Total /\ added.loaded = dev.loaded /\ added \in Device
  BY KindFacts DEF AddParameter, BrowsedOK, Device
<1> HIDE DEF added
<1>3. with.params = added.params
  BY <1>1, <1>2 DEF Device
<1>4. Stored(with) = Stored(added)
  BY <1>3 DEF Stored
<1>5. /\ Stored(with) \subseteq DOMAIN Kind
      /\ Stored(with) \in {Stored(dev), Stored(dev) \cup {x}}
  BY WithParameterBrowsed DEF BrowsedOK
<1>6. CASE Full(added)
  <2>1. Cardinality(Stored(with)) >= Total
    BY <1>2, <1>4, <1>6 DEF Full
  <2>2. /\ Cardinality(Stored(with)) <= Cardinality(DOMAIN Kind)
        /\ Cardinality(DOMAIN Kind) = Cardinality(Stored(with)) => DOMAIN Kind = Stored(with)
        /\ Cardinality(Stored(with)) \in Nat
    BY <1>5, KindFacts, FS_Subset, FS_CardinalityType
  <2>3. Stored(with) = DOMAIN Kind
    BY <2>1, <2>2, KindFacts DEF Total
  <2>4. QED
    BY <2>3 DEF AllStored
<1>7. CASE ~ Full(added)
  <2>1. with.loaded = dev.loaded
    BY <1>1, <1>2, <1>7
  <2>2. QED
    BY <1>5, <2>1 DEF AllStored, BrowsedOK
<1>8. QED
  BY <1>6, <1>7

(* What an entry does to the device it is of.                              *)
LEMMA EntryDevice ==
  ASSUME ManagerOK, NEW x, NEW content, HandleParameterEntry(Dev, x, content)
  PROVE  Device0' = WithParameter(Device0, x, content)
<1>1. Dev \in Addr /\ devices \in [Addr -> Device \cup {NoDevice}]
  BY DeviceAssumption DEF ManagerOK
<1> DEFINE dev == WithParameter(Device0, x, content)
<1>2. devices' = [devices EXCEPT ![Dev] = dev]
  BY DEF HandleParameterEntry, Device0
<1> HIDE DEF dev
<1>3. devices'[Dev] = dev
  BY <1>1, <1>2
<1>4. QED
  BY <1>3 DEF Device0, dev

(* Forgetting a parameter, or all, is to load them again.                  *)
LEMMA LoadedNoMore ==
  ASSUME TypeInv, Refresh \/ \E x, data : WriteAndReread(x, data)
  PROVE  ~ Device0'.loaded
<1>1. Dev \in Addr /\ devices \in [Addr -> Device \cup {NoDevice}] /\ BrowsedOK(Device0)
  BY DeviceAssumption DEF TypeInv, ManagerOK
<1>2. PICK ps : devices' = [devices EXCEPT ![Dev] = [Without(@, ps) EXCEPT !.loaded = FALSE]]
  <2>1. Refresh => devices' = [devices EXCEPT ![Dev] = [Without(@, ParamId) EXCEPT !.loaded = FALSE]]
    BY DEF Refresh
  <2>2. ASSUME NEW x, NEW data, WriteAndReread(x, data)
        PROVE  \E ps : devices' = [devices EXCEPT ![Dev] = [Without(@, ps) EXCEPT !.loaded = FALSE]]
    <3>1. devices' = [devices EXCEPT ![Dev] = [Without(@, {x}) EXCEPT !.loaded = FALSE]]
      BY ONLY WriteAndReread(x, data), Zenon DEF WriteAndReread
    <3>2. QED
      BY <3>1
  <2>3. QED
    BY <2>1, <2>2
<1> DEFINE left == Without(Device0, ps)
           reset == [left EXCEPT !.loaded = FALSE]
<1>3. left \in Device
  BY <1>1, WithoutBrowsed
<1>4. devices' = [devices EXCEPT ![Dev] = reset]
  BY <1>2 DEF Device0
<1> HIDE DEF left
<1>5. reset.loaded = FALSE
  BY <1>3 DEF Device
<1> HIDE DEF reset
<1>6. devices'[Dev] = reset
  BY <1>1, <1>4
<1>7. QED
  BY <1>5, <1>6 DEF Device0

(* The map has room for the entry that comes. *)
LEMMA StoresEntry ==
  ASSUME ManagerOK, Total <= MaxParameters, NEW x \in DOMAIN Kind, NEW content \in Content
  PROVE  LET with == WithParameter(Device0, x, content) IN
         x \in Stored(with) /\ with.params[x] = content
<1>1. PICK dev : dev = Device0
  OBVIOUS
<1>2. dev \in Device /\ Stored(dev) \subseteq DOMAIN Kind /\ x \in ParamId
  BY <1>1, KindFacts DEF ManagerOK, BrowsedOK
<1>3. content # Absent /\ content \in Content \cup {Stub, Absent}
  BY ContentAssumption
<1>4. x \in Stored(dev) \/ Cardinality(Stored(dev)) < MaxParameters
  <2>1. SUFFICES ASSUME x \notin Stored(dev) PROVE Cardinality(Stored(dev)) < MaxParameters
    OBVIOUS
  <2>2. /\ IsFiniteSet(DOMAIN Kind \ {x})
        /\ Cardinality(DOMAIN Kind \ {x}) = Total - 1
    BY KindFacts, FS_RemoveElement DEF Total
  <2>3. Stored(dev) \subseteq DOMAIN Kind \ {x}
    BY <1>2, <2>1
  <2>4. /\ Cardinality(Stored(dev)) \in Nat
        /\ Cardinality(Stored(dev)) <= Cardinality(DOMAIN Kind \ {x})
    BY <2>2, <2>3, FS_Subset, FS_CardinalityType
  <2>5. QED
    BY <2>2, <2>4, KindFacts, CapacityAssumption
<1>5. AddParameter(dev, x, content) = [dev EXCEPT !.params[x] = content]
  BY <1>4 DEF AddParameter
<1>6. PICK added : added = [dev EXCEPT !.params[x] = content]
  OBVIOUS
<1>7. added.params[x] = content
  BY <1>2, <1>6 DEF Device
<1>8. WithParameter(dev, x, content) \in {added, [added EXCEPT !.loaded = TRUE]}
  BY <1>5, <1>6 DEF WithParameter
<1>9. WithParameter(dev, x, content).params = added.params
  <2>1. added \in Device
    BY <1>2, <1>3, <1>6 DEF Device
  <2>2. [added EXCEPT !.loaded = TRUE].params = added.params
    BY <2>1 DEF Device
  <2>3. QED
    BY <1>8, <2>2
<1>10. QED
  BY <1>1, <1>2, <1>3, <1>7, <1>9 DEF Stored

(* What verify_writes tells of an entry is what the entry says.            *)
LEMMA SeenIs ==
  ASSUME TypeInv, Total <= MaxParameters, toHost # << >>, Head(toHost).kind = "entry"
  PROVE  Seen(Head(toHost)) = Head(toHost).value
<1>1. PICK frame : frame = Head(toHost)
  OBVIOUS
<1>2. PICK content : content = Entry(frame.param, frame.value)
  OBVIOUS
<1>3. /\ frame.param \in DOMAIN Kind /\ content \in Content /\ content # Stub
      /\ content.value = frame.value
  BY <1>1, <1>2, EntryFacts DEF TypeInv
<1>4. Handled(frame).params[frame.param] = content
  BY <1>2, <1>3, StoresEntry DEF TypeInv, Handled
<1>5. content # Absent
  BY <1>3, ContentAssumption
<1>6. QED
  BY <1>1, <1>3, <1>4, <1>5 DEF Seen, Looked

-----------------------------------------------------------------------------
(* What the queues hold of a parameter after a packet, request by request  *)

New(r) == r \in OwnRequest /\ r.retries = 0

LEMMA NewIsNew ==
  ASSUME NEW p \in DOMAIN Kind
  PROVE  /\ New(NewRequest(Dev, p, 0)) /\ NewRequest(Dev, p, 0).param = p
         /\ NewRequest(Dev, p, 0).dev = Dev /\ NewRequest(Dev, p, 0) # NoRequest
<1>1. NewRequest(Dev, p, 0) \in OwnRequest /\ NewRequest(Dev, p, 0).param = p
  BY NewOwnRequest
<1>2. NewRequest(Dev, p, 0).retries = 0
  BY DEF NewRequest
<1>3. QED
  BY <1>1, <1>2, NullAssumption DEF New, OwnRequest

(* A request that is tracked stays as it is, and a free slot may take one  *)
(* that is new, of a parameter that is not asked for.                      *)
LEMMA EnqueueNextSlots ==
  ASSUME NEW q, OwnQueues(q), NEW dev, BrowsedOK(dev)
  PROVE  LET next == EnqueueNextParameter(q, Dev, dev) IN
         /\ OwnQueues(next)
         /\ \A s \in Slot :
              \/ next.requests[s] = q.requests[s]
              \/ /\ q.requests[s] = NoRequest /\ New(next.requests[s])
                 /\ Asked(q.requests, Dev, next.requests[s].param) = {}
         /\ \A p : Queued(q.packets, p) # {} => Queued(next.packets, p) # {}
<1> DEFINE r == NewRequest(Dev, NextParameter(dev), 0)
           next == EnqueueNextParameter(q, Dev, dev)
<1>1. CASE next = q
  BY <1>1
<1>2. CASE ~ dev.loaded /\ Asked(q.requests, Dev, NextParameter(dev)) = {} /\ next # q
  <2>1. next = Enqueue(q, r)
    BY <1>2 DEF EnqueueNextParameter
  <2>2. New(r) /\ r.param = NextParameter(dev) /\ r \in OwnRequest
    BY <1>2, NextIsOwn, NewIsNew DEF New
  <2> HIDE DEF r, next
  <2>3. OwnQueues(next)
    BY <2>1, <2>2, EnqueueOwn
  <2>4. PICK s \in Slot : /\ q.requests[s] = NoRequest
                          /\ next.requests = [q.requests EXCEPT ![s] = r]
                          /\ next.packets \in {q.packets, Append(q.packets, ReadOf(r))}
    BY <1>2, <2>1, <2>2, EnqueueOwn
  <2>5. next.requests[s] = r /\ \A t \in Slot \ {s} : next.requests[t] = q.requests[t]
    BY <2>4 DEF OwnQueues
  <2>6. q.packets \in Seq(OwnRead) /\ ReadOf(r) \in OwnRead
    BY <2>2 DEF OwnQueues, OwnRequest, OwnRead, ReadOf, Request, Read
  <2>7. \A p : Queued(q.packets, p) \subseteq Queued(next.packets, p)
    <3>1. \A p : Queued(Append(q.packets, ReadOf(r)), p) =
                   IF ReadOf(r).param = p THEN Queued(q.packets, p) \cup {Len(q.packets) + 1}
                   ELSE Queued(q.packets, p)
      BY <2>6, QueuedAppend
    <3>2. \A p : Queued(q.packets, p) \subseteq Queued(Append(q.packets, ReadOf(r)), p)
      BY <3>1
    <3>3. QED
      BY <2>4, <3>2
  <2>8. ASSUME NEW t \in Slot
        PROVE  \/ next.requests[t] = q.requests[t]
               \/ /\ q.requests[t] = NoRequest /\ New(next.requests[t])
                  /\ Asked(q.requests, Dev, next.requests[t].param) = {}
    BY <1>2, <2>2, <2>4, <2>5
  <2>9. \A p : Queued(q.packets, p) # {} => Queued(next.packets, p) # {}
    BY <2>7
  <2>10. QED
    BY <2>3, <2>8, <2>9 DEF next
<1>3. QED
  BY <1>1, <1>2 DEF EnqueueNextParameter

(* An entry of x is taken: its requests are gone, the others stay, and a   *)
(* slot may be taken by a new one, of a parameter that is not asked for.   *)
EntryTaken(requests, packets, later, x) ==
  /\ OwnQueues(later)
  /\ \A s \in Slot :
       \/ later.requests[s] \in {NoRequest, requests[s]}
       \/ New(later.requests[s]) /\ Asked(requests, Dev, later.requests[s].param) = {}
  /\ \A s \in Slot : requests[s] # NoRequest =>
       later.requests[s] = IF requests[s].param = x THEN NoRequest ELSE requests[s]
  /\ Asked(later.requests, Dev, x) = {}
  /\ \A p : Queued(packets, p) # {} => Queued(later.packets, p) # {}

LEMMA EntrySlots ==
  ASSUME NEW q, OwnQueues(q), NEW dev, BrowsedOK(dev), NEW x
  PROVE  EntryTaken(q.requests, q.packets,
                    RemovePending(EnqueueNextParameter(q, Dev, dev), Dev, x), x)
<1> DEFINE next == EnqueueNextParameter(q, Dev, dev)
           later == RemovePending(next, Dev, x)
<1>1. /\ OwnQueues(next)
      /\ \A s \in Slot :
           \/ next.requests[s] = q.requests[s]
           \/ /\ q.requests[s] = NoRequest /\ New(next.requests[s])
              /\ Asked(q.requests, Dev, next.requests[s].param) = {}
      /\ \A p : Queued(q.packets, p) # {} => Queued(next.packets, p) # {}
  BY EnqueueNextSlots
<1> HIDE DEF next
<1>2. /\ OwnQueues(later) /\ later.packets = next.packets
      /\ \A s \in Slot : later.requests[s] =
           IF next.requests[s] # NoRequest /\ next.requests[s].param = x
             THEN NoRequest ELSE next.requests[s]
  BY <1>1, RemoveOwn
<1>3. Asked(later.requests, Dev, x) = {}
  BY <1>1, RemoveReadOnce
<1> HIDE DEF later
<1>4. QED
  BY <1>1, <1>2, <1>3 DEF later, next, EntryTaken

(* What request_parameter() tracks: as many as there is room for, each in  *)
(* a slot of its own.                                                      *)
LEMMA RequestSlots ==
  ASSUME NEW requests \in [Slot -> OwnRequest \cup {NoRequest}],
         NEW ps \in Seq(DOMAIN Kind)
  PROVE  LET q == RequestEach(requests, ps) IN
         /\ q.requests \in [Slot -> OwnRequest \cup {NoRequest}]
         /\ q.packets \in Seq(Reading)
         /\ \A s \in Slot :
              \/ q.requests[s] = requests[s]
              \/ /\ requests[s] = NoRequest /\ New(q.requests[s])
                 /\ \E i \in DOMAIN ps : q.requests[s].param = ps[i]
         /\ Len(ps) <= Cardinality(FreeSlots(requests)) =>
              \A i \in DOMAIN ps :
                /\ \E s \in Slot : q.requests[s] # NoRequest /\ q.requests[s].param = ps[i]
                /\ i \in DOMAIN q.packets /\ q.packets[i].param = ps[i]
<1> DEFINE free == SetToSeq(FreeSlots(requests))
           m == Cardinality(FreeSlots(requests))
           taken == IF Len(ps) < Len(free) THEN 1..Len(ps) ELSE DOMAIN free
           asked == [i \in taken |-> NewRequest(Dev, ps[i], 0)]
           q == RequestEach(requests, ps)
<1>1. IsFiniteSet(FreeSlots(requests))
  BY ProgramAssumption, FS_Subset DEF FreeSlots
<1>2. /\ free \in [1..m -> FreeSlots(requests)] /\ m \in Nat /\ Len(free) = m
      /\ \A i, j \in 1..m : free[i] = free[j] => i = j
      /\ DOMAIN ps = 1..Len(ps) /\ Len(ps) \in Nat
  BY <1>1, Listed
<1>3. /\ q.requests = [s \in Slot |-> IF \E i \in taken : free[i] = s
                                        THEN asked[CHOOSE i \in taken : free[i] = s]
                                        ELSE requests[s]]
      /\ DOMAIN q.packets = taken
  BY DEF RequestEach
<1>4. /\ q.requests \in [Slot -> OwnRequest \cup {NoRequest}]
      /\ q.packets \in Seq(Reading)
      /\ \A i \in DOMAIN q.packets : q.packets[i].param = ps[i]
  BY RequestEachOwn
<1> HIDE DEF q, m
<1>5. taken \subseteq 1..m /\ taken \subseteq 1..Len(ps) /\ (Len(ps) <= m => taken = 1..Len(ps))
  <2>1. DOMAIN free = 1..m
    BY <1>2
  <2>2. QED
    BY <1>2, <2>1
<1> HIDE DEF taken, free
<1>6. \A i \in taken : ps[i] \in DOMAIN Kind /\ i \in DOMAIN ps
  BY <1>2, <1>5
<1>7. \A i \in taken : New(asked[i]) /\ asked[i].param = ps[i] /\ asked[i] # NoRequest
  BY <1>6, NewIsNew
<1> HIDE DEF asked
<1>8. ASSUME NEW s \in Slot
      PROVE  \/ q.requests[s] = requests[s]
             \/ /\ requests[s] = NoRequest /\ New(q.requests[s])
                /\ \E i \in DOMAIN ps : q.requests[s].param = ps[i]
  <2>1. CASE \E i \in taken : free[i] = s
    <3>1. PICK i \in taken : free[i] = s /\ q.requests[s] = asked[i]
      BY <1>3, <2>1
    <3>2. requests[s] = NoRequest
      BY <1>2, <1>5, <3>1 DEF FreeSlots
    <3>3. QED
      BY <1>6, <1>7, <3>1, <3>2
  <2>2. CASE ~ \E i \in taken : free[i] = s
    BY <1>3, <2>2
  <2>3. QED
    BY <2>1, <2>2
<1>9. ASSUME Len(ps) <= m, NEW i \in DOMAIN ps
      PROVE  /\ \E s \in Slot : q.requests[s] # NoRequest /\ q.requests[s].param = ps[i]
             /\ i \in DOMAIN q.packets /\ q.packets[i].param = ps[i]
  <2>1. i \in taken /\ i \in 1..m
    BY <1>2, <1>5, <1>9
  <2>2. free[i] \in Slot
    BY <1>2, <2>1 DEF FreeSlots
  <2>3. \A j \in taken : free[j] = free[i] => j = i
    BY <1>2, <1>5, <2>1
  <2>4. q.requests[free[i]] = asked[i]
    BY <1>3, <2>1, <2>2, <2>3
  <2>5. QED
    BY <1>3, <1>4, <1>7, <2>1, <2>2, <2>4
<1>10. QED
  BY <1>4, <1>8, <1>9 DEF q, m
LEMMA HandledSlots ==
  ASSUME TypeInv, toHost # << >>, Head(toHost).kind = "entry"
  PROVE  EntryTaken(pending, output, QueuesHandled(Head(toHost)), Head(toHost).param)
<1>1. PICK frame : frame = Head(toHost)
  OBVIOUS
<1>2. frame.param \in DOMAIN Kind /\ Entry(frame.param, frame.value) \in Content
  BY <1>1, EntryFacts DEF TypeInv
<1>3. /\ BrowsedOK(Device0) /\ OwnQueues(Queues)
      /\ Queues.requests = pending /\ Queues.packets = output
  BY DEF TypeInv, ManagerOK, Queues
<1>4. BrowsedOK(Handled(frame))
  BY <1>2, <1>3, WithParameterBrowsed DEF Handled
<1>5. EntryTaken(Queues.requests, Queues.packets, QueuesHandled(frame), frame.param)
  BY <1>3, <1>4, EntrySlots DEF QueuesHandled
<1>6. QED
  BY <1>1, <1>3, <1>5

LEMMA EntryHandled ==
  ASSUME TypeInv, ReceiveEntry \/ VerifyEntry
  PROVE  LET frame == Head(toHost) IN
         /\ toHost # << >> /\ frame.kind = "entry" /\ toHost' = Tail(toHost)
         /\ pending' = QueuesHandled(frame).requests
         /\ output' = QueuesHandled(frame).packets
         /\ Device0' = Handled(frame)
         /\ UNCHANGED <<held, toDevice, losses, line, phase, past>>
<1>1. PICK frame : frame = Head(toHost)
  OBVIOUS
<1>2. /\ toHost # << >> /\ frame.kind = "entry" /\ toHost' = Tail(toHost)
      /\ HandleParameterEntry(Dev, frame.param, Entry(frame.param, frame.value))
      /\ UNCHANGED <<held, toDevice, losses, line, phase, past>>
  BY <1>1 DEF ReceiveEntry, VerifyEntry, Arrives
<1>3. Device0' = Handled(frame)
  BY <1>2, EntryDevice DEF Handled, TypeInv
<1>4. SetQueues(QueuesHandled(frame))
  BY <1>2 DEF HandleParameterEntry, QueuesHandled, Handled, Device0
<1>5. QED
  BY <1>1, <1>2, <1>3, <1>4 DEF SetQueues


-----------------------------------------------------------------------------
(* What a step leaves alone *)

Asks(s, p) == pending[s] # NoRequest /\ pending[s].param = p

LEMMA AskedIs ==
  ASSUME ManagerOK, NEW p
  PROVE  \A s \in Slot : /\ s \in Asked(pending, Dev, p) <=> Asks(s, p)
                         /\ Asks(s, p) => pending[s] \in OwnRequest /\ pending[s].retries \in Nat
<1>1. \A s \in Slot : pending[s] \in OwnRequest \cup {NoRequest}
  BY OwnFacts
<1>2. \A r \in OwnRequest : r.dev = Dev /\ r.retries \in Nat
  BY DEF OwnRequest, Request
<1>3. QED
  BY <1>1, <1>2 DEF Asked, Asks

(* A request that has aged is still of the same parameter.                 *)
LEMMA AgedSlots ==
  ASSUME NEW requests \in [Slot -> OwnRequest \cup {NoRequest}],
         NEW elapsed \in Nat, NEW s \in Slot
  PROVE  LET r == Aged(requests, elapsed)[s] IN
         /\ r = NoRequest <=> requests[s] = NoRequest
         /\ r # NoRequest => /\ r \in OwnRequest /\ r.param = requests[s].param
                             /\ r.retries = requests[s].retries
         /\ New(requests[s]) => New(r)
<1>1. Aged(requests, elapsed)[s] = Older(requests[s], elapsed)
  BY DEF Aged
<1>2. requests[s] \in OwnRequest \cup {NoRequest}
  OBVIOUS
<1>3. NoRequest \notin OwnRequest
  BY NullAssumption DEF OwnRequest
<1>4. QED
  BY <1>1, <1>2, <1>3, OlderOwn DEF New

LEMMA PastKept ==
  ASSUME TypeInv, [TuiNext]_allVars
  PROVE  /\ past.strays \subseteq past'.strays
         /\ ~ Refresh => past'.stalled = past.stalled
         /\ ~ SendDrained => past'.givenUp = past.givenUp
         /\ ~ GetDone => past'.cut = past.cut
<1> DEFINE only(field) == \A f \in DOMAIN past \ {field} : past'[f] = past[f]
<1>1. DOMAIN past = {"edits", "refreshes", "stalled", "givenUp", "hasty", "cut", "strays"}
  BY DEF TypeInv, Past
<1>2. CASE past' = past
  BY <1>2
<1>3. CASE Refresh
  <2> DEFINE b == Untracked
  <2>1. past' = [past EXCEPT !.refreshes = @ + 1, !.stalled = b]
    BY <1>3 DEF Refresh
  <2> HIDE DEF b
  <2>2. QED
    BY <1>1, <1>3, <2>1 DEF Refresh, SendDrained, GetDone, Browsing
<1>4. ASSUME NEW x, NEW data, WriteAndReread(x, data)
      PROVE  /\ past'.strays = past.strays /\ past'.stalled = past.stalled
             /\ past'.givenUp = past.givenUp /\ past'.cut = past.cut
  <2>1. past' = [past EXCEPT !.edits = @ + 1]
    BY ONLY <1>4, Zenon DEF WriteAndReread
  <2>2. QED
    BY <1>1, <2>1
<1>5. CASE SetStart \/ GetStart
  <2>1. PICK elapsed : past' = [past EXCEPT !.hasty = (elapsed = Timeout)]
    BY <1>5 DEF SetStart, GetStart, Overdue
  <2> DEFINE b == elapsed = Timeout
  <2>2. past' = [past EXCEPT !.hasty = b]
    BY <2>1
  <2> HIDE DEF b
  <2>3. QED
    BY <1>1, <2>2
<1>6. CASE GetDone
  <2> DEFINE b == job.remaining # {} /\ ~ AtRest
  <2>1. past' = [past EXCEPT !.cut = b]
    BY <1>6 DEF GetDone
  <2> HIDE DEF b
  <2>2. QED
    BY <1>1, <1>6, <2>1
<1>7. ASSUME NEW p, StrayEntry(p)
      PROVE  past.strays \subseteq past'.strays /\ past'.stalled = past.stalled
             /\ past'.givenUp = past.givenUp /\ past'.cut = past.cut
  <2>1. past' = [past EXCEPT !.strays = @ \cup {p}]
    BY <1>7 DEF StrayEntry
  <2>2. QED
    BY <1>1, <2>1
<1>8. CASE SendDrained
  <2>1. PICK more : past' = [past EXCEPT !.givenUp = @ \cup more]
    BY <1>8 DEF SendDrained
  <2>2. QED
    BY <1>1, <1>8, <2>1
<1>9. CASE ApplyEdit \/ ExecuteCommand \/ CancelCommand \/ PollCommand
  BY <1>4, <1>9, WritingKeys
<1>10. CASE KeyOnly \/ TimePasses \/ World \/ ReceiveEntry \/ ReceiveChunk \/ UNCHANGED allVars
  <2>1. past' = past
    BY <1>10 DEF KeyOnly, TimePasses, World, DeviceAnswers, DeviceObeys, LoseRequest, LoseReply,
                 DeviceFinishes, ReceiveEntry, ReceiveChunk, allVars, tui
  <2>2. QED
    BY <1>2, <2>1
<1>11. CASE \/ SetNothing \/ Verified \/ GiveUp \/ VerifyEntry \/ VerifyRunning
            \/ \E answer \in {Confirm, Cancel} : VerifyAsked(answer)
            \/ \E elapsed \in 1..Timeout : PromptTold(elapsed)
  <2>1. past' = past
    BY <1>11 DEF SetNothing, Verified, GiveUp, VerifyEntry, VerifyRunning, VerifyAsked, PromptTold
  <2>2. QED
    BY <1>2, <2>1
<1>12. QED
  BY <1>3, <1>5, <1>6, <1>7, <1>8, <1>9, <1>10, <1>11, KeyKinds DEF TuiNext, Jobs, Packets

(* The program's line of commands stays, and what was asked of the user    *)
(* stays asked.                                                            *)
LEMMA LineStays == [TuiNext]_allVars => line' = line
<1>1. Keys => line' = line
  <2>1. ASSUME NEW x, NEW data, WriteAndReread(x, data) PROVE line' = line
    BY ONLY <2>1, Zenon DEF WriteAndReread
  <2>2. KeyOnly \/ Refresh => line' = line
    BY DEF KeyOnly, Refresh
  <2>3. ApplyEdit \/ ExecuteCommand \/ CancelCommand \/ PollCommand => line' = line
    BY <2>1 DEF ApplyEdit, ExecuteCommand, CancelCommand, PollCommand, Answered
  <2>4. QED
    BY <2>2, <2>3, KeyKinds
<1>2. Jobs => line' = line
  <2>1. ASSUME NEW answer, VerifyAsked(answer) PROVE line' = line
    BY ONLY <2>1, Zenon DEF VerifyAsked
  <2>2. SetStart \/ GetStart \/ VerifyRunning => line' = line
    BY DEF SetStart, GetStart, VerifyRunning
  <2>3. QED
    BY <2>1, <2>2 DEF Jobs, SetNothing, GetDone, Verified, GiveUp, VerifyEntry, StrayEntry,
                      PromptTold
<1>3. Packets \/ World \/ UNCHANGED allVars => line' = line
  BY DEF Packets, ReceiveEntry, ReceiveChunk, SendDrained, TimePasses, World, DeviceAnswers,
         DeviceObeys, LoseRequest, LoseReply, DeviceFinishes, allVars, tui
<1>4. QED
  BY <1>1, <1>2, <1>3 DEF TuiNext

LEMMA PromptStays ==
  ASSUME JobOK, [TuiNext]_allVars, Prompted
  PROVE  Prompted'
<1>1. line' = line
  BY LineStays
<1>2. Jobs => job.asked \subseteq job'.asked
  BY DEF Jobs, SetStart, SetNothing, GetStart, GetDone, Verified, GiveUp, VerifyEntry,
         VerifyRunning, VerifyAsked, StrayEntry, PromptTold, JobOK
<1>3. Keys => job' = job
  <2>1. ASSUME NEW x, NEW data, WriteAndReread(x, data) PROVE job' = job
    BY ONLY <2>1, Zenon DEF WriteAndReread
  <2>2. KeyOnly \/ Refresh => job' = job
    BY DEF KeyOnly, Refresh
  <2>3. ApplyEdit \/ ExecuteCommand \/ CancelCommand \/ PollCommand => job' = job
    BY <2>1 DEF ApplyEdit, ExecuteCommand, CancelCommand, PollCommand, Answered
  <2>4. QED
    BY <2>2, <2>3, KeyKinds
<1>4. Packets => job'.asked = job.asked
  BY DEF Packets, ReceiveEntry, ReceiveChunk, Noted, SendDrained, TimePasses, tui, JobOK
<1>5. World \/ UNCHANGED allVars => job' = job
  BY DEF World, DeviceAnswers, DeviceObeys, LoseRequest, LoseReply, DeviceFinishes, allVars, tui
<1>6. QED
  BY <1>1, <1>2, <1>3, <1>4, <1>5 DEF TuiNext, Prompted

-----------------------------------------------------------------------------
(* While the manager enumerates, a device marked loaded has all of its     *)
(* parameters, and the root, once it has arrived, is not asked for again.  *)
SoughtOnce(requests, stored, p) ==
  /\ AtMostOne(Asked(requests, Dev, p))
  /\ p \in stored => Asked(requests, Dev, p) = {}

LoadedFull ==
  Enumerating => AllStored(Device0) /\ SoughtOnce(pending, Shown, 0)

LEMMA SoughtFewer ==
  ASSUME NEW requests, NEW stored, NEW p, SoughtOnce(requests, stored, p),
         NEW later, Asked(later, Dev, p) \subseteq Asked(requests, Dev, p),
         NEW fewer, p \in fewer => p \in stored
  PROVE  SoughtOnce(later, fewer, p)
BY DEF SoughtOnce, AtMostOne

(* The manager asks for what is missing only, and once.                    *)
LEMMA SoughtNext ==
  ASSUME NEW q, OwnQueues(q), NEW dev, BrowsedOK(dev), NEW p,
         SoughtOnce(q.requests, Stored(dev), p)
  PROVE  SoughtOnce(EnqueueNextParameter(q, Dev, dev).requests, Stored(dev), p)
<1> DEFINE next == NextParameter(dev)
           r == NewRequest(Dev, next, 0)
           later == EnqueueNextParameter(q, Dev, dev)
<1>1. CASE later = q
  BY <1>1
<1>2. CASE ~ dev.loaded /\ Asked(q.requests, Dev, next) = {} /\ later # q
  <2>1. later = Enqueue(q, r)
    BY <1>2 DEF EnqueueNextParameter
  <2>2. next \in DOMAIN Kind /\ next \notin Stored(dev)
    BY <1>2, NextIsOwn
  <2>3. r \in OwnRequest /\ r.param = next
    BY <2>2, NewOwnRequest
  <2> HIDE DEF r, later
  <2>4. PICK s \in Slot : q.requests[s] = NoRequest /\ later.requests = [q.requests EXCEPT ![s] = r]
    BY <1>2, <2>1, <2>3, EnqueueOwn
  <2> HIDE DEF next
  <2>5. \A t \in Slot : later.requests[t] = IF t = s THEN r ELSE q.requests[t]
    BY <2>4 DEF OwnQueues
  <2>6. CASE p = next
    <3>1. \A t \in Asked(later.requests, Dev, p) : t = s
      BY <1>2, <2>5, <2>6 DEF Asked
    <3>2. QED
      BY <2>2, <2>6, <3>1 DEF SoughtOnce, AtMostOne, later
  <2>7. CASE p # next
    <3>1. Asked(later.requests, Dev, p) \subseteq Asked(q.requests, Dev, p)
      BY <2>3, <2>5, <2>7 DEF Asked
    <3>2. QED
      BY <3>1, SoughtFewer DEF later
  <2>8. QED
    BY <2>6, <2>7
<1>3. QED
  BY <1>1, <1>2 DEF EnqueueNextParameter

LEMMA SoughtEntry ==
  ASSUME TypeInv, toHost # << >>, Head(toHost).kind = "entry", NEW p,
         SoughtOnce(pending, Shown, p)
  PROVE  SoughtOnce(QueuesHandled(Head(toHost)).requests, Stored(Handled(Head(toHost))), p)
<1>1. PICK frame : frame = Head(toHost)
  OBVIOUS
<1>2. PICK dev : dev = Handled(frame)
  OBVIOUS
<1>3. PICK x : x = frame.param
  OBVIOUS
<1>4. x \in DOMAIN Kind /\ Entry(x, frame.value) \in Content
  BY <1>1, <1>3, EntryFacts DEF TypeInv
<1>5. /\ BrowsedOK(Device0) /\ OwnQueues(Queues) /\ Queues.requests = pending
  BY DEF TypeInv, ManagerOK, Queues
<1>6. BrowsedOK(dev) /\ Stored(dev) \in {Shown, Shown \cup {x}}
  BY <1>2, <1>3, <1>4, <1>5, WithParameterBrowsed DEF Handled, Shown
<1> DEFINE next == EnqueueNextParameter(Queues, Dev, dev)
<1>7. QueuesHandled(frame) = RemovePending(next, Dev, x)
  BY <1>2, <1>3 DEF QueuesHandled
<1>8. OwnQueues(next)
  BY <1>5, <1>6, EnqueueNextSlots
<1>9. CASE p = x
  <2> HIDE DEF next
  <2>1. Asked(RemovePending(next, Dev, x).requests, Dev, p) = {}
    BY <1>8, <1>9, RemoveReadOnce
  <2>2. QED
    BY <1>1, <1>7, <2>1 DEF SoughtOnce, AtMostOne
<1>10. CASE p # x
  <2>1. SoughtOnce(Queues.requests, Stored(dev), p)
    BY <1>5, <1>6, <1>10, SoughtFewer
  <2>2. SoughtOnce(next.requests, Stored(dev), p)
    BY <1>5, <1>6, <2>1, SoughtNext
  <2> HIDE DEF next
  <2>3. Asked(RemovePending(next, Dev, x).requests, Dev, p) \subseteq Asked(next.requests, Dev, p)
    BY <1>8, RemoveOwn DEF Asked
  <2>4. SoughtOnce(RemovePending(next, Dev, x).requests, Stored(dev), p)
    BY <2>2, <2>3, SoughtFewer
  <2>5. QED
    BY <1>1, <1>2, <1>7, <2>4
<1>11. QED
  BY <1>9, <1>10

(* What the drained, and the told, requests are of. *)
LEMMA ExpiredAsked ==
  ASSUME ManagerOK, SendDrained \/ \E elapsed \in Nat : UpdateTime(elapsed), NEW p
  PROVE  Asked(pending', Dev, p) \subseteq Asked(pending, Dev, p)
<1>1. pending \in [Slot -> OwnRequest \cup {NoRequest}]
  BY OwnFacts
<1>2. CASE SendDrained
  <2>1. pending' = [s \in Slot |-> Expire(pending[s])]
    BY <1>2 DEF SendDrained, DrainAll
  <2>2. ASSUME NEW s \in Slot, Expire(pending[s]) # NoRequest
        PROVE  /\ pending[s] # NoRequest /\ Expire(pending[s]).param = pending[s].param
               /\ Expire(pending[s]).dev = pending[s].dev
    <3>1. pending[s] # NoRequest
      BY <2>2 DEF Expire, Due
    <3>2. pending[s] \in OwnRequest
      BY <1>1, <3>1
    <3>3. QED
      BY <2>2, <3>1, <3>2 DEF Expire, OwnRequest, Request
  <2>3. QED
    BY <2>1, <2>2 DEF Asked
<1>3. CASE \E elapsed \in Nat : UpdateTime(elapsed)
  <2>1. PICK elapsed \in Nat : pending' = [s \in Slot |-> Older(pending[s], elapsed)]
    BY <1>3 DEF UpdateTime
  <2>2. ASSUME NEW s \in Slot, Older(pending[s], elapsed) # NoRequest
        PROVE  /\ pending[s] # NoRequest /\ Older(pending[s], elapsed).param = pending[s].param
               /\ pending[s].dev = Dev
    <3>1. pending[s] # NoRequest
      BY <2>2 DEF Older
    <3>2. pending[s] \in OwnRequest
      BY <1>1, <3>1
    <3>3. QED
      BY <3>1, <3>2, OlderOwn DEF OwnRequest
  <2>3. QED
    BY <2>1, <2>2 DEF Asked
<1>4. QED
  BY <1>2, <1>3

LEMMA WriteSought ==
  ASSUME TypeInv, NEW x, NEW data, Writable(x, data), past.edits < MaxEdits,
         WriteAndReread(x, data), SoughtOnce(pending, Shown, 0)
  PROVE  SoughtOnce(pending, Shown, 0)'
<1>1. x # 0 /\ x \in DOMAIN Kind /\ Shown' = Shown \ {x}
  BY WriteType, DeviceAssumption DEF Writable
<1>2. pending \in [Slot -> OwnRequest \cup {NoRequest}]
  BY OwnFacts DEF TypeInv
<1>3. pending' = RequestEach(pending, <<x>>).requests
  BY ONLY WriteAndReread(x, data), Zenon DEF WriteAndReread
<1>4. NewRequest(Dev, x, 0).param = x
  BY <1>1, NewOwnRequest
<1>5. \A s \in Slot : pending'[s] = pending[s] \/ pending'[s].param = x
  <2> DEFINE r == NewRequest(Dev, x, 0)
             q == RequestEach(pending, <<x>>)
  <2>1. \/ q.requests = pending /\ q.packets = << >>
        \/ \E s \in Slot : /\ pending[s] = NoRequest
                          /\ q.requests = [pending EXCEPT ![s] = r]
                          /\ Len(q.packets) = 1
    BY <1>1, <1>2, RequestOne
  <2> HIDE DEF q, r
  <2>2. QED
    BY <1>2, <1>3, <1>4, <2>1 DEF q, r
<1>6. Asked(pending', Dev, 0) \subseteq Asked(pending, Dev, 0)
  BY <1>1, <1>5 DEF Asked
<1>7. QED
  BY <1>1, <1>6 DEF SoughtOnce, AtMostOne

LEMMA LoadedFullStep ==
  ASSUME Long = {}, TypeInv, LoadedFull, [TuiNext]_allVars
  PROVE  LoadedFull'
<1> SUFFICES ASSUME Enumerating' PROVE AllStored(Device0)' /\ SoughtOnce(pending, Shown, 0)'
  BY DEF LoadedFull
<1>1. Enumerating /\ ~ Jobs
  BY EnumeratingOnly
<1>2. AllStored(Device0) /\ SoughtOnce(pending, Shown, 0) /\ ManagerOK /\ LineOK
  BY <1>1 DEF LoadedFull, TypeInv
<1>3. ASSUME devices' = devices, Asked(pending', Dev, 0) \subseteq Asked(pending, Dev, 0)
      PROVE  AllStored(Device0)' /\ SoughtOnce(pending, Shown, 0)'
  <2>1. Device0' = Device0 /\ Shown' = Shown
    BY <1>3 DEF Device0, Shown
  <2>2. QED
    BY <1>2, <1>3, <2>1 DEF SoughtOnce, AtMostOne
<1>4. CASE Refresh
  <2>1. AllStored(Device0)'
    BY <1>4, LoadedNoMore DEF AllStored
  <2>2. Shown' = {} /\ pending' = pending
    BY <1>4, RefreshType DEF Refresh
  <2>3. QED
    BY <1>2, <2>1, <2>2 DEF SoughtOnce
<1>5. CASE ApplyEdit \/ ExecuteCommand \/ CancelCommand \/ PollCommand
  <2>1. PICK x, data : WriteAndReread(x, data) /\ Writable(x, data) /\ past.edits < MaxEdits
    BY <1>5, WritingKeys
  <2>2. AllStored(Device0)'
    BY <2>1, LoadedNoMore DEF AllStored
  <2>3. QED
    BY <1>2, <2>1, <2>2, WriteSought
<1>6. CASE ReceiveEntry
  <2>1. /\ toHost # << >> /\ Head(toHost).kind = "entry"
        /\ pending' = QueuesHandled(Head(toHost)).requests
        /\ Device0' = Handled(Head(toHost))
    BY <1>6, EntryHandled
  <2>2. /\ Head(toHost).param \in DOMAIN Kind
        /\ Entry(Head(toHost).param, Head(toHost).value) \in Content
    BY <1>2, <2>1, EntryFacts
  <2>3. AllStored(Handled(Head(toHost)))
    BY <1>2, <2>2, StoredAll DEF ManagerOK, Handled
  <2>4. SoughtOnce(QueuesHandled(Head(toHost)).requests, Stored(Handled(Head(toHost))), 0)
    BY <1>2, <2>1, SoughtEntry
  <2>5. QED
    BY <2>1, <2>3, <2>4 DEF Shown, AllStored
<1>7. CASE SendDrained \/ TimePasses
  <2>1. devices' = devices
    BY <1>7 DEF SendDrained, DrainAll, TimePasses, UpdateTime
  <2>2. SendDrained \/ \E elapsed \in Nat : UpdateTime(elapsed)
    BY <1>7 DEF TimePasses
  <2>3. QED
    BY <1>2, <1>3, <2>1, <2>2, ExpiredAsked
<1>8. CASE KeyOnly \/ World \/ UNCHANGED allVars
  <2>1. devices' = devices /\ pending' = pending
    BY <1>8 DEF KeyOnly, World, DeviceAnswers, DeviceObeys, LoseRequest, LoseReply,
                DeviceFinishes, allVars, vars
  <2>2. QED
    BY <1>3, <2>1
<1>9. QED
  BY <1>1, <1>2, <1>4, <1>5, <1>6, <1>7, <1>8, KeyKinds, NoChunks DEF TuiNext, Packets

-----------------------------------------------------------------------------
(* `set`, `export` and the browser: which step is whose *)

(* How the jobs begin, by what they send.                                  *)
LEMMA SetStartFacts ==
  ASSUME TypeInv, SetStart
  PROVE  \E ids \in Seq(DOMAIN Kind), writes \in Seq(Writing) :
           LET q == RequestEach(pending, ids) IN
           /\ q.packets \in Seq(Reading)
           /\ toDevice' = toDevice \o (writes \o q.packets)
           /\ \E elapsed \in Nat : pending' = Aged(q.requests, elapsed)
           /\ job' = [job EXCEPT !.ids = ids] /\ Len(ids) = Len(Resolved)
           /\ phase \in {"load", "start"} /\ phase' = "verify" /\ line.command # "get"
           /\ UNCHANGED <<output, held, toHost, losses, line>>
<1> DEFINE ids == [i \in DOMAIN Resolved |-> Resolved[i].param]
           q == RequestEach(pending, ids)
           writes == [i \in DOMAIN Resolved |-> WriteFrame(Resolved[i].param, Resolved[i].to.data)]
           n == Len(Resolved)
<1>1. /\ \A i \in 1..n : Writable(Resolved[i].param, Resolved[i].to.data)
      /\ n \in Nat /\ DOMAIN Resolved = 1..n
  BY WritesType
<1>2. ids \in Seq(DOMAIN Kind) /\ Len(ids) = n
  BY <1>1 DEF Writable
<1>3. writes \in Seq(Writing)
  BY <1>1, WriteFrameType
<1>4. /\ toDevice' = toDevice \o (writes \o q.packets)
      /\ \E elapsed \in FirstTold : pending' = Aged(q.requests, elapsed)
      /\ job' = [job EXCEPT !.ids = ids] /\ phase' = "verify" /\ line.command # "get"
      /\ phase \in {"load", "start"}
      /\ UNCHANGED <<output, held, toHost, losses, line>>
  BY DEF SetStart, MayStart, WritesThenReads
<1> HIDE DEF ids, writes, n
<1>5. q.packets \in Seq(Reading)
  BY <1>2, OwnFacts, RequestEachOwn DEF TypeInv
<1>6. Len(ids) = Len(Resolved)
  BY <1>2 DEF n
<1>7. QED
  BY <1>2, <1>3, <1>4, <1>5, <1>6, FirstToldNat

LEMMA GetStartFacts ==
  ASSUME TypeInv, GetStart
  PROVE  \E ids \in Seq(DOMAIN Kind) :
           LET q == RequestEach(pending, ids) IN
           /\ q.packets \in Seq(Reading)
           /\ toDevice' = toDevice \o q.packets
           /\ \E elapsed \in Nat : pending' = Aged(q.requests, elapsed)
           /\ job' = [job EXCEPT !.ids = ids, !.remaining = ToSet(ids)]
           /\ Len(ids) = Len(line.writes)
           /\ phase = "start" /\ phase' = "get"
           /\ UNCHANGED <<devices, output, held, toHost, losses, line>>
<1> DEFINE writes == line.writes
           ids == [i \in DOMAIN writes |-> writes[i].param]
           q == RequestEach(pending, ids)
<1>1. ManagerOK /\ AppOK
  BY DEF TypeInv
<1>2. ids \in Seq(DOMAIN Kind) /\ Len(ids) = Len(writes)
  <2> DEFINE Write == [param : DOMAIN Kind, text : STRING]
  <2>1. writes \in Seq(Write) /\ \A w \in Write : w.param \in DOMAIN Kind
    BY <1>1, ProgramAssumption DEF AppOK
  <2> HIDE DEF Write, writes
  <2>2. DOMAIN writes = 1..Len(writes) /\ Len(writes) \in Nat
    BY <2>1
  <2>3. \A i \in DOMAIN writes : writes[i].param \in DOMAIN Kind
    BY <2>1
  <2>4. QED
    BY <2>2, <2>3
<1>3. /\ toDevice' = toDevice \o q.packets
      /\ \E elapsed \in FirstTold : pending' = Aged(q.requests, elapsed)
      /\ job' = [job EXCEPT !.ids = ids, !.remaining = ToSet(ids)]
      /\ phase = "start" /\ phase' = "get"
      /\ UNCHANGED <<devices, output, held, toHost, losses, line>>
  BY DEF GetStart
<1> HIDE DEF ids
<1>4. q.packets \in Seq(Reading)
  BY <1>1, <1>2, OwnFacts, RequestEachOwn
<1>5. /\ ids \in Seq(DOMAIN Kind) /\ Len(ids) = Len(line.writes)
      /\ q.packets \in Seq(Reading)
      /\ toDevice' = toDevice \o q.packets
      /\ \E elapsed \in Nat : pending' = Aged(q.requests, elapsed)
      /\ job' = [job EXCEPT !.ids = ids, !.remaining = ToSet(ids)]
      /\ phase = "start" /\ phase' = "get"
      /\ UNCHANGED <<devices, output, held, toHost, losses, line>>
  BY <1>2, <1>3, <1>4, FirstToldNat
<1>6. QED
  BY ONLY <1>5, Zenon

(* How verify_writes goes on when a command still runs, and when the       *)
(* device asks back.                                                       *)
LEMMA VerifyRunningFacts ==
  ASSUME TypeInv, VerifyRunning
  PROVE  LET x == Head(toHost).param
             left == QueuesHandled(Head(toHost))
             q == RequestEach(left.requests, <<x>>)
         IN  /\ toHost # << >> /\ Head(toHost).kind = "entry" /\ toHost' = Tail(toHost)
             /\ phase = "verify" /\ Awaited(x) /\ Kind[x] = "command" /\ x \in DOMAIN Kind
             /\ OwnQueues(left) /\ q.packets \in Seq(Reading)
             /\ pending' = q.requests /\ output' = left.packets
             /\ toDevice' = toDevice \o q.packets
             /\ UNCHANGED <<held, losses, line, phase, job, past>>
<1> DEFINE frame == Head(toHost)
           left == QueuesHandled(frame)
           q == RequestEach(left.requests, <<frame.param>>)
<1>1. /\ toHost # << >> /\ Head(toHost).kind = "entry" /\ phase = "verify"
      /\ Awaited(frame.param) /\ Kind[frame.param] = "command"
      /\ pending' = q.requests /\ output' = left.packets
      /\ toDevice' = toDevice \o q.packets
      /\ toHost' = Tail(toHost)
      /\ UNCHANGED <<held, losses, line, phase, job, past>>
  BY DEF VerifyRunning, Arrives, Running
<1>2. frame.param \in DOMAIN Kind /\ OwnQueues(left)
  BY <1>1, HandledFacts
<1> HIDE DEF left, frame
<1>3. <<frame.param>> \in Seq(DOMAIN Kind) /\ left.requests \in [Slot -> OwnRequest \cup {NoRequest}]
  BY <1>2 DEF OwnQueues
<1>4. q.packets \in Seq(Reading)
  BY <1>3, RequestEachOwn
<1> HIDE DEF q
<1>5. QED
  BY <1>1, <1>2, <1>4 DEF left, frame, q

LEMMA VerifyAskedFacts ==
  ASSUME TypeInv, NEW answer \in {Confirm, Cancel}, VerifyAsked(answer)
  PROVE  LET x == Head(toHost).param
             left == QueuesHandled(Head(toHost))
         IN  /\ toHost # << >> /\ Head(toHost).kind = "entry" /\ toHost' = Tail(toHost)
             /\ phase = "verify" /\ Awaited(x) /\ Kind[x] = "command" /\ x \in DOMAIN Kind
             /\ OwnQueues(left)
             /\ pending' = left.requests /\ output' = left.packets
             /\ toDevice' = Append(toDevice, WriteFrame(x, answer))
             /\ WriteFrame(x, answer) \in Writing
             /\ job' = [job EXCEPT !.asked = @ \cup {x}, !.late = ~ line.confirm]
             /\ UNCHANGED <<held, losses, line, phase, past>>
<1> DEFINE frame == Head(toHost)
           left == QueuesHandled(frame)
<1>1. /\ toHost # << >> /\ Head(toHost).kind = "entry" /\ phase = "verify"
      /\ Awaited(frame.param) /\ Kind[frame.param] = "command"
      /\ pending' = left.requests /\ output' = left.packets
      /\ toDevice' = Append(toDevice, WriteFrame(frame.param, answer))
      /\ job' = [job EXCEPT !.asked = @ \cup {frame.param}, !.late = ~ line.confirm]
      /\ toHost' = Tail(toHost)
      /\ UNCHANGED <<held, losses, line, phase, past>>
  BY DEF VerifyAsked, Arrives, AsksBack, SetQueues
<1>2. frame.param \in DOMAIN Kind /\ OwnQueues(left)
  BY <1>1, HandledFacts
<1> HIDE DEF left, frame
<1>3. Writable(frame.param, answer)
  BY <1>1, <1>2, ValuesNat DEF Writable
<1>4. WriteFrame(frame.param, answer) \in Writing
  BY <1>3, WriteFrameType
<1>5. QED
  BY <1>1, <1>2, <1>4 DEF left, frame

(* The keys are the browser's, and the jobs are those of the other         *)
(* programs.                                                               *)
LEMMA KeysBrowse == AppOK /\ Keys => phase = "tui"
<1> SUFFICES ASSUME AppOK, Keys PROVE phase = "tui"
  OBVIOUS
<1>1. Browsing \/ Asking => phase = "tui"
  BY DEF Browsing, AppOK
<1>2. Down \/ Up \/ SelectFolder \/ SelectCommand \/ SelectOption => Browsing
  BY DEF Down, Up, SelectFolder, SelectCommand, SelectOption
<1>3. GoBack \/ Refresh \/ PollCommand => Browsing
  BY DEF GoBack, Refresh, PollCommand
<1>4. \A text : Type(text) => Asking
  BY DEF Type, Asking
<1>5. \A step : Arrow(step) => Asking
  BY DEF Arrow, Asking
<1>6. Dismiss \/ ApplyEdit \/ ApplyNothing \/ AnswerNothing => Asking
  BY DEF Dismiss, ApplyEdit, ApplyNothing, AnswerNothing, Asking
<1>7. ExecuteCommand \/ CancelCommand => Asking
  BY DEF ExecuteCommand, CancelCommand, Answered, Asking
<1>8. QED
  BY <1>1, <1>2, <1>3, <1>4, <1>5, <1>6, <1>7 DEF Keys

LEMMA JobsBrowseNot == Jobs => phase # "tui" /\ phase # "exit"
BY DEF Jobs, SetStart, SetNothing, GetStart, GetDone, Verified, GiveUp, MayStart,
       VerifyEntry, VerifyRunning, VerifyAsked, StrayEntry, PromptTold, Arrives

LEMMA OutsideBrowser ==
  ASSUME AppOK, [TuiNext]_allVars, phase' # "tui"
  PROVE  phase # "tui" /\ (Jobs \/ Packets \/ World \/ UNCHANGED allVars)
<1>1. phase # "tui"
  BY PhaseKept, JobsBrowseNot
<1>2. QED
  BY <1>1, KeysBrowse DEF TuiNext

(* A program that does not load first begins where discovery has left the  *)
(* manager.                                                                *)
StartOK ==
  phase = "start" =>
    /\ pending = Discovered.requests /\ output = Discovered.packets
    /\ toDevice = << >> /\ toHost = << >> /\ Shown = {}

LEMMA StartStep ==
  ASSUME AppOK, StartOK, [TuiNext]_allVars
  PROVE  StartOK'
<1> SUFFICES ASSUME phase' = "start" PROVE StartOK'
  BY DEF StartOK
<1>1. phase = "start" /\ (Packets \/ World \/ UNCHANGED allVars)
  <2>1. ~ Jobs
    BY DEF Jobs, SetStart, SetNothing, GetStart, GetDone, Verified, GiveUp,
           VerifyEntry, VerifyRunning, VerifyAsked, StrayEntry, PromptTold
  <2>2. QED
    BY <2>1, PhaseKept, OutsideBrowser
<1>2. toDevice = << >> /\ toHost = << >>
  BY <1>1 DEF StartOK
<1>3. ~ Packets
  BY <1>1 DEF Packets, ReceiveEntry, ReceiveChunk, SendDrained, TimePasses, Draining, Arrives
<1>4. UNCHANGED <<vars, toDevice, toHost>>
  BY <1>1, <1>2, <1>3 DEF World, DeviceAnswers, DeviceObeys, LoseRequest, LoseReply,
     DeviceFinishes, allVars, wire
<1>5. Shown' = Shown
  BY <1>4 DEF vars, Shown, Device0
<1>6. QED
  BY <1>1, <1>4, <1>5 DEF StartOK, vars

-----------------------------------------------------------------------------
(* What is asked of the user, and of which program *)

Commands ==
  /\ phase = "verify" => line.command # "get"
  /\ phase \in {"start", "load", "tui"} => job.asked = {}
  /\ phase \in {"start", "load"} => job.ids = << >>
  /\ job.late => Prompted

LEMMA JobKept ==
  ASSUME TypeInv, [TuiNext]_allVars, ~ Jobs
  PROVE  /\ job'.ids = job.ids /\ job'.told = job.told
         /\ job'.asked = job.asked /\ job'.late = job.late
<1>1. DOMAIN job = {"ids", "remaining", "told", "asked", "late"}
  BY DEF TypeInv, JobOK
<1>2. CASE job' = job
  BY <1>2
<1>3. CASE ReceiveEntry \/ ReceiveChunk
  <2>1. job' = job \/ \E left : job' = [job EXCEPT !.remaining = left]
    BY <1>3 DEF ReceiveEntry, ReceiveChunk, Noted
  <2>2. QED
    BY <1>1, <2>1
<1>4. CASE Keys
  <2>1. ASSUME NEW x, NEW data, WriteAndReread(x, data) PROVE job' = job
    BY ONLY <2>1, Zenon DEF WriteAndReread
  <2>2. KeyOnly \/ Refresh => job' = job
    BY DEF KeyOnly, Refresh
  <2>3. ApplyEdit \/ ExecuteCommand \/ CancelCommand \/ PollCommand => job' = job
    BY <2>1 DEF ApplyEdit, ExecuteCommand, CancelCommand, PollCommand, Answered
  <2>4. QED
    BY <1>2, <1>4, <2>2, <2>3, KeyKinds
<1>5. CASE SendDrained \/ TimePasses \/ World \/ UNCHANGED allVars
  <2>1. job' = job
    BY <1>5 DEF SendDrained, TimePasses, World, DeviceAnswers, DeviceObeys, LoseRequest, LoseReply,
                DeviceFinishes, allVars, tui
  <2>2. QED
    BY <1>2, <2>1
<1>6. QED
  BY <1>3, <1>4, <1>5 DEF TuiNext, Packets

(* What a job's own step does to its locals, but for what it is told.      *)
LEMMA JobMoves ==
  ASSUME TypeInv, Jobs
  PROVE  /\ phase' \in {"verify", "get", "exit"}
         /\ ~ SetStart => phase' # "verify" \/ phase = "verify"
         /\ job'.late = job.late \/ job'.late = FALSE
              \/ (job'.late = ~ line.confirm /\ job'.asked # {})
<1>1. DOMAIN job = {"ids", "remaining", "told", "asked", "late"}
  BY DEF TypeInv, JobOK
<1>2. /\ phase' \in {"verify", "get", "exit"}
      /\ ~ SetStart => phase' # "verify" \/ phase = "verify"
  <2>1. SetStart => phase' = "verify"
    BY DEF SetStart
  <2>2. SetNothing \/ GetStart \/ GetDone \/ Verified \/ GiveUp => phase' \in {"get", "exit"}
    BY DEF SetNothing, GetStart, GetDone, Verified, GiveUp
  <2>3. VerifyEntry \/ VerifyRunning => phase' = phase /\ phase = "verify"
    BY DEF VerifyEntry, VerifyRunning
  <2>4. \A answer : VerifyAsked(answer) => phase' = phase /\ phase = "verify"
    BY DEF VerifyAsked
  <2>5. \A p, elapsed : StrayEntry(p) \/ PromptTold(elapsed) => phase' = phase /\ phase = "verify"
    BY DEF StrayEntry, PromptTold
  <2>6. QED
    BY <2>1, <2>2, <2>3, <2>4, <2>5 DEF Jobs
<1>3. CASE \E answer \in {Confirm, Cancel} : VerifyAsked(answer)
  <2> DEFINE late == ~ line.confirm
  <2>1. PICK x : job' = [job EXCEPT !.asked = @ \cup {x}, !.late = late]
    BY ONLY <1>3, Zenon DEF VerifyAsked
  <2> HIDE DEF late
  <2>2. job'.late = late /\ x \in job'.asked
    BY <1>1, <2>1
  <2>3. job'.late = ~ line.confirm /\ job'.asked # {}
    <3>1. job'.late = ~ line.confirm
      BY ONLY <2>2, Zenon DEF late
    <3>2. QED
      BY <2>2, <3>1
  <2>4. QED
    BY <1>2, <2>3
<1>4. CASE \E elapsed \in 1..Timeout : PromptTold(elapsed)
  <2>1. job' = [job EXCEPT !.late = FALSE]
    BY <1>4 DEF PromptTold
  <2>2. QED
    BY <1>1, <1>2, <2>1
<1>5. CASE \/ SetStart \/ SetNothing \/ GetStart \/ GetDone \/ Verified \/ GiveUp
           \/ VerifyEntry \/ VerifyRunning \/ \E p \in DOMAIN Kind : StrayEntry(p)
  <2>1. CASE SetStart
    <3>1. PICK ids : job' = [job EXCEPT !.ids = ids]
      BY ONLY <2>1, Zenon DEF SetStart
    <3>2. QED
      BY <1>1, <1>2, <3>1
  <2>2. CASE GetStart
    <3>1. PICK ids, left : job' = [job EXCEPT !.ids = ids, !.remaining = left]
      BY ONLY <2>2, Zenon DEF GetStart
    <3>2. QED
      BY <1>1, <1>2, <3>1
  <2>3. CASE GetDone \/ VerifyEntry \/ \E p \in DOMAIN Kind : StrayEntry(p)
    <3>1. job' = job \/ \E told : job' = [job EXCEPT !.told = told]
      BY <2>3 DEF GetDone, VerifyEntry, StrayEntry
    <3>2. QED
      BY <1>1, <1>2, <3>1
  <2>4. CASE SetNothing \/ Verified \/ GiveUp \/ VerifyRunning
    BY <1>2, <2>4 DEF SetNothing, Verified, GiveUp, VerifyRunning
  <2>5. QED
    BY <1>5, <2>1, <2>2, <2>3, <2>4
<1>6. QED
  BY ONLY Jobs, <1>3, <1>4, <1>5, Zenon DEF Jobs

LEMMA CommandsStep ==
  ASSUME TypeInv, Commands, [TuiNext]_allVars
  PROVE  Commands'
<1>1. line' = line
  BY LineStays
<1>2. CASE ~ Jobs
  <2>1. phase' = phase
    BY <1>2, PhaseKept
  <2>2. job'.ids = job.ids /\ job'.asked = job.asked /\ job'.late = job.late
    BY <1>2, JobKept
  <2>3. QED
    BY <1>1, <2>1, <2>2 DEF Commands, Prompted
<1>3. CASE Jobs
  <2>1. /\ phase' \in {"verify", "get", "exit"}
        /\ ~ SetStart => phase' # "verify" \/ phase = "verify"
        /\ job'.late = job.late \/ job'.late = FALSE
             \/ (job'.late = ~ line.confirm /\ job'.asked # {})
    BY <1>3, JobMoves
  <2>2. SetStart => line.command # "get"
    BY DEF SetStart
  <2>3. phase' = "verify" => line'.command # "get"
    BY <1>1, <2>1, <2>2 DEF Commands
  <2>4. job'.late => Prompted'
    <3>1. CASE job'.late = job.late
      <4>1. job.late => Prompted'
        BY PromptStays DEF Commands, TypeInv
      <4>2. QED
        BY <3>1, <4>1, Zenon
    <3>2. CASE job'.late = FALSE
      BY <3>2, Zenon
    <3>3. CASE job'.late = ~ line.confirm /\ job'.asked # {}
      BY ONLY <1>1, <3>3, Zenon DEF Prompted
    <3>4. QED
      BY <2>1, <3>1, <3>2, <3>3
  <2>5. QED
    BY <2>1, <2>3, <2>4 DEF Commands
<1>4. QED
  BY <1>2, <1>3

-----------------------------------------------------------------------------
(* Where a job begins *)

(* When `set` begins nothing is on its way that could answer for what it   *)
(* writes, but of the root.                                                *)
LEMMA QuietBefore ==
  ASSUME ReadOnce, LoadedFull, StartOK, MayStart, NEW p \in Plain \ {0}
  PROVE  /\ Sent(toDevice, "read", p) = {} /\ Sent(toHost, "entry", p) = {}
         /\ phase = "load" => Asked(pending, Dev, p) = {} /\ Queued(output, p) = {}
<1>1. CASE phase = "load"
  <2>1. p \in Shown
    BY <1>1 DEF MayStart, LoadedFull, Enumerating, AllStored, Shown, Plain
  <2>2. OneRead(Queues, toDevice, toHost, p) /\ Asked(pending, Dev, p) = {}
    BY <1>1, <2>1 DEF Enumerating, ReadOnce, EachOnce
  <2>3. Queues.requests = pending /\ Queues.packets = output
    BY DEF Queues
  <2>4. QED
    BY <2>2, <2>3 DEF OneRead
<1>2. CASE phase = "start"
  <2>1. toDevice = << >> /\ toHost = << >> /\ phase # "load"
    BY <1>2 DEF StartOK
  <2>2. QED
    BY <2>1 DEF Sent
<1>3. QED
  BY <1>1, <1>2 DEF MayStart

LEMMA NewIsYoung == \A r : New(r) => r.retries = 0
BY DEF New

(* Nothing is tracked then, or the first read, untried.                    *)
LEMMA StartYoung ==
  ASSUME Long = {}, TypeInv, ReadOnce, LoadedFull, StartOK, MayStart, NEW s \in Slot
  PROVE  /\ pending[s] # NoRequest => New(pending[s])
         /\ phase = "load" => pending[s] = NoRequest
<1>1. pending[s] \in OwnRequest \cup {NoRequest}
  BY OwnFacts DEF TypeInv
<1>2. ASSUME phase = "load"
      PROVE  pending[s] = NoRequest
  <2>1. SUFFICES ASSUME pending[s] # NoRequest PROVE FALSE
    OBVIOUS
  <2>2. PICK p : p = pending[s].param
    OBVIOUS
  <2>3. p \in Plain
    BY <1>1, <2>1, <2>2 DEF Plain, OwnRequest
  <2>4. p # 0 => Asked(pending, Dev, p) = {}
    BY <1>2, <2>3, QuietBefore
  <2>5. p = 0 => Asked(pending, Dev, p) = {}
    <3>1. SUFFICES ASSUME p = 0 PROVE Asked(pending, Dev, 0) = {}
      OBVIOUS
    <3>2. Device0.loaded /\ AllStored(Device0) /\ SoughtOnce(pending, Shown, 0)
      BY <1>2 DEF MayStart, LoadedFull, Enumerating
    <3>3. 0 \in Shown
      BY <3>2, KindFacts DEF AllStored, Shown
    <3>4. QED
      BY <3>2, <3>3 DEF SoughtOnce
  <2>6. Asks(s, p)
    BY <2>1, <2>2 DEF Asks
  <2>7. QED
    BY <2>4, <2>5, <2>6, AskedIs DEF TypeInv
<1>3. ASSUME phase = "start"
      PROVE  pending[s] # NoRequest => New(pending[s])
  <2>1. pending[s] \in {NoRequest, Fresh0}
    BY <1>3, DiscoveredFacts DEF StartOK
  <2>2. New(Fresh0)
    BY KindFacts, NewIsNew DEF Fresh0
  <2>3. QED
    BY <2>1, <2>2
<1>4. QED
  BY <1>2, <1>3 DEF MayStart

(* What the writes and reads of a job make of the queues and the line.     *)
LEMMA JobStartFacts ==
  ASSUME TypeInv, SetStart \/ GetStart
  PROVE  \E ids \in Seq(DOMAIN Kind), frames \in Seq(Reading \cup Writing), elapsed \in Nat :
           /\ toDevice' = toDevice \o frames
           /\ pending' = Aged(RequestEach(pending, ids).requests, elapsed)
           /\ UNCHANGED <<output, toHost, losses>>
<1>1. CASE SetStart
  <2>1. PICK ids \in Seq(DOMAIN Kind), writes \in Seq(Writing) :
          LET q == RequestEach(pending, ids) IN
          /\ q.packets \in Seq(Reading)
          /\ toDevice' = toDevice \o (writes \o q.packets)
          /\ \E elapsed \in Nat : pending' = Aged(q.requests, elapsed)
          /\ UNCHANGED <<output, toHost, losses>>
    BY <1>1, SetStartFacts
  <2>2. PICK packets : packets = RequestEach(pending, ids).packets
    OBVIOUS
  <2>3. writes \o packets \in Seq(Reading \cup Writing)
    <3>1. writes \in Seq(Reading \cup Writing) /\ packets \in Seq(Reading \cup Writing)
      BY <2>1, <2>2
    <3>2. QED
      BY <3>1
  <2>4. QED
    BY <2>1, <2>2, <2>3
<1>2. CASE GetStart
  <2>1. PICK ids \in Seq(DOMAIN Kind) :
          LET q == RequestEach(pending, ids) IN
          /\ q.packets \in Seq(Reading)
          /\ toDevice' = toDevice \o q.packets
          /\ \E elapsed \in Nat : pending' = Aged(q.requests, elapsed)
          /\ UNCHANGED <<output, toHost, losses>>
    BY <1>2, GetStartFacts, Zenon
  <2>2. RequestEach(pending, ids).packets \in Seq(Reading \cup Writing)
    BY <2>1
  <2>3. QED
    BY <2>1, <2>2
<1>3. QED
  BY <1>1, <1>2

(* What is tracked then was, or is new.                                    *)
LEMMA JobStartSlots ==
  ASSUME TypeInv, SetStart \/ GetStart, NEW s \in Slot
  PROVE  \/ pending[s] = NoRequest
              /\ (pending'[s] # NoRequest => New(pending'[s]))
         \/ /\ pending[s] # NoRequest /\ pending'[s] # NoRequest
            /\ pending'[s].param = pending[s].param
            /\ pending'[s].retries = pending[s].retries
            /\ New(pending[s]) => New(pending'[s])
<1>1. PICK ids \in Seq(DOMAIN Kind), elapsed \in Nat :
        pending' = Aged(RequestEach(pending, ids).requests, elapsed)
  BY JobStartFacts, Zenon
<1>2. pending \in [Slot -> OwnRequest \cup {NoRequest}]
  BY OwnFacts DEF TypeInv
<1>3. PICK requests : requests = RequestEach(pending, ids).requests
  OBVIOUS
<1>4. /\ requests \in [Slot -> OwnRequest \cup {NoRequest}]
      /\ requests[s] = pending[s] \/ (pending[s] = NoRequest /\ New(requests[s]))
  BY <1>2, <1>3, RequestSlots
<1>5. LET r == Aged(requests, elapsed)[s] IN
      /\ r = NoRequest <=> requests[s] = NoRequest
      /\ r # NoRequest => /\ r \in OwnRequest /\ r.param = requests[s].param
                          /\ r.retries = requests[s].retries
      /\ New(requests[s]) => New(r)
  BY <1>4, AgedSlots
<1>6. pending' = Aged(requests, elapsed)
  BY <1>1, <1>3
<1>7. QED
  BY <1>4, <1>5, <1>6

LEMMA JobStartYoung ==
  ASSUME Long = {}, TypeInv, ReadOnce, LoadedFull, StartOK, SetStart \/ GetStart, NEW s \in Slot
  PROVE  pending'[s] # NoRequest => New(pending'[s])
<1>1. MayStart
  BY DEF SetStart, GetStart, MayStart
<1>2. QED
  BY <1>1, JobStartSlots, StartYoung

-----------------------------------------------------------------------------
(* Where the read of a parameter, or its answer, is on its way.            *)
InFlight(p) ==
  \/ Queued(output, p) # {}
  \/ Sent(toDevice, "read", p) # {}
  \/ Sent(toHost, "entry", p) # {}

LEMMA NothingInFlight ==
  ASSUME NEW p, NothingUnderWay
  PROVE  ~ InFlight(p)
BY DEF NothingUnderWay, InFlight, Sent, Queued

(* A read that was sent again is due only when its answer is not on its    *)
(* way: a loop takes all that has arrived before it tells the time.  But   *)
(* the user may let answers wait at a prompt.                              *)
DueQuiet(p) ==
  \A s \in Slot : Asks(s, p) /\ Due(pending[s]) /\ pending[s].retries > 0 => ~ InFlight(p)

QuietWhenDue ==
  /\ phase # "tui" /\ ~ Prompted =>
       ((\E s \in Slot : Due(pending[s]) /\ pending[s].retries > 0) => NothingUnderWay)
  /\ phase = "tui" => DueQuiet(0)

(* In the browser one read of a parameter is tracked, and it is young.     *)
LEMMA DueIsQuiet ==
  ASSUME TypeInv, ReadOnce, Commands, QuietWhenDue, ~ Prompted, NEW p \in Plain
  PROVE  DueQuiet(p)
<1>1. CASE phase # "tui"
  BY <1>1, NothingInFlight DEF QuietWhenDue, DueQuiet
<1>2. CASE phase = "tui" /\ p # 0
  <2>1. OneRead(Queues, toDevice, toHost, p)
    BY <1>2 DEF ReadOnce, EachOnce, Enumerating
  <2>2. /\ AtMostOne(Asked(pending, Dev, p))
        /\ InFlight(p) => \E s \in Asked(pending, Dev, p) : pending[s].age < Timeout
    BY <2>1 DEF OneRead, InFlight, Queues
  <2>3. ASSUME NEW s \in Slot, Asks(s, p), Due(pending[s]), InFlight(p)
        PROVE  FALSE
    <3>1. s \in Asked(pending, Dev, p) /\ pending[s] \in OwnRequest
      BY <2>3, AskedIs DEF TypeInv
    <3>2. pending[s].age < Timeout
      BY <2>2, <2>3, <3>1 DEF AtMostOne
    <3>3. QED
      BY <2>3, <3>1, <3>2, TimingAssumption DEF Due, OwnRequest, Request
  <2>4. QED
    BY <2>3 DEF DueQuiet
<1>3. CASE phase = "tui" /\ p = 0
  BY <1>3 DEF QuietWhenDue
<1>4. QED
  BY <1>1, <1>2, <1>3

LEMMA EntrySlotsYoung ==
  ASSUME TypeInv, \/ ReceiveEntry \/ VerifyEntry \/ VerifyRunning
                  \/ \E answer \in {Confirm, Cancel} : VerifyAsked(answer),
         NEW s \in Slot
  PROVE  toHost # << >> /\ (pending'[s] \in {NoRequest, pending[s]} \/ New(pending'[s]))
<1>1. PICK frame : frame = Head(toHost)
  OBVIOUS
<1>2. ASSUME toHost # << >>, frame.kind = "entry"
      PROVE  /\ OwnQueues(QueuesHandled(frame))
             /\ \/ QueuesHandled(frame).requests[s] \in {NoRequest, pending[s]}
                \/ New(QueuesHandled(frame).requests[s])
  BY <1>1, <1>2, HandledSlots DEF EntryTaken
<1>3. CASE ReceiveEntry \/ VerifyEntry
  BY <1>1, <1>2, <1>3, EntryHandled
<1>4. CASE \E answer \in {Confirm, Cancel} : VerifyAsked(answer)
  BY <1>1, <1>2, <1>4, VerifyAskedFacts
<1>5. CASE VerifyRunning
  <2> DEFINE left == QueuesHandled(frame)
             q == RequestEach(left.requests, <<frame.param>>)
  <2>1. /\ toHost # << >> /\ frame.kind = "entry" /\ frame.param \in DOMAIN Kind
        /\ pending' = q.requests
    BY <1>1, <1>5, VerifyRunningFacts
  <2>2. left.requests \in [Slot -> OwnRequest \cup {NoRequest}]
        /\ (left.requests[s] \in {NoRequest, pending[s]} \/ New(left.requests[s]))
    BY <1>2, <2>1 DEF OwnQueues
  <2> HIDE DEF left
  <2>3. <<frame.param>> \in Seq(DOMAIN Kind)
    BY <2>1
  <2>4. q.requests[s] = left.requests[s] \/ New(q.requests[s])
    BY <2>2, <2>3, RequestSlots
  <2>5. QED
    BY <2>1, <2>2, <2>4
<1>6. QED
  BY <1>3, <1>4, <1>5

(* Nothing is queued for a parameter that is asked for already.            *)
LEMMA EntryQueued ==
  ASSUME TypeInv, toHost # << >>, Head(toHost).kind = "entry", NEW p,
         Asked(pending, Dev, p) # {}, Queued(output, p) = {}
  PROVE  Queued(QueuesHandled(Head(toHost)).packets, p) = {}
<1>1. PICK frame : frame = Head(toHost)
  OBVIOUS
<1>2. PICK dev : dev = Handled(frame)
  OBVIOUS
<1>3. frame.param \in DOMAIN Kind /\ Entry(frame.param, frame.value) \in Content
  BY <1>1, EntryFacts DEF TypeInv
<1>4. /\ BrowsedOK(Device0) /\ OwnQueues(Queues)
      /\ Queues.requests = pending /\ Queues.packets = output
  BY DEF TypeInv, ManagerOK, Queues
<1>5. BrowsedOK(dev)
  BY <1>2, <1>3, <1>4, WithParameterBrowsed DEF Handled
<1> DEFINE r == NewRequest(Dev, NextParameter(dev), 0)
           next == EnqueueNextParameter(Queues, Dev, dev)
<1>6. Queued(next.packets, p) = {}
  <2>1. CASE next = Queues
    BY <1>4, <2>1
  <2>2. CASE /\ ~ dev.loaded /\ Asked(Queues.requests, Dev, NextParameter(dev)) = {}
             /\ next = Enqueue(Queues, r)
    <3>1. r \in OwnRequest /\ r.param # p
      BY <1>4, <1>5, <2>2, NextIsOwn, NewOwnRequest
    <3> HIDE DEF r, next
    <3>2. next.packets \in {output, Append(output, ReadOf(r))}
      BY <1>4, <2>2, <3>1, EnqueueOwn
    <3>3. output \in Seq(OwnRead) /\ ReadOf(r) \in OwnRead /\ ReadOf(r).param # p
      BY <1>4, <3>1 DEF OwnQueues, OwnRequest, OwnRead, ReadOf, Request, Read
    <3>4. Queued(Append(output, ReadOf(r)), p) = Queued(output, p)
      BY <3>3, QueuedAppend
    <3>5. QED
      BY <3>2, <3>4
  <2>3. QED
    BY <2>1, <2>2 DEF EnqueueNextParameter
<1>7. OwnQueues(next)
  BY <1>4, <1>5, EnqueueNextSlots
<1> HIDE DEF next
<1>8. RemovePending(next, Dev, frame.param).packets = next.packets
  BY <1>7, RemoveOwn
<1>9. QED
  BY <1>1, <1>2, <1>6, <1>8 DEF QueuesHandled, next

(* The world brings no answer that was not on its way.                     *)
LEMMA QuietWorld ==
  ASSUME TypeInv, World, NEW p, ~ InFlight(p)
  PROVE  ~ InFlight(p)'
<1>1. /\ Queued(output, p) = {} /\ Sent(toDevice, "read", p) = {} /\ Sent(toHost, "entry", p) = {}
      /\ LineOK
  BY DEF InFlight, TypeInv
<1>2. output' = output
  BY DEF World, DeviceAnswers, DeviceObeys, DeviceFinishes, LoseRequest, LoseReply, vars
<1>3. CASE DeviceAnswers
  <2> DEFINE frame == Head(toDevice)
             answer == Answer(frame)
  <2>1. /\ toDevice # << >> /\ frame.kind = "read" /\ toDevice' = Tail(toDevice)
        /\ toHost' = toHost \o answer
    BY <1>3 DEF DeviceAnswers
  <2>2. frame \in Reading /\ frame.param # p /\ Sent(Tail(toDevice), "read", p) = {}
    BY <1>1, <2>1, ToDeviceFacts, TakenRequest
  <2> HIDE DEF frame
  <2>3. answer \in Seq(Telling \cup Chunking) /\ Sent(answer, "entry", p) = {}
    BY <1>1, <2>2, AnswerType, AnswerEntries
  <2> HIDE DEF answer
  <2>4. toHost \in Seq(Telling \cup Chunking)
    BY <1>1 DEF LineOK
  <2>5. Sent(toHost \o answer, "entry", p) = {}
    BY <1>1, <2>3, <2>4, SentJoined
  <2>6. QED
    BY <1>1, <1>2, <2>1, <2>2, <2>5 DEF InFlight
<1>4. CASE DeviceObeys \/ LoseRequest
  <2>1. toDevice # << >> /\ toDevice' = Tail(toDevice) /\ toHost' = toHost
    BY <1>4 DEF DeviceObeys, LoseRequest
  <2>2. Sent(Tail(toDevice), "read", p) = {}
    BY <1>1, <2>1, TakenRequest
  <2>3. QED
    BY <1>1, <1>2, <2>1, <2>2 DEF InFlight
<1>5. CASE LoseReply
  <2>1. toHost # << >> /\ toHost' = Tail(toHost) /\ toDevice' = toDevice
    BY <1>5 DEF LoseReply
  <2>2. Sent(Tail(toHost), "entry", p) = {}
    BY <1>1, <2>1, TakenReply
  <2>3. QED
    BY <1>1, <1>2, <2>1, <2>2 DEF InFlight
<1>6. CASE \E x \in DOMAIN Kind : DeviceFinishes(x)
  <2>1. toHost' = toHost /\ toDevice' = toDevice
    BY <1>6 DEF DeviceFinishes
  <2>2. QED
    BY <1>1, <1>2, <2>1 DEF InFlight
<1>7. QED
  BY <1>3, <1>4, <1>5, <1>6 DEF World

(* What a write from the keyboard tracks and sends.                        *)
LEMMA WriteFacts ==
  ASSUME TypeInv, NEW x, NEW data, Writable(x, data), WriteAndReread(x, data)
  PROVE  LET q == RequestEach(pending, <<x>>) IN
         /\ x \in DOMAIN Kind /\ <<x>> \in Seq(DOMAIN Kind)
         /\ pending \in [Slot -> OwnRequest \cup {NoRequest}]
         /\ q.packets \in Seq(Reading) /\ WriteFrame(x, data) \in Writing
         /\ toDevice' = toDevice \o (<<WriteFrame(x, data)>> \o q.packets)
         /\ <<WriteFrame(x, data)>> \o q.packets \in Seq(Reading \cup Writing)
         /\ pending' = q.requests
         /\ UNCHANGED <<output, toHost, losses, phase>>
<1> DEFINE ps == <<x>>
           q == RequestEach(pending, ps)
           f == WriteFrame(x, data)
<1>1. x \in DOMAIN Kind /\ f \in Writing
  BY WriteFrameType DEF Writable
<1>2. ps \in Seq(DOMAIN Kind) /\ pending \in [Slot -> OwnRequest \cup {NoRequest}]
  BY <1>1, OwnFacts DEF TypeInv
<1>3. /\ toDevice' = Append(toDevice, f) \o q.packets /\ pending' = q.requests
      /\ UNCHANGED <<output, toHost, losses, phase>>
  BY DEF WriteAndReread
<1> HIDE DEF ps, f
<1>4. q.packets \in Seq(Reading)
  BY <1>2, RequestSlots
<1> HIDE DEF q
<1>5. PICK packets : packets = q.packets
  OBVIOUS
<1>6. /\ toDevice \in Seq(Reading \cup Writing) /\ f \in Reading \cup Writing
      /\ packets \in Seq(Reading \cup Writing)
  BY <1>1, <1>4, <1>5 DEF TypeInv, LineOK
<1>7. /\ Append(toDevice, f) \o packets = toDevice \o (<<f>> \o packets)
      /\ <<f>> \o packets \in Seq(Reading \cup Writing)
  <2>1. Append(toDevice, f) \o packets = toDevice \o (<<f>> \o packets)
    BY ONLY <1>6
  <2>2. PICK first : first = <<f>>
    OBVIOUS
  <2>3. first \in Seq(Reading \cup Writing)
    BY <1>6, <2>2
  <2>4. first \o packets \in Seq(Reading \cup Writing)
    BY <1>6, <2>3
  <2>5. QED
    BY <2>1, <2>2, <2>4
<1>8. QED
  BY <1>1, <1>2, <1>3, <1>4, <1>5, <1>7 DEF q, ps, f

LEMMA QuietWrite ==
  ASSUME TypeInv, NEW x, NEW data, Writable(x, data), WriteAndReread(x, data),
         NEW p, p # x, ~ InFlight(p)
  PROVE  ~ InFlight(p)'
<1> DEFINE ps == <<x>>
           q == RequestEach(pending, ps)
           f == WriteFrame(x, data)
<1>1. /\ x \in DOMAIN Kind /\ ps \in Seq(DOMAIN Kind)
      /\ pending \in [Slot -> OwnRequest \cup {NoRequest}]
      /\ q.packets \in Seq(Reading) /\ f \in Writing
      /\ toDevice' = toDevice \o (<<f>> \o q.packets)
      /\ UNCHANGED <<output, toHost>>
  BY WriteFacts
<1>2. \A i \in DOMAIN q.packets : q.packets[i].param = ps[i] /\ i \in 1..1
  <2>1. Len(q.packets) <= Len(ps) /\ \A i \in DOMAIN q.packets : q.packets[i].param = ps[i]
    BY <1>1, RequestEachOwn
  <2>2. Len(ps) = 1 /\ DOMAIN q.packets = 1..Len(q.packets) /\ Len(q.packets) \in Nat
    BY <1>1
  <2>3. QED
    BY <2>1, <2>2
<1>3. ps[1] = x
  OBVIOUS
<1> HIDE DEF ps, q, f
<1>4. Sent(q.packets, "read", p) = {}
  BY <1>2, <1>3 DEF Sent
<1>5. Sent(<<f>>, "read", p) = {}
  BY <1>1 DEF Sent, Writing
<1>6. PICK packets : packets = q.packets
  OBVIOUS
<1>7. PICK first : first = <<f>>
  OBVIOUS
<1>8. /\ first \in Seq(Reading \cup Writing) /\ packets \in Seq(Reading \cup Writing)
      /\ toDevice \in Seq(Reading \cup Writing)
  BY <1>1, <1>6, <1>7 DEF TypeInv, LineOK
<1>9. Sent(first \o packets, "read", p) = {}
  BY <1>4, <1>5, <1>6, <1>7, <1>8, SentJoined
<1>10. first \o packets \in Seq(Reading \cup Writing)
  BY <1>8
<1>11. Sent(toDevice, "read", p) = {}
  BY DEF InFlight
<1>12. Sent(toDevice', "read", p) = {}
  BY <1>1, <1>6, <1>7, <1>8, <1>9, <1>10, <1>11, SentJoined
<1>13. QED
  BY <1>1, <1>12 DEF InFlight

(* What may be due after the requests that are due are sent again.         *)
LEMMA NothingDue ==
  ASSUME ManagerOK, SendDrained, NEW s \in Slot
  PROVE  ~ Due(pending'[s])
<1>1. pending'[s] = Expire(pending[s]) /\ pending[s] \in OwnRequest \cup {NoRequest}
  BY OwnFacts DEF SendDrained, DrainAll
<1>2. /\ ~ Due(pending[s]) => Expire(pending[s]) = pending[s]
      /\ Due(pending[s]) /\ Expire(pending[s]) # NoRequest => Expire(pending[s]).age < Timeout
      /\ Expire(pending[s]) \in OwnRequest \cup {NoRequest}
  BY <1>1, ExpiredOwn
<1>3. \A r \in OwnRequest : r.age < Timeout => ~ Due(r)
  BY TimingAssumption DEF Due, OwnRequest, Request
<1>4. ~ Due(NoRequest)
  BY DEF Due
<1>5. QED
  BY <1>1, <1>2, <1>3, <1>4

(* Outside of the browser, *)
LEMMA JobQuiet ==
  ASSUME Long = {}, TypeInv, ReadOnce, LoadedFull, StartOK, Commands, QuietWhenDue,
         [TuiNext]_allVars, phase' # "tui", ~ Prompted',
         NEW s \in Slot, Due(pending'[s]), pending'[s].retries > 0
  PROVE  NothingUnderWay'
<1>1. phase # "tui" /\ (Jobs \/ Packets \/ World \/ UNCHANGED allVars)
  BY OutsideBrowser DEF TypeInv
<1>2. ~ Prompted
  BY PromptStays DEF TypeInv
<1>3. Due(pending[s]) /\ pending[s].retries > 0 => NothingUnderWay
  BY <1>1, <1>2 DEF QuietWhenDue
<1>4. pending'[s] # NoRequest /\ ~ New(pending'[s])
  <2>1. pending'[s] # NoRequest
    BY DEF Due
  <2>2. New(pending'[s]) => pending'[s].retries = 0
    BY NewIsYoung
  <2>3. QED
    BY <2>1, <2>2
<1>5. CASE SetStart \/ GetStart
  BY <1>4, <1>5, JobStartYoung
<1>6. CASE \/ ReceiveEntry \/ VerifyEntry \/ VerifyRunning
           \/ \E answer \in {Confirm, Cancel} : VerifyAsked(answer)
  <2>1. toHost # << >> /\ pending'[s] = pending[s]
    BY <1>4, <1>6, EntrySlotsYoung
  <2>2. QED
    BY <1>3, <2>1 DEF NothingUnderWay
<1>7. CASE \/ SetNothing \/ GetDone \/ Verified \/ GiveUp \/ UNCHANGED allVars
           \/ \E p \in DOMAIN Kind : StrayEntry(p)
  <2>1. UNCHANGED <<pending, output, toDevice, toHost>>
    BY <1>7 DEF SetNothing, GetDone, Verified, GiveUp, StrayEntry, allVars, vars, wire
  <2>2. QED
    BY <1>3, <2>1 DEF NothingUnderWay
<1>8. ASSUME NEW elapsed, PromptTold(elapsed)
      PROVE  FALSE
  BY <1>2, <1>8 DEF PromptTold, Commands
<1>9. CASE SendDrained
  BY <1>9, NothingDue DEF TypeInv
<1>10. CASE TimePasses
  BY <1>10 DEF TimePasses, UpdateTime, wire, NothingUnderWay
<1>11. CASE World
  <2>1. NothingUnderWay
    BY <1>3, <1>11 DEF World, DeviceAnswers, DeviceObeys, LoseRequest, LoseReply,
       DeviceFinishes, vars
  <2>2. QED
    BY <1>11, <2>1 DEF World, DeviceAnswers, DeviceObeys, LoseRequest, LoseReply,
       DeviceFinishes, vars, NothingUnderWay
<1>12. ~ ReceiveChunk
  BY NoChunks DEF TypeInv
<1>13. QED
  BY <1>1, <1>5, <1>6, <1>7, <1>8, <1>9, <1>10, <1>11, <1>12 DEF Jobs, Packets

(* and in it, where the root may be asked for when its first read is too   *)
(* old already.                                                            *)
LEMMA QuietSame ==
  ASSUME DueQuiet(0), UNCHANGED <<pending, output, toDevice, toHost>>
  PROVE  DueQuiet(0)'
<1>1. InFlight(0)' <=> InFlight(0)
  BY DEF InFlight
<1>2. QED
  BY <1>1 DEF DueQuiet, Asks

LEMMA WriteQuiet ==
  ASSUME TypeInv, DueQuiet(0), NEW x, NEW data, Writable(x, data), WriteAndReread(x, data)
  PROVE  DueQuiet(0)'
<1>1. x # 0
  BY DeviceAssumption DEF Writable
<1>2. PICK q : q = RequestEach(pending, <<x>>)
  OBVIOUS
<1>3. PICK ps : ps = <<x>>
  OBVIOUS
<1>4. /\ ps \in Seq(DOMAIN Kind) /\ pending \in [Slot -> OwnRequest \cup {NoRequest}]
      /\ pending' = q.requests /\ q = RequestEach(pending, ps)
  BY <1>2, <1>3, WriteFacts
<1>5. \A i \in DOMAIN ps : ps[i] = x
  BY <1>3
<1>6. \A s \in Slot : q.requests[s] = pending[s] \/ q.requests[s].param = x
  BY <1>4, <1>5, RequestSlots
<1>7. \A s \in Slot : Asks(s, 0)' => pending'[s] = pending[s]
  BY <1>1, <1>4, <1>6 DEF Asks
<1>8. ~ InFlight(0) => ~ InFlight(0)'
  BY <1>1, QuietWrite
<1>9. QED
  BY <1>7, <1>8 DEF DueQuiet, Asks

LEMMA EntryQuiet ==
  ASSUME TypeInv, DueQuiet(0), ReceiveEntry
  PROVE  DueQuiet(0)'
<1> SUFFICES ASSUME NEW s \in Slot, Asks(s, 0)', Due(pending'[s]), pending'[s].retries > 0
             PROVE  ~ InFlight(0)'
  BY DEF DueQuiet
<1>1. /\ toHost # << >> /\ Head(toHost).kind = "entry" /\ toHost' = Tail(toHost)
      /\ output' = QueuesHandled(Head(toHost)).packets /\ toDevice' = toDevice
  BY EntryHandled
<1>2. pending'[s] = pending[s]
  <2>1. pending'[s] # NoRequest
    BY DEF Due
  <2>2. New(pending'[s]) => pending'[s].retries = 0
    BY NewIsYoung
  <2>3. QED
    BY <2>1, <2>2, EntrySlotsYoung
<1>3. Asks(s, 0) /\ ~ InFlight(0)
  BY <1>2 DEF DueQuiet, Asks
<1>4. /\ Queued(output, 0) = {} /\ Sent(toDevice, "read", 0) = {} /\ Sent(toHost, "entry", 0) = {}
  BY <1>3 DEF InFlight
<1>5. Asked(pending, Dev, 0) # {}
  BY <1>3, AskedIs DEF TypeInv
<1>6. Queued(output', 0) = {}
  BY <1>1, <1>4, <1>5, EntryQueued
<1>7. Sent(toHost', "entry", 0) = {}
  BY <1>1, <1>4, TakenReply DEF TypeInv
<1>8. QED
  BY <1>1, <1>4, <1>6, <1>7 DEF InFlight

LEMMA BrowserQuiet ==
  ASSUME Long = {}, TypeInv, QuietWhenDue, [TuiNext]_allVars, phase' = "tui"
  PROVE  DueQuiet(0)'
<1>1. phase = "tui" /\ ~ Jobs
  BY BrowserOnly
<1>2. DueQuiet(0)
  BY <1>1 DEF QuietWhenDue
<1>3. CASE KeyOnly \/ Refresh \/ UNCHANGED allVars
  <2>1. UNCHANGED <<pending, output, toDevice, toHost>>
    BY <1>3 DEF KeyOnly, Refresh, allVars, vars, wire
  <2>2. QED
    BY <1>2, <2>1, QuietSame
<1>4. CASE ApplyEdit \/ ExecuteCommand \/ CancelCommand \/ PollCommand
  BY <1>2, <1>4, WritingKeys, WriteQuiet
<1>5. CASE ReceiveEntry
  BY <1>2, <1>5, EntryQuiet
<1>6. CASE SendDrained
  BY <1>6, NothingDue DEF DueQuiet, TypeInv
<1>7. CASE TimePasses
  <2>1. NothingUnderWay'
    BY <1>7 DEF TimePasses, UpdateTime, wire, NothingUnderWay
  <2>2. ~ InFlight(0)'
    BY <2>1 DEF NothingUnderWay, InFlight, Sent, Queued
  <2>3. QED
    BY <2>2 DEF DueQuiet
<1>8. CASE World
  <2>1. pending' = pending
    BY <1>8 DEF World, DeviceAnswers, DeviceObeys, LoseRequest, LoseReply, DeviceFinishes, vars
  <2>2. ~ InFlight(0) => ~ InFlight(0)'
    BY <1>8, QuietWorld
  <2>3. QED
    BY <1>2, <2>1, <2>2 DEF DueQuiet, Asks
<1>9. ~ ReceiveChunk
  BY NoChunks DEF TypeInv
<1>10. QED
  BY <1>1, <1>3, <1>4, <1>5, <1>6, <1>7, <1>8, <1>9, KeyKinds DEF TuiNext, Packets

LEMMA QuietWhenDueStep ==
  ASSUME Long = {}, TypeInv, ReadOnce, LoadedFull, StartOK, Commands, QuietWhenDue,
         [TuiNext]_allVars
  PROVE  QuietWhenDue'
<1>1. ASSUME phase' # "tui", ~ Prompted',
             NEW s \in Slot, Due(pending'[s]), pending'[s].retries > 0
      PROVE  NothingUnderWay'
  BY <1>1, JobQuiet
<1>2. phase' = "tui" => DueQuiet(0)'
  BY BrowserQuiet
<1>3. QED
  BY <1>1, <1>2 DEF QuietWhenDue

-----------------------------------------------------------------------------
(* What is lost is read again, and no read is given up *)

(* A read is sent again once for a loss, and once more when it was too old *)
(* before the first loop, or found the output queue full.                  *)
Chased(p) ==
  \A s \in Slot : Asks(s, p) =>
    /\ pending[s].retries <= losses + 1
    /\ pending[s].retries = losses + 1 => InFlight(p)

LEMMA ChasedKept ==
  ASSUME NEW p, Chased(p), losses \in Nat, losses' = losses,
         InFlight(p) => InFlight(p)',
         \A s \in Slot : Asks(s, p)' =>
           \/ Asks(s, p) /\ pending'[s].retries = pending[s].retries
           \/ pending'[s].retries = 0
  PROVE  Chased(p)'
BY DEF Chased

LEMMA TailKeeps ==
  ASSUME NEW T, NEW f \in Seq(T), f # << >>, NEW kind, NEW p, Sent(f, kind, p) # {},
         ~ (Head(f).kind = kind /\ Head(f).param = p)
  PROVE  Sent(Tail(f), kind, p) # {}
<1>1. PICK i : i \in Sent(f, kind, p)
  OBVIOUS
<1>2. i \in Nat \ {0} /\ i # 1
  BY <1>1, SentTail
<1>3. i - 1 \in Nat \ {0} /\ (i - 1) + 1 \in Sent(f, kind, p)
  BY <1>1, <1>2
<1>4. QED
  BY <1>3, SentTail

LEMMA SentMore ==
  ASSUME LineOK, NEW reads \in Seq(Reading \cup Writing), toDevice' = toDevice \o reads,
         NEW kind, NEW p
  PROVE  /\ Sent(toDevice, kind, p) # {} => Sent(toDevice', kind, p) # {}
         /\ Sent(reads, kind, p) # {} => Sent(toDevice', kind, p) # {}
BY SentJoined DEF LineOK

LEMMA AnswerKeeps ==
  ASSUME LineOK, DeviceAnswers, NEW p \in Plain, UNCHANGED output, InFlight(p)
  PROVE  InFlight(p)'
<1> DEFINE frame == Head(toDevice)
           answer == Answer(frame)
<1>1. /\ toDevice # << >> /\ frame.kind = "read" /\ toDevice' = Tail(toDevice)
      /\ toHost' = toHost \o answer
  BY DEF DeviceAnswers
<1>2. frame \in Reading /\ toDevice \in Seq(Reading \cup Writing)
      /\ toHost \in Seq(Telling \cup Chunking) /\ answer \in Seq(Telling \cup Chunking)
  BY <1>1, ToDeviceFacts, AnswerType DEF LineOK
<1>3. frame.param = p => 1 \in Sent(answer, "entry", p)
  <2>1. SUFFICES ASSUME frame.param = p PROVE 1 \in Sent(answer, "entry", p)
    OBVIOUS
  <2>2. answer = << [kind |-> "entry", param |-> p, value |-> held[p]] >>
    BY <2>1 DEF Answer, Plain
  <2> HIDE DEF answer, frame
  <2>3. QED
    BY <2>2 DEF Sent
<1>4. frame.param # p /\ Sent(toDevice, "read", p) # {} => Sent(toDevice', "read", p) # {}
  BY <1>1, <1>2, TailKeeps
<1> HIDE DEF answer
<1>5. Sent(toHost, "entry", p) # {} \/ Sent(answer, "entry", p) # {} =>
        Sent(toHost', "entry", p) # {}
  <2>1. Sent(toHost \o answer, "entry", p) = {} <=>
          Sent(toHost, "entry", p) = {} /\ Sent(answer, "entry", p) = {}
    BY <1>2, SentJoined
  <2>2. QED
    BY <1>1, <2>1
<1>6. QED
  BY <1>3, <1>4, <1>5 DEF InFlight

LEMMA ChasedWorld ==
  ASSUME TypeInv, World, NEW p \in Plain, Chased(p)
  PROVE  Chased(p)'
<1>1. UNCHANGED vars /\ losses \in Nat
  BY DEF World, DeviceAnswers, DeviceObeys, DeviceFinishes, LoseRequest, LoseReply, TypeInv, LineOK
<1>2. pending' = pending /\ output' = output
  BY <1>1 DEF vars
<1>3. CASE losses' = losses + 1
  <2>1. \A s \in Slot : Asks(s, p) => pending[s].retries \in Nat
    BY AskedIs DEF TypeInv
  <2>2. QED
    BY <1>1, <1>2, <1>3, <2>1 DEF Chased, Asks
<1>4. CASE losses' # losses + 1
  <2>1. DeviceAnswers \/ DeviceObeys \/ \E x \in DOMAIN Kind : DeviceFinishes(x)
    BY <1>4 DEF World, LoseRequest, LoseReply
  <2>2. losses' = losses
    BY <2>1 DEF DeviceAnswers, DeviceObeys, DeviceFinishes
  <2>3. DeviceObeys /\ InFlight(p) => InFlight(p)'
    <3>1. SUFFICES ASSUME DeviceObeys, InFlight(p) PROVE InFlight(p)'
      OBVIOUS
    <3>2. toDevice # << >> /\ Head(toDevice).kind = "write" /\ toDevice' = Tail(toDevice)
          /\ toHost' = toHost
      BY <3>1 DEF DeviceObeys
    <3>3. Sent(toDevice, "read", p) # {} => Sent(toDevice', "read", p) # {}
      BY <3>2, TailKeeps DEF TypeInv, LineOK
    <3>4. QED
      BY <1>2, <3>1, <3>2, <3>3 DEF InFlight
  <2>4. (\E x \in DOMAIN Kind : DeviceFinishes(x)) /\ InFlight(p) => InFlight(p)'
    BY <1>2 DEF DeviceFinishes, InFlight
  <2>5. InFlight(p) => InFlight(p)'
    BY <1>2, <2>1, <2>3, <2>4, AnswerKeeps DEF TypeInv
  <2>6. \A s \in Slot : Asks(s, p)' => Asks(s, p) /\ pending'[s].retries = pending[s].retries
    BY <1>2 DEF Asks
  <2>7. QED
    BY <1>1, <2>2, <2>5, <2>6, ChasedKept
<1>5. QED
  BY <1>3, <1>4

LEMMA ChasedTime ==
  ASSUME TypeInv, TimePasses, NEW p, Chased(p)
  PROVE  Chased(p)'
<1>1. ~ InFlight(p)
  BY NothingInFlight DEF TimePasses
<1>2. pending' = Aged(pending, 1) /\ losses' = losses
  BY DEF TimePasses, UpdateTime, Aged, wire
<1>3. pending \in [Slot -> OwnRequest \cup {NoRequest}] /\ losses \in Nat
  BY OwnFacts DEF TypeInv, LineOK
<1>4. PICK requests : requests = pending
  OBVIOUS
<1>5. \A s \in Slot : LET r == Aged(requests, 1)[s] IN
        /\ r = NoRequest <=> requests[s] = NoRequest
        /\ r # NoRequest => /\ r \in OwnRequest /\ r.param = requests[s].param
                            /\ r.retries = requests[s].retries
  BY <1>3, <1>4, AgedSlots
<1>6. \A s \in Slot : Asks(s, p)' => Asks(s, p) /\ pending'[s].retries = pending[s].retries
  BY <1>2, <1>4, <1>5 DEF Asks
<1>7. QED
  BY <1>1, <1>2, <1>3, <1>6, ChasedKept

LEMMA ListedAll ==
  ASSUME NEW S, IsFiniteSet(S), NEW v \in S
  PROVE  \E i \in 1..Cardinality(S) : SetToSeq(S)[i] = v
<1> DEFINE n == Cardinality(S)
           f == SetToSeq(S)
           T == S \ {v}
<1>1. /\ f \in [1..n -> S] /\ n \in Nat
      /\ \A i, j \in 1..n : f[i] = f[j] => i = j
  BY Listed
<1>2. IsFiniteSet(T) /\ Cardinality(T) = n - 1
  BY FS_RemoveElement
<1>3. IsFiniteSet(1..n) /\ Cardinality(1..n) = n
  BY <1>1, FS_Interval
<1> HIDE DEF f, n, T
<1>4. SUFFICES ASSUME \A i \in 1..n : f[i] # v PROVE FALSE
  BY DEF f, n
<1>5. f \in [1..n -> T]
  BY <1>1, <1>4 DEF T
<1>6. \E x, y \in 1..n : x # y /\ f[x] = f[y]
  BY <1>1, <1>2, <1>3, <1>5, FS_PigeonHole
<1>7. QED
  BY <1>1, <1>6

LEMMA RetriedSent ==
  ASSUME ManagerOK, NEW s \in Retried
  PROVE  Sent(Resent, "read", pending[s].param) # {}
<1>1. IsFiniteSet(Retried)
  BY ProgramAssumption, FS_Subset DEF Retried
<1>2. PICK i \in 1..Cardinality(Retried) : SetToSeq(Retried)[i] = s
  BY <1>1, ListedAll
<1>3. Resent[i] = ReadFrame(pending[s]) /\ i \in DOMAIN Resent
  BY <1>2 DEF Resent
<1>4. Resent[i].kind = "read" /\ Resent[i].param = pending[s].param
  BY <1>3 DEF ReadFrame
<1>5. QED
  BY <1>3, <1>4 DEF Sent

LEMMA DrainKeeps ==
  ASSUME TypeInv, SendDrained, NEW p
  PROVE  /\ InFlight(p) => InFlight(p)'
         /\ Sent(Resent, "read", p) # {} => InFlight(p)'
<1>1. toHost' = toHost
  BY DEF SendDrained
<1>2. Sent(Emptied, "read", p) = Queued(output, p)
  BY EmptiedReads DEF TypeInv
<1>3. Sent(toDevice', "read", p) = {} <=>
        Sent(toDevice, "read", p) = {} /\ Sent(Resent, "read", p) = {}
          /\ Sent(Emptied, "read", p) = {}
  BY SentDrained DEF TypeInv
<1>4. QED
  BY <1>1, <1>2, <1>3 DEF InFlight

LEMMA ExpireAgain ==
  ASSUME NEW r \in Request, Due(r), r.retries < RetryCount
  PROVE  /\ Expire(r) # NoRequest /\ Expire(r).param = r.param
         /\ Expire(r).retries = r.retries + 1
<1>1. Expire(r) = [r EXCEPT !.retries = r.retries + 1, !.age = 0]
  BY TimingAssumption DEF Expire, Request
<1>2. r.retries + 1 \in 0..RetryCount /\ 0 \in 0..Timeout
  BY TimingAssumption DEF Request
<1>3. /\ Expire(r) \in Request /\ Expire(r).param = r.param
      /\ Expire(r).retries = r.retries + 1
  BY <1>1, <1>2 DEF Request
<1>4. QED
  BY <1>3, NullAssumption

LEMMA ChasedDrain ==
  ASSUME TypeInv, SendDrained, NEW p, Chased(p),
         MaxLoss < RetryCount, DueQuiet(p)
  PROVE  /\ Chased(p)'
         /\ p \in past'.givenUp => p \in past.givenUp
         /\ \A s \in Slot : Asks(s, p) => Asks(s, p)'
<1>1. /\ pending' = [s \in Slot |-> Expire(pending[s])] /\ losses' = losses
      /\ losses \in Nat /\ losses <= MaxLoss /\ MaxLoss \in Nat
  BY ProgramAssumption DEF SendDrained, DrainAll, TypeInv, LineOK
<1>2. ASSUME NEW s \in Slot, Asks(s, p), Due(pending[s])
      PROVE  /\ pending[s].retries <= losses
             /\ pending'[s].retries = pending[s].retries + 1
             /\ Asks(s, p)' /\ Expire(pending[s]) # NoRequest /\ InFlight(p)'
  <2>1. pending[s] \in OwnRequest /\ pending[s].retries \in Nat
    BY <1>2, AskedIs DEF TypeInv
  <2>2. pending[s].retries <= losses
    <3>1. CASE pending[s].retries = 0
      BY <1>1, <3>1
    <3>2. CASE pending[s].retries > 0
      <4>1. /\ ~ InFlight(p) /\ pending[s].retries <= losses + 1
            /\ pending[s].retries = losses + 1 => InFlight(p)
        BY <1>2, <3>2 DEF Chased, DueQuiet
      <4>2. QED
        BY <1>1, <2>1, <4>1
    <3>3. QED
      BY <2>1, <3>1, <3>2
  <2>3. pending[s].retries < RetryCount
    BY <1>1, <2>1, <2>2, TimingAssumption
  <2>7. /\ Expire(pending[s]) # NoRequest /\ Expire(pending[s]).param = p
        /\ Expire(pending[s]).retries = pending[s].retries + 1
    BY <1>2, <2>1, <2>3, ExpireAgain DEF Asks, OwnRequest
  <2>8. s \in Retried
    BY <1>2, <2>7 DEF Retried
  <2>9. Sent(Resent, "read", p) # {}
    BY <1>2, <2>8, RetriedSent DEF Asks, TypeInv
  <2>10. Asks(s, p)' /\ pending'[s].retries = pending[s].retries + 1
    BY <1>1, <2>7 DEF Asks
  <2>11. QED
    BY <2>2, <2>7, <2>9, <2>10, DrainKeeps
<1>3. \A s \in Slot : ~ Due(pending[s]) => pending'[s] = pending[s]
  <2>1. \A s \in Slot : pending'[s] = Expire(pending[s])
    BY <1>1
  <2>2. QED
    BY <2>1, ExpiredOwn, OwnFacts DEF TypeInv
<1>4. ASSUME NEW s \in Slot, Asks(s, p)'
      PROVE  Asks(s, p)
  <2>1. pending[s] \in OwnRequest \cup {NoRequest} /\ Expire(pending[s]) # NoRequest
    BY <1>1, <1>4, OwnFacts DEF Asks, TypeInv
  <2>2. pending[s] # NoRequest /\ Expire(pending[s]).param = pending[s].param
    BY <2>1, ExpiredOwn
  <2>3. QED
    BY <1>1, <1>4, <2>2 DEF Asks
<1>5. ASSUME NEW s \in Slot, Asks(s, p)'
      PROVE  /\ pending'[s].retries <= losses' + 1
             /\ pending'[s].retries = losses' + 1 => InFlight(p)'
  <2>1. Asks(s, p) /\ pending[s].retries \in Nat
    BY <1>4, <1>5, AskedIs DEF TypeInv
  <2>2. CASE Due(pending[s])
    BY <1>1, <1>2, <2>1, <2>2
  <2>3. CASE ~ Due(pending[s])
    BY <1>1, <1>3, <2>1, <2>3, DrainKeeps DEF Chased
  <2>4. QED
    BY <2>2, <2>3
<1>6. p \in past'.givenUp => p \in past.givenUp
  <2>1. past'.givenUp = past.givenUp \cup
          {pending[s].param : s \in {s \in Slot : Due(pending[s]) /\ Expire(pending[s]) = NoRequest}}
    BY DEF SendDrained, TypeInv, Past
  <2>2. \A s \in Slot : Due(pending[s]) /\ pending[s].param = p => Expire(pending[s]) # NoRequest
    BY <1>2 DEF Asks, Due
  <2>3. QED
    BY <2>1, <2>2
<1>7. \A s \in Slot : Asks(s, p) => Asks(s, p)'
  BY <1>2, <1>3 DEF Asks
<1>8. QED
  BY <1>5, <1>6, <1>7 DEF Chased

(* An entry is taken, and what is asked again is asked anew.               *)
LEMMA ChasedTaken ==
  ASSUME TypeInv, toHost # << >>, Head(toHost).kind = "entry", toHost' = Tail(toHost),
         output' = QueuesHandled(Head(toHost)).packets, losses' = losses,
         \A s \in Slot : \/ pending'[s] = QueuesHandled(Head(toHost)).requests[s]
                         \/ New(pending'[s]),
         NEW p, Chased(p),
         Sent(toDevice, "read", p) # {} => Sent(toDevice', "read", p) # {}
  PROVE  Chased(p)'
<1>1. PICK x : x = Head(toHost).param
  OBVIOUS
<1>2. PICK left : left = QueuesHandled(Head(toHost))
  OBVIOUS
<1>3. EntryTaken(pending, output, left, x) /\ losses \in Nat
  BY <1>1, <1>2, HandledSlots DEF TypeInv, LineOK
<1>4. \A s \in Slot : Asks(s, p)' =>
        \/ Asks(s, p) /\ pending'[s].retries = pending[s].retries /\ x # p
        \/ pending'[s].retries = 0
  <2>1. ASSUME NEW s \in Slot, pending'[s] = left.requests[s], Asks(s, p)', ~ New(pending'[s])
        PROVE  pending'[s] = pending[s] /\ Asks(s, p) /\ x # p
    <3>1. pending'[s] = pending[s] /\ pending[s] # NoRequest
      BY <1>3, <2>1 DEF EntryTaken, Asks
    <3>2. QED
      BY <1>3, <2>1, <3>1 DEF EntryTaken, Asks
  <2>2. QED
    BY <1>2, <2>1 DEF New
<1>5. CASE x = p
  BY <1>3, <1>4, <1>5 DEF Chased
<1>6. CASE x # p
  <2>1. Queued(output, p) # {} => Queued(output', p) # {}
    BY <1>2, <1>3 DEF EntryTaken
  <2>2. Sent(toHost, "entry", p) # {} => Sent(toHost', "entry", p) # {}
    BY <1>1, <1>6, TailKeeps DEF TypeInv, LineOK
  <2>3. InFlight(p) => InFlight(p)'
    BY <2>1, <2>2 DEF InFlight
  <2>4. QED
    BY <1>3, <1>4, <2>3, ChasedKept
<1>7. QED
  BY <1>5, <1>6

LEMMA ChasedEntry ==
  ASSUME TypeInv, \/ ReceiveEntry \/ VerifyEntry \/ VerifyRunning
                  \/ \E answer \in {Confirm, Cancel} : VerifyAsked(answer),
         NEW p, Chased(p)
  PROVE  Chased(p)'
<1>1. PICK frame : frame = Head(toHost)
  OBVIOUS
<1>2. CASE ReceiveEntry \/ VerifyEntry
  <2>1. /\ toHost # << >> /\ frame.kind = "entry" /\ toHost' = Tail(toHost)
        /\ pending' = QueuesHandled(frame).requests
        /\ output' = QueuesHandled(frame).packets
        /\ toDevice' = toDevice /\ losses' = losses
    BY <1>1, <1>2, EntryHandled
  <2>2. QED
    BY <1>1, <2>1, ChasedTaken
<1>3. CASE VerifyRunning
  <2> DEFINE left == QueuesHandled(frame)
             ps == <<frame.param>>
             q == RequestEach(left.requests, ps)
  <2>1. /\ toHost # << >> /\ frame.kind = "entry" /\ toHost' = Tail(toHost)
        /\ frame.param \in DOMAIN Kind /\ OwnQueues(left) /\ q.packets \in Seq(Reading)
        /\ pending' = q.requests /\ output' = left.packets
        /\ toDevice' = toDevice \o q.packets /\ losses' = losses
    BY <1>1, <1>3, VerifyRunningFacts
  <2>2. ps \in Seq(DOMAIN Kind) /\ left.requests \in [Slot -> OwnRequest \cup {NoRequest}]
    BY <2>1 DEF OwnQueues
  <2> HIDE DEF left, ps
  <2>3. \A s \in Slot : q.requests[s] = left.requests[s] \/ New(q.requests[s])
    BY <2>2, RequestSlots
  <2> HIDE DEF q
  <2>4. q.packets \in Seq(Reading \cup Writing)
    BY <2>1
  <2>5. Sent(toDevice, "read", p) # {} => Sent(toDevice', "read", p) # {}
    BY <2>1, <2>4, SentMore DEF TypeInv
  <2>6. \A s \in Slot : pending'[s] = left.requests[s] \/ New(pending'[s])
    BY <2>1, <2>3
  <2>7. QED
    BY <1>1, <2>1, <2>5, <2>6, ChasedTaken DEF left
<1>4. ASSUME NEW answer \in {Confirm, Cancel}, VerifyAsked(answer)
      PROVE  Chased(p)'
  <2>1. PICK f : f = WriteFrame(frame.param, answer)
    OBVIOUS
  <2>2. /\ toHost # << >> /\ frame.kind = "entry" /\ toHost' = Tail(toHost)
        /\ pending' = QueuesHandled(frame).requests
        /\ output' = QueuesHandled(frame).packets
        /\ toDevice' = Append(toDevice, f) /\ f \in Writing /\ losses' = losses
    BY <1>1, <1>4, <2>1, VerifyAskedFacts
  <2>3. Append(toDevice, f) = toDevice \o <<f>> /\ <<f>> \in Seq(Reading \cup Writing)
    <3>1. toDevice \in Seq(Reading \cup Writing) /\ f \in Reading \cup Writing
      BY <2>2 DEF TypeInv, LineOK
    <3>2. QED
      BY <3>1
  <2>4. Sent(toDevice, "read", p) # {} => Sent(toDevice', "read", p) # {}
    BY <2>2, <2>3, SentMore DEF TypeInv
  <2>5. QED
    BY <1>1, <2>2, <2>4, ChasedTaken
<1>5. QED
  BY <1>2, <1>3, <1>4

(* The line is longer, and what is tracked more is new.                    *)
LEMMA ChasedSent ==
  ASSUME TypeInv, NEW frames \in Seq(Reading \cup Writing), toDevice' = toDevice \o frames,
         UNCHANGED <<output, toHost, losses>>,
         NEW p, Chased(p),
         \A s \in Slot : Asks(s, p)' =>
           \/ Asks(s, p) /\ pending'[s].retries = pending[s].retries
           \/ pending'[s].retries = 0
  PROVE  Chased(p)'
<1>1. Sent(toDevice, "read", p) # {} => Sent(toDevice', "read", p) # {}
  BY SentMore DEF TypeInv
<1>2. InFlight(p) => InFlight(p)'
  BY <1>1 DEF InFlight
<1>3. losses \in Nat
  BY DEF TypeInv, LineOK
<1>4. QED
  BY <1>2, <1>3, ChasedKept

(* What the proofs ask of the constants: every entry comes in one frame,   *)
(* the line loses fewer frames than a read is retried, so that one retry   *)
(* is left for a read that is due before its answer can come or that found *)
(* the output queue full, and the map has room for all parameters there    *)
(* are.                                                                    *)
LineFits == Long = {} /\ MaxLoss < RetryCount /\ Total <= MaxParameters

(* But for what the user lets grow old at a prompt. *)
AllChased == Prompted \/ \A p \in Plain : Chased(p)
NoneGivenUp == Prompted \/ past.givenUp = {}

LEMMA ChasedStep ==
  ASSUME LineFits, TypeInv, ReadOnce, LoadedFull, StartOK, Commands, QuietWhenDue,
         [TuiNext]_allVars, ~ Prompted, NEW p \in Plain, Chased(p)
  PROVE  Chased(p)'
<1>1. /\ pending \in [Slot -> OwnRequest \cup {NoRequest}] /\ losses \in Nat
      /\ toDevice \in Seq(Reading \cup Writing)
  BY OwnFacts DEF TypeInv, LineOK
<1>2. ASSUME UNCHANGED <<pending, output, toDevice, toHost, losses>>
      PROVE  Chased(p)'
  BY <1>2 DEF Chased, Asks, InFlight
<1>3. CASE KeyOnly \/ Refresh
  BY <1>2, <1>3 DEF KeyOnly, Refresh, vars, wire
<1>4. CASE ApplyEdit \/ ExecuteCommand \/ CancelCommand \/ PollCommand
  <2>1. PICK x, data : WriteAndReread(x, data) /\ Writable(x, data)
    BY <1>4, WritingKeys
  <2> DEFINE ps == <<x>>
             f == WriteFrame(x, data)
             q == RequestEach(pending, ps)
  <2>2. /\ ps \in Seq(DOMAIN Kind) /\ <<f>> \o q.packets \in Seq(Reading \cup Writing)
        /\ toDevice' = toDevice \o (<<f>> \o q.packets) /\ pending' = q.requests
        /\ UNCHANGED <<output, toHost, losses>>
    BY <2>1, WriteFacts
  <2> HIDE DEF ps, f
  <2>3. \A s \in Slot : q.requests[s] = pending[s] \/ New(q.requests[s])
    BY <1>1, <2>2, RequestSlots
  <2> HIDE DEF q
  <2>4. \A s \in Slot : Asks(s, p)' =>
          \/ Asks(s, p) /\ pending'[s].retries = pending[s].retries
          \/ pending'[s].retries = 0
    BY <2>2, <2>3, NewIsYoung DEF Asks
  <2>5. QED
    BY <2>2, <2>4, ChasedSent
<1>5. CASE SetStart \/ GetStart
  <2>1. PICK ids \in Seq(DOMAIN Kind), frames \in Seq(Reading \cup Writing), elapsed \in Nat :
          /\ toDevice' = toDevice \o frames
          /\ UNCHANGED <<output, toHost, losses>>
    BY <1>5, JobStartFacts, Zenon
  <2>2. \A s \in Slot : Asks(s, p)' => pending'[s].retries = 0
    BY <1>5, JobStartYoung, NewIsYoung DEF Asks, LineFits
  <2>3. QED
    BY <2>1, <2>2, ChasedSent
<1>6. CASE \/ ReceiveEntry \/ VerifyEntry \/ VerifyRunning
           \/ \E answer \in {Confirm, Cancel} : VerifyAsked(answer)
  BY <1>6, ChasedEntry
<1>7. CASE \/ SetNothing \/ GetDone \/ Verified \/ GiveUp \/ UNCHANGED allVars
           \/ \E x \in DOMAIN Kind : StrayEntry(x)
  BY <1>2, <1>7 DEF SetNothing, GetDone, Verified, GiveUp, StrayEntry, vars, wire, allVars
<1>8. ~ \E elapsed \in 1..Timeout : PromptTold(elapsed)
  BY DEF PromptTold, Commands
<1>9. CASE SendDrained
  BY <1>9, DueIsQuiet, ChasedDrain DEF LineFits
<1>10. CASE TimePasses
  BY <1>10, ChasedTime
<1>11. CASE World
  BY <1>11, ChasedWorld
<1>12. ~ ReceiveChunk
  BY NoChunks DEF TypeInv, LineFits
<1>13. QED
  BY <1>3, <1>4, <1>5, <1>6, <1>7, <1>8, <1>9, <1>10, <1>11, <1>12, KeyKinds
     DEF TuiNext, Jobs, Packets

LEMMA AllChasedStep ==
  ASSUME LineFits, TypeInv, ReadOnce, LoadedFull, StartOK, Commands, QuietWhenDue,
         [TuiNext]_allVars, AllChased
  PROVE  AllChased'
<1> SUFFICES ASSUME ~ Prompted', NEW p \in Plain PROVE Chased(p)'
  BY DEF AllChased
<1>1. ~ Prompted
  BY PromptStays DEF TypeInv
<1>2. QED
  BY <1>1, ChasedStep DEF AllChased

LEMMA NoneGivenUpStep ==
  ASSUME LineFits, TypeInv, ReadOnce, Commands, QuietWhenDue, AllChased, NoneGivenUp,
         [TuiNext]_allVars
  PROVE  NoneGivenUp'
<1> SUFFICES ASSUME ~ Prompted' PROVE past'.givenUp = {}
  BY DEF NoneGivenUp
<1>1. ~ Prompted /\ past.givenUp = {} /\ \A p \in Plain : Chased(p)
  BY PromptStays DEF TypeInv, NoneGivenUp, AllChased
<1>2. CASE SendDrained
  <2>1. \A p \in Plain : p \notin past'.givenUp
    BY <1>1, <1>2, DueIsQuiet, ChasedDrain DEF LineFits
  <2>2. past'.givenUp \subseteq Plain
    <3>1. TypeInv'
      BY TypeStep
    <3>2. QED
      BY <3>1 DEF TypeInv, Past, Plain, LineFits
  <2>3. QED
    BY <2>1, <2>2
<1>3. CASE ~ SendDrained
  BY <1>1, <1>3, PastKept
<1>4. QED
  BY <1>2, <1>3

-----------------------------------------------------------------------------
(* All this holds from the beginning.                                      *)
LineInv ==
  /\ TypeInv /\ ReadOnce /\ LoadedFull /\ StartOK /\ Commands
  /\ QuietWhenDue /\ AllChased /\ NoneGivenUp

LEMMA InitSlots ==
  ASSUME TuiInit, NEW s \in Slot
  PROVE  /\ pending[s] # NoRequest => New(pending[s])
         /\ AtMostOne(Asked(pending, Dev, 0))
<1>1. PICK elapsed \in 0..Timeout : pending = Aged(Discovered.requests, elapsed)
  BY InitType
<1>2. PICK requests : requests = Discovered.requests
  OBVIOUS
<1>3. elapsed \in Nat
  BY TimingAssumption
<1>4. /\ requests \in [Slot -> OwnRequest \cup {NoRequest}]
      /\ \A t \in Slot : requests[t] \in {NoRequest, Fresh0}
      /\ AtMostOne(Asked(requests, Dev, 0))
  BY <1>2, DiscoveredFacts DEF OwnQueues
<1>5. New(Fresh0)
  BY KindFacts, NewIsNew DEF Fresh0
<1>6. \A t \in Slot : LET r == Aged(requests, elapsed)[t] IN
        /\ r = NoRequest <=> requests[t] = NoRequest
        /\ r # NoRequest => /\ r \in OwnRequest /\ r.param = requests[t].param
                            /\ r.retries = requests[t].retries
        /\ New(requests[t]) => New(r)
  BY <1>3, <1>4, AgedSlots
<1>7. pending = Aged(requests, elapsed)
  BY <1>1, <1>2
<1>8. pending[s] # NoRequest => New(pending[s])
  BY <1>4, <1>5, <1>6, <1>7
<1>9. Asked(pending, Dev, 0) \subseteq Asked(requests, Dev, 0)
  <2>1. \A t \in Slot : pending[t] # NoRequest => /\ requests[t] \in OwnRequest
                                                 /\ requests[t] # NoRequest
                                                 /\ pending[t].param = requests[t].param
    BY <1>4, <1>6, <1>7
  <2>2. \A r \in OwnRequest : r.dev = Dev
    BY DEF OwnRequest
  <2>3. QED
    BY <2>1, <2>2 DEF Asked
<1>10. AtMostOne(Asked(pending, Dev, 0))
  BY <1>4, <1>9 DEF AtMostOne
<1>11. QED
  BY <1>8, <1>10

LEMMA InitIdle ==
  ASSUME TuiInit
  PROVE  /\ phase \in {"tui", "load", "start"} /\ job.ids = << >> /\ job.told = << >>
         /\ job.asked = {} /\ job.late = FALSE /\ past.givenUp = {}
         /\ toDevice = << >> /\ toHost = << >>
<1>1. phase = "tui" \/ phase = "load" \/ phase = "start"
  BY ONLY TuiInit, Zenon DEF TuiInit
<1>2. job = [ids |-> << >>, remaining |-> {}, told |-> << >>, asked |-> {}, late |-> FALSE]
  BY ONLY TuiInit, Zenon DEF TuiInit
<1>3. /\ toDevice = << >> /\ toHost = << >>
      /\ past = [edits |-> 0, refreshes |-> 0, stalled |-> FALSE, givenUp |-> {},
                 hasty |-> FALSE, cut |-> FALSE, strays |-> {}]
  BY ONLY TuiInit, Zenon DEF TuiInit
<1>4. QED
  BY <1>1, <1>2, <1>3

LEMMA InitLine == TuiInit => LineInv
<1> SUFFICES ASSUME TuiInit PROVE LineInv
  OBVIOUS
<1>1. /\ TypeInv /\ ReadOnce /\ Shown = {} /\ Device0 = NewDevice(Total)
      /\ output = Discovered.packets
  BY InitType, InitReadsOnce
<1>2. /\ phase \in {"tui", "load", "start"} /\ job.ids = << >>
      /\ job.asked = {} /\ job.late = FALSE /\ past.givenUp = {}
      /\ toDevice = << >> /\ toHost = << >>
  BY InitIdle
<1>3. \A s \in Slot : pending[s] # NoRequest => New(pending[s]) /\ pending[s].retries = 0
  BY InitSlots, NewIsYoung
<1>4. LoadedFull
  <2>1. Device0.loaded = FALSE
    BY <1>1, KindFacts DEF NewDevice
  <2>2. Asked(pending, Dev, 0) = {} \/ \E s : s \in Asked(pending, Dev, 0)
    OBVIOUS
  <2>3. AtMostOne(Asked(pending, Dev, 0))
    <3>1. ASSUME NEW s \in Asked(pending, Dev, 0) PROVE AtMostOne(Asked(pending, Dev, 0))
      BY <3>1, InitSlots DEF Asked
    <3>2. QED
      BY <3>1 DEF AtMostOne
  <2>4. QED
    BY <1>1, <2>1, <2>3 DEF LoadedFull, AllStored, SoughtOnce
<1>5. StartOK
  <2>1. phase = "start" => pending = Discovered.requests
    BY ONLY TuiInit, Zenon DEF TuiInit
  <2>2. QED
    BY <1>1, <1>2, <2>1 DEF StartOK
<1>6. Commands
  BY <1>2 DEF Commands
<1>7. QuietWhenDue
  BY <1>3 DEF QuietWhenDue, DueQuiet, Asks, Due
<1>8. AllChased
  <2>1. losses = 0
    BY ONLY TuiInit, Zenon DEF TuiInit
  <2>2. QED
    BY <1>3, <2>1 DEF AllChased, Chased, Asks
<1>9. NoneGivenUp
  BY <1>2 DEF NoneGivenUp
<1>10. QED
  BY <1>1, <1>4, <1>5, <1>6, <1>7, <1>8, <1>9 DEF LineInv

LEMMA LineStep ==
  ASSUME LineFits, LineInv, [TuiNext]_allVars
  PROVE  LineInv'
<1>1. TypeInv' /\ ReadOnce'
  BY TypeStep, ReadOnceStep DEF LineInv
<1>2. LoadedFull' /\ StartOK' /\ Commands'
  BY LoadedFullStep, StartStep, CommandsStep DEF LineInv, LineFits, TypeInv
<1>3. QuietWhenDue'
  BY QuietWhenDueStep DEF LineInv, LineFits
<1>4. AllChased' /\ NoneGivenUp'
  BY AllChasedStep, NoneGivenUpStep DEF LineInv
<1>5. QED
  BY <1>1, <1>2, <1>3, <1>4 DEF LineInv

-----------------------------------------------------------------------------
(* `set` and `export`: what they tell is what the device holds *)

(* Of a parameter the device did not ask back about: the answers on their  *)
(* way say what it holds, the reads go after the writes, and what was read *)
(* and what was told is held still.                                        *)
SteadyOf(p) ==
  /\ RepliesFresh(p) /\ ReadsLast(p)
  /\ phase = "get" /\ p \in Shown => StillHeld(Looked(Device0, p), p) /\ Unwritten(p)
  /\ p \in DOMAIN job.told =>
       p \in past.strays \/ (StillHeld(job.told[p], p) /\ Unwritten(p))

JobFresh == phase # "tui" => \A p \in Plain \ job.asked : SteadyOf(p)

(* A step that tells and stores nothing of the parameter.                  *)
LEMMA SteadySame ==
  ASSUME NEW p, SteadyOf(p), held'[p] = held[p], past.strays \subseteq past'.strays,
         p \in DOMAIN job'.told => p \in DOMAIN job.told /\ job'.told[p] = job.told[p],
         \/ toDevice' = toDevice
         \/ ReadsLast(p)' /\ (Unwritten(p) => Unwritten(p)'),
         \/ toHost' = toHost
         \/ LineOK /\ toHost # << >> /\ toHost' = Tail(toHost),
         phase' = "get" /\ p \in Shown' =>
           phase = "get" /\ p \in Shown /\ Device0'.params[p] = Device0.params[p]
  PROVE  SteadyOf(p)'
<1>1. Unwritten(p) => Unwritten(p)'
  BY DEF Unwritten
<1>2. ReadsLast(p)'
  BY DEF SteadyOf, ReadsLast
<1>3. RepliesFresh(p)'
  BY <1>1, RepliesSame DEF SteadyOf
<1>4. \A v : StillHeld(v, p)' <=> StillHeld(v, p)
  BY DEF StillHeld
<1>5. ASSUME p \in DOMAIN job'.told
      PROVE  p \in past'.strays \/ (StillHeld(job.told[p], p)' /\ Unwritten(p)')
  <2>1. PICK v : v = job.told[p]
    OBVIOUS
  <2>2. v = job'.told[p] /\ p \in DOMAIN job.told
    BY <1>5, <2>1
  <2>3. p \in past.strays \/ (StillHeld(job.told[p], p) /\ Unwritten(p))
    BY <2>2 DEF SteadyOf
  <2>4. p \in past'.strays \/ (StillHeld(v, p)' /\ Unwritten(p)')
    BY <1>1, <1>4, <2>1, <2>3
  <2>5. QED
    BY <2>2, <2>4
<1>6. ASSUME phase' = "get", p \in Shown'
      PROVE  StillHeld(Looked(Device0, p), p)' /\ Unwritten(p)'
  <2>1. PICK v : v = Looked(Device0, p)
    OBVIOUS
  <2>2. phase = "get" /\ p \in Shown /\ v = Looked(Device0, p)'
    BY <1>6, <2>1 DEF Looked
  <2>3. StillHeld(v, p) /\ Unwritten(p)
    BY <2>1, <2>2 DEF SteadyOf
  <2>4. StillHeld(v, p)' /\ Unwritten(p)'
    BY <1>1, <1>4, <2>3
  <2>5. QED
    BY <2>2, <2>4
<1>7. QED
  BY <1>2, <1>3, <1>5, <1>6 DEF SteadyOf

(* A write of another parameter adds nothing of this one.                  *)
LEMMA SentOther ==
  ASSUME LineOK, NEW f \in Writing, NEW kind, NEW p, f.param # p
  PROVE  Sent(Append(toDevice, f), kind, p) = Sent(toDevice, kind, p)
<1> DEFINE T == Reading \cup Writing
           last == <<f>>
<1>1. toDevice \in Seq(T) /\ last \in Seq(T) /\ Append(toDevice, f) = toDevice \o last
  BY DEF LineOK
<1>2. Sent(last, kind, p) = {}
  BY DEF Sent
<1> HIDE DEF T, last
<1>3. QED
  BY <1>1, <1>2, SentJoined

(* The writes of a job go before its reads.                                *)
LEMMA WritesGoFirst ==
  ASSUME LineOK, NEW p, Sent(toDevice, "read", p) = {},
         NEW writes \in Seq(Writing), NEW reads \in Seq(Reading),
         toDevice' = toDevice \o (writes \o reads)
  PROVE  ReadsLast(p)'
<1> DEFINE T == Reading \cup Writing
           first == toDevice \o writes
<1>1. toDevice \in Seq(T) /\ writes \in Seq(T) /\ reads \in Seq(T)
  BY DEF LineOK
<1>2. Sent(reads, "write", p) = {}
  BY ReadsOnly
<1>3. Sent(writes, "read", p) = {}
  <2> DEFINE W == Writing
  <2>1. writes \in Seq(W) /\ \A f \in W : f.kind = "write"
    BY DEF Writing
  <2> HIDE DEF W
  <2>2. \A i \in DOMAIN writes : writes[i].kind = "write"
    BY <2>1
  <2>3. QED
    BY <2>2 DEF Sent
<1> HIDE DEF T
<1>4. first \in Seq(T) /\ toDevice' = first \o reads /\ Len(first) \in Nat
  BY <1>1
<1>5. Sent(first, "read", p) = {}
  BY <1>1, <1>3, SentJoined
<1> HIDE DEF first
<1>6. /\ \A i \in Sent(toDevice', "read", p) :
           i \in Nat /\ i - Len(first) \in Sent(reads, "read", p)
      /\ \A i \in Sent(reads, "read", p) : i \in 1..Len(reads)
      /\ \A j \in Sent(first, "write", p) : j \in 1..Len(first)
      /\ Sent(toDevice', "write", p) = Sent(first, "write", p)
  BY <1>1, <1>2, <1>4, <1>5, SentConcat, SentJoined
<1>7. ASSUME NEW i \in Sent(toDevice', "read", p), NEW j \in Sent(toDevice', "write", p)
      PROVE  j < i
  <2>1. i \in Nat /\ i - Len(first) \in 1..Len(reads) /\ j \in 1..Len(first)
    BY <1>6
  <2>2. QED
    BY <1>4, <2>1
<1>8. QED
  BY <1>7 DEF ReadsLast

(* Nothing is written to the root, which is a folder.                      *)
LEMMA RootUnwritten ==
  ASSUME LineOK
  PROVE  Unwritten(0) /\ ReadsLast(0)
<1>1. Kind[0] = "folder"
  BY DeviceAssumption
<1>2. \A f \in Writing : f.param # 0
  BY <1>1 DEF Writing
<1>3. \A f \in Reading : f.kind # "write"
  BY DEF Reading
<1> DEFINE T == Reading \cup Writing
<1>4. toDevice \in Seq(T) /\ \A f \in T : ~ (f.kind = "write" /\ f.param = 0)
  BY <1>2, <1>3 DEF LineOK
<1> HIDE DEF T
<1>5. Sent(toDevice, "write", 0) = {}
  BY <1>4 DEF Sent
<1>6. QED
  BY <1>5 DEF Unwritten, ReadsLast

LEMMA SetStartSteady ==
  ASSUME TypeInv, ReadOnce, LoadedFull, StartOK, SetStart, NEW p \in Plain, SteadyOf(p)
  PROVE  SteadyOf(p)'
<1>1. PICK ids \in Seq(DOMAIN Kind), writes \in Seq(Writing) :
        LET q == RequestEach(pending, ids) IN
        /\ q.packets \in Seq(Reading)
        /\ toDevice' = toDevice \o (writes \o q.packets)
        /\ job' = [job EXCEPT !.ids = ids]
        /\ phase \in {"load", "start"} /\ phase' = "verify" /\ UNCHANGED <<toHost, held>>
  BY SetStartFacts
<1>2. LineOK /\ LineOK'
  BY TypeStep DEF TypeInv, TuiNext, Jobs
<1>3. ReadsLast(p)' /\ RepliesFresh(p)'
  <2>1. CASE p = 0
    <3>1. Unwritten(0)' /\ ReadsLast(0)'
      <4>1. Unwritten(0)' /\ ReadsLast(0)'
        BY <1>2, RootUnwritten, PTL
      <4>2. QED
        BY <4>1
    <3>2. QED
      BY <1>1, <2>1, <3>1, RepliesSame DEF SteadyOf
  <2>2. CASE p # 0
    <3>1. Sent(toDevice, "read", p) = {} /\ Sent(toHost, "entry", p) = {}
      BY <2>2, QuietBefore DEF SetStart
    <3>2. ReadsLast(p)'
      BY <1>1, <1>2, <3>1, WritesGoFirst
    <3>3. QED
      BY <1>1, <3>1, <3>2 DEF RepliesFresh
  <2>3. QED
    BY <2>1, <2>2
<1>4. DOMAIN job'.told = {}
  BY <1>1 DEF TypeInv, JobOK
<1>5. QED
  BY <1>1, <1>3, <1>4 DEF SteadyOf

LEMMA GetStartSteady ==
  ASSUME TypeInv, StartOK, GetStart, past.strays \subseteq past'.strays,
         NEW p \in Plain, SteadyOf(p)
  PROVE  SteadyOf(p)'
<1>1. PICK ids \in Seq(DOMAIN Kind) :
        LET q == RequestEach(pending, ids) IN
        /\ q.packets \in Seq(Reading)
        /\ toDevice' = toDevice \o q.packets
        /\ job' = [job EXCEPT !.ids = ids, !.remaining = ToSet(ids)]
        /\ phase = "start" /\ phase' = "get" /\ UNCHANGED <<devices, held, toHost>>
  BY GetStartFacts, Zenon
<1>2. Shown' = {}
  BY <1>1 DEF StartOK, Shown, Device0
<1>3. ReadsLast(p)' /\ (Unwritten(p) => Unwritten(p)')
  BY <1>1, ReadsLastJoined DEF TypeInv, SteadyOf
<1>4. job'.told = job.told
  BY <1>1 DEF TypeInv, JobOK
<1>5. QED
  BY <1>1, <1>2, <1>3, <1>4, SteadySame

LEMMA GetDoneSteady ==
  ASSUME TypeInv, GetDone, NEW p \in Plain, SteadyOf(p)
  PROVE  SteadyOf(p)'
<1> DEFINE told == [x \in ToSet(job.ids) \cap Shown |-> Looked(Device0, x)]
<1>1. /\ phase = "get" /\ phase' = "exit" /\ job' = [job EXCEPT !.told = told]
      /\ UNCHANGED <<toDevice, toHost, held>>
  BY DEF GetDone, wire
<1>2. /\ DOMAIN told = ToSet(job.ids) \cap Shown
      /\ \A x \in DOMAIN told : told[x] = Looked(Device0, x)
  OBVIOUS
<1> HIDE DEF told
<1>3. job'.told = told
  BY <1>1 DEF TypeInv, JobOK
<1>4. (Unwritten(p) <=> Unwritten(p)') /\ ReadsLast(p)'
  BY <1>1 DEF SteadyOf, Unwritten, ReadsLast
<1>5. RepliesFresh(p)'
  BY <1>1, <1>4, RepliesSame DEF SteadyOf
<1>6. p \in DOMAIN told => StillHeld(told[p], p) /\ Unwritten(p)
  BY <1>1, <1>2 DEF SteadyOf
<1>7. \A v : StillHeld(v, p)' <=> StillHeld(v, p)
  BY <1>1 DEF StillHeld
<1>8. QED
  BY <1>1, <1>3, <1>4, <1>5, <1>6, <1>7 DEF SteadyOf

(* The first entry on the line, if it is this parameter's.                 *)
LEMMA HeadHeld ==
  ASSUME LineOK, NEW p, RepliesFresh(p), toHost # << >>,
         Head(toHost).kind = "entry", Head(toHost).param = p
  PROVE  StillHeld(Head(toHost).value, p) /\ Unwritten(p)
<1>1. 1 \in Sent(toHost, "entry", p)
  BY TakenReply
<1>2. QED
  BY <1>1 DEF RepliesFresh

(* One more parameter is told.                                             *)
LEMMA ToldSteady ==
  ASSUME JobOK, LineOK, NEW x, NEW value, job' = [job EXCEPT !.told = Told(@, x, value)],
         NEW p, SteadyOf(p), past.strays \subseteq past'.strays,
         UNCHANGED <<toDevice, held>>, phase' # "get",
         toHost' = toHost \/ (toHost # << >> /\ toHost' = Tail(toHost)),
         p = x => x \in past'.strays \/ (StillHeld(value, p) /\ Unwritten(p))
  PROVE  SteadyOf(p)'
<1> DEFINE told == Told(job.told, x, value)
<1>1. /\ DOMAIN told = DOMAIN job.told \cup {x} /\ told[x] = value
      /\ p # x /\ p \in DOMAIN told => p \in DOMAIN job.told /\ told[p] = job.told[p]
  BY DEF Told
<1>2. job' = [job EXCEPT !.told = told]
  OBVIOUS
<1> HIDE DEF told
<1>3. job'.told = told
  BY <1>2 DEF JobOK
<1>4. (Unwritten(p) <=> Unwritten(p)') /\ ReadsLast(p)'
  BY DEF SteadyOf, Unwritten, ReadsLast
<1>5. RepliesFresh(p)'
  BY <1>4, RepliesSame DEF SteadyOf
<1>6. p \in DOMAIN told => p \in past'.strays \/ (StillHeld(told[p], p) /\ Unwritten(p))
  BY <1>1 DEF SteadyOf
<1>7. \A v : StillHeld(v, p)' <=> StillHeld(v, p)
  BY DEF StillHeld
<1>8. QED
  BY <1>3, <1>4, <1>5, <1>6, <1>7 DEF SteadyOf

LEMMA VerifyEntrySteady ==
  ASSUME TypeInv, Total <= MaxParameters, VerifyEntry, past.strays \subseteq past'.strays,
         NEW p \in Plain, SteadyOf(p)
  PROVE  SteadyOf(p)'
<1>1. PICK x : x = Head(toHost).param
  OBVIOUS
<1>2. PICK value : value = Head(toHost).value
  OBVIOUS
<1>3. /\ toHost # << >> /\ Head(toHost).kind = "entry" /\ phase' = "verify"
      /\ \/ job' = job
         \/ job' = [job EXCEPT !.told = Told(@, x, Seen(Head(toHost)))]
      /\ toHost' = Tail(toHost) /\ UNCHANGED <<held, toDevice>>
  BY <1>1 DEF VerifyEntry, Arrives
<1>4. Seen(Head(toHost)) = value
  BY <1>2, <1>3, SeenIs
<1>5. LineOK /\ JobOK
  BY DEF TypeInv
<1>6. CASE job' = job
  BY <1>3, <1>5, <1>6, SteadySame
<1>7. CASE job' = [job EXCEPT !.told = Told(@, x, value)]
  <2>1. p = x => StillHeld(value, p) /\ Unwritten(p)
    BY <1>1, <1>2, <1>3, <1>5, HeadHeld DEF SteadyOf
  <2>2. phase' # "get"
    BY <1>3
  <2>3. QED
    BY <1>3, <1>5, <1>7, <2>1, <2>2, ToldSteady
<1>8. QED
  BY <1>3, <1>4, <1>6, <1>7

LEMMA StraySteady ==
  ASSUME TypeInv, NEW x, StrayEntry(x), past.strays \subseteq past'.strays,
         NEW p \in Plain, SteadyOf(p)
  PROVE  SteadyOf(p)'
<1>1. PICK value : value = Looked(Device0, x)
  OBVIOUS
<1>2. /\ job' = [job EXCEPT !.told = Told(@, x, value)]
      /\ phase' = "verify" /\ UNCHANGED <<toDevice, toHost, held>>
  BY <1>1 DEF StrayEntry, wire
<1>3. x \in past'.strays
  <2>1. past' = [past EXCEPT !.strays = @ \cup {x}]
    BY DEF StrayEntry
  <2>2. QED
    BY <2>1 DEF TypeInv, Past
<1>4. LineOK /\ JobOK /\ phase' # "get"
  BY <1>2 DEF TypeInv
<1>5. QED
  BY <1>2, <1>3, <1>4, ToldSteady

LEMMA VerifyAgainSteady ==
  ASSUME TypeInv, VerifyRunning \/ \E answer \in {Confirm, Cancel} : VerifyAsked(answer),
         past.strays \subseteq past'.strays, NEW p \in Plain, SteadyOf(p), p \notin job'.asked
  PROVE  SteadyOf(p)'
<1>1. LineOK /\ DOMAIN job = {"ids", "remaining", "told", "asked", "late"}
  BY DEF TypeInv, JobOK
<1>2. CASE VerifyRunning
  <2>1. PICK reads \in Seq(Reading) : toDevice' = toDevice \o reads
    BY <1>2, VerifyRunningFacts
  <2>2. /\ toHost # << >> /\ toHost' = Tail(toHost) /\ phase' = "verify"
        /\ UNCHANGED <<held, job>>
    BY <1>2, VerifyRunningFacts
  <2>3. ReadsLast(p)' /\ (Unwritten(p) => Unwritten(p)')
    BY <1>1, <2>1, ReadsLastJoined DEF SteadyOf
  <2>4. QED
    BY <1>1, <2>2, <2>3, SteadySame
<1>3. ASSUME NEW answer \in {Confirm, Cancel}, VerifyAsked(answer) PROVE SteadyOf(p)'
  <2>1. PICK x : x = Head(toHost).param
    OBVIOUS
  <2> DEFINE late == ~ line.confirm
  <2>2. /\ toHost # << >> /\ toHost' = Tail(toHost) /\ phase = "verify" /\ phase' = phase
        /\ WriteFrame(x, answer) \in Writing
        /\ toDevice' = Append(toDevice, WriteFrame(x, answer))
        /\ job' = [job EXCEPT !.asked = @ \cup {x}, !.late = late] /\ held' = held
    BY <1>3, <2>1, VerifyAskedFacts
  <2> HIDE DEF late
  <2>3. job'.told = job.told /\ x \in job'.asked
    BY <1>1, <2>2
  <2>4. WriteFrame(x, answer).param # p
    BY <2>3 DEF WriteFrame
  <2>5. \A kind : Sent(toDevice', kind, p) = Sent(toDevice, kind, p)
    BY <1>1, <2>2, <2>4, SentOther
  <2>6. ReadsLast(p)' /\ (Unwritten(p) => Unwritten(p)')
    BY <2>5 DEF SteadyOf, ReadsLast, Unwritten
  <2>7. QED
    BY <1>1, <2>2, <2>3, <2>6, SteadySame
<1>4. QED
  BY <1>2, <1>3

LEMMA ReceiveEntrySteady ==
  ASSUME TypeInv, ReceiveEntry, past.strays \subseteq past'.strays,
         NEW p \in Plain, SteadyOf(p)
  PROVE  SteadyOf(p)'
<1>0. PICK x, value : x = Head(toHost).param /\ value = Head(toHost).value
  OBVIOUS
<1> DEFINE content == Entry(x, value)
<1>1. ManagerOK /\ LineOK /\ AppOK /\ JobOK /\ p \in ParamId
  BY KindFacts DEF TypeInv, Plain
<1>2. /\ toHost # << >> /\ Head(toHost).kind = "entry"
      /\ HandleParameterEntry(Dev, x, content) /\ Noted(x)
      /\ toHost' = Tail(toHost) /\ UNCHANGED <<toDevice, held, phase>>
  BY <1>0 DEF ReceiveEntry, Arrives
<1>3. x \in DOMAIN Kind /\ x \in ParamId /\ content \in Content /\ content.value = value
      /\ content \notin {Absent, Stub}
  BY <1>0, <1>1, <1>2, EntryFacts, KindFacts, ContentAssumption
<1> HIDE DEF content
<1>4. /\ Shown' \in {Shown, Shown \cup {x}}
      /\ \A y \in ParamId \ {x} : Device0'.params[y] = Device0.params[y]
      /\ Device0'.params[x] \in {Device0.params[x], content}
  BY <1>1, <1>2, <1>3, EntryManager
<1>5. job'.told = job.told
  BY <1>1, <1>2 DEF Noted, JobOK
<1>6. CASE p # x
  BY <1>1, <1>2, <1>4, <1>5, <1>6, SteadySame
<1>7. CASE p = x /\ Device0'.params[p] = Device0.params[p]
  <2>1. p \in Shown' => p \in Shown
    BY <1>1, <1>7 DEF Shown, Stored
  <2>2. QED
    BY <1>1, <1>2, <1>5, <1>7, <2>1, SteadySame
<1>8. CASE p = x /\ Device0'.params[p] = content
  <2>1. StillHeld(value, p) /\ Unwritten(p)
    BY <1>0, <1>1, <1>2, <1>8, HeadHeld DEF SteadyOf
  <2>2. Looked(Device0', p) = value
    BY <1>3, <1>8 DEF Looked
  <2>3. (Unwritten(p) <=> Unwritten(p)') /\ ReadsLast(p)'
    BY <1>2 DEF SteadyOf, Unwritten, ReadsLast
  <2>4. RepliesFresh(p)'
    BY <1>1, <1>2, <2>3, RepliesSame DEF SteadyOf
  <2>5. \A v : StillHeld(v, p)' <=> StillHeld(v, p)
    BY <1>2 DEF StillHeld
  <2>6. QED
    BY <1>2, <1>5, <2>1, <2>2, <2>3, <2>4, <2>5 DEF SteadyOf
<1>9. QED
  BY <1>4, <1>6, <1>7, <1>8

(* What is drained goes to the end of the line.                            *)
LEMMA DrainedReads ==
  ASSUME ManagerOK, LineOK, SendDrained
  PROVE  \E reads \in Seq(Reading) : toDevice' = toDevice \o reads
<1> DEFINE T == Reading \cup Writing
           reads == Resent \o Emptied
<1>1. toDevice \in Seq(T) /\ Resent \in Seq(T) /\ Emptied \in Seq(T) /\ reads \in Seq(Reading)
  BY DrainedFrames DEF LineOK
<1>2. toDevice' = toDevice \o Resent \o Emptied
  BY DEF SendDrained, Resent, Emptied
<1> HIDE DEF T
<1>3. toDevice' = toDevice \o reads
  BY <1>1, <1>2
<1> HIDE DEF reads
<1>4. QED
  BY <1>1, <1>3

LEMMA OtherSteady ==
  ASSUME TypeInv, past.strays \subseteq past'.strays,
         \/ SetNothing \/ Verified \/ GiveUp \/ \E elapsed \in 1..Timeout : PromptTold(elapsed)
         \/ SendDrained \/ TimePasses \/ World \/ UNCHANGED allVars,
         NEW p \in Plain, SteadyOf(p)
  PROVE  SteadyOf(p)'
<1>1. ManagerOK /\ LineOK
  BY DEF TypeInv
<1>2. CASE SetNothing \/ Verified \/ GiveUp \/ \E elapsed \in 1..Timeout : PromptTold(elapsed)
  <2>1. /\ phase' # "get" /\ UNCHANGED <<toDevice, toHost, held>>
    BY <1>2 DEF SetNothing, Verified, GiveUp, PromptTold, wire
  <2>2. job'.told = job.told
    <3>1. job' = job \/ job' = [job EXCEPT !.late = FALSE]
      BY <1>2 DEF SetNothing, Verified, GiveUp, PromptTold
    <3>2. QED
      BY <3>1 DEF TypeInv, JobOK
  <2>3. QED
    BY <2>1, <2>2, SteadySame
<1>3. CASE SendDrained
  <2>1. UNCHANGED <<devices, held, toHost, phase, job>>
    BY <1>3 DEF SendDrained, DrainAll
  <2>2. ReadsLast(p)' /\ (Unwritten(p) => Unwritten(p)')
    BY <1>1, <1>3, DrainedReads, ReadsLastJoined DEF SteadyOf
  <2>3. Shown' = Shown /\ Device0' = Device0
    BY <2>1 DEF Shown, Device0
  <2>4. QED
    BY <2>1, <2>2, <2>3, SteadySame
<1>4. CASE TimePasses \/ UNCHANGED allVars
  <2>1. UNCHANGED <<devices, held, toDevice, toHost, phase, job>>
    BY <1>4 DEF TimePasses, UpdateTime, allVars, vars, wire, tui
  <2>2. Shown' = Shown /\ Device0' = Device0
    BY <2>1 DEF Shown, Device0
  <2>3. QED
    BY <2>1, <2>2, SteadySame
<1>5. CASE World
  <2>1. UNCHANGED <<devices, phase, job>>
    BY <1>5 DEF World, DeviceAnswers, DeviceObeys, LoseRequest, LoseReply, DeviceFinishes,
       vars, tui
  <2>2. /\ RepliesFresh(p)' /\ ReadsLast(p)'
        /\ Unwritten(p) => Unwritten(p)' /\ \A v : StillHeld(v, p) => StillHeld(v, p)'
    BY <1>1, <1>5, WorldKeeps DEF SteadyOf
  <2>3. Shown' = Shown /\ Looked(Device0', p) = Looked(Device0, p)
    BY <2>1 DEF Shown, Device0
  <2>4. QED
    BY <2>1, <2>2, <2>3 DEF SteadyOf
<1>6. QED
  BY <1>2, <1>3, <1>4, <1>5

(* What the device asked back about, it asked.                             *)
LEMMA AskedStays ==
  ASSUME TypeInv, [TuiNext]_allVars
  PROVE  job.asked \subseteq job'.asked
<1>1. Jobs => job.asked \subseteq job'.asked
  BY DEF Jobs, SetStart, SetNothing, GetStart, GetDone, Verified, GiveUp, VerifyEntry,
         VerifyRunning, VerifyAsked, StrayEntry, PromptTold, TypeInv, JobOK
<1>2. QED
  BY <1>1, JobKept

LEMMA JobFreshStep ==
  ASSUME LineFits, LineInv, JobFresh, [TuiNext]_allVars
  PROVE  JobFresh'
<1> SUFFICES ASSUME phase' # "tui", NEW p \in Plain, p \notin job'.asked PROVE SteadyOf(p)'
  BY DEF JobFresh
<1>1. TypeInv /\ ReadOnce /\ LoadedFull /\ StartOK /\ Total <= MaxParameters /\ Long = {}
  BY DEF LineInv, LineFits
<1>2. phase # "tui" /\ (Jobs \/ Packets \/ World \/ UNCHANGED allVars)
  BY <1>1, OutsideBrowser DEF TypeInv
<1>3. p \notin job.asked /\ past.strays \subseteq past'.strays
  BY <1>1, AskedStays, PastKept
<1>4. SteadyOf(p) /\ ~ ReceiveChunk
  BY <1>1, <1>2, <1>3, NoChunks DEF JobFresh, TypeInv
<1>5. CASE Jobs
  BY <1>1, <1>3, <1>4, <1>5, SetStartSteady, GetStartSteady, GetDoneSteady, VerifyEntrySteady,
     StraySteady, VerifyAgainSteady, OtherSteady DEF Jobs
<1>6. CASE Packets
  BY <1>1, <1>3, <1>4, <1>6, ReceiveEntrySteady, OtherSteady DEF Packets
<1>7. QED
  BY <1>1, <1>2, <1>3, <1>4, <1>5, <1>6, OtherSteady

LEMMA InitFreshJob == TuiInit => JobFresh
<1> SUFFICES ASSUME TuiInit PROVE JobFresh
  OBVIOUS
<1>1. Shown = {} /\ toDevice = << >> /\ toHost = << >> /\ job.told = << >>
  BY InitType, InitIdle
<1>2. DOMAIN job.told = {}
  BY <1>1
<1>3. \A kind, p : Sent(toDevice, kind, p) = {} /\ Sent(toHost, kind, p) = {}
  BY <1>1 DEF Sent
<1>4. QED
  BY <1>1, <1>2, <1>3 DEF JobFresh, SteadyOf, RepliesFresh, ReadsLast

-----------------------------------------------------------------------------
(* What is waited for is asked for *)

(* And a command line names fewer parameters than requests can be tracked. *)
JobFits ==
  LineFits /\ \A l \in CommandLines : Len(l.writes) < Cardinality(Slot)

Waited ==
  IF phase = "verify" THEN (ToSet(job.ids) \ DOMAIN job.told) \ job.asked
  ELSE IF phase = "get" THEN ToSet(job.ids) \ Shown
  ELSE {}

Pursued == Prompted \/ \A p \in Waited : \E s \in Slot : Asks(s, p)

LEMMA WaitedPlain ==
  ASSUME Long = {}, TypeInv
  PROVE  Waited \subseteq Plain
BY DEF TypeInv, JobOK, Waited, ToSet, Plain

(* At most one request is tracked when the job begins.                     *)
LEMMA StartFree ==
  ASSUME Long = {}, TypeInv, ReadOnce, LoadedFull, StartOK, MayStart
  PROVE  Cardinality(Slot) <= Cardinality(FreeSlots(pending)) + 1
<1>1. IsFiniteSet(Slot) /\ Cardinality(Slot) \in Nat
  BY ProgramAssumption, FS_CardinalityType
<1>2. IsFiniteSet(FreeSlots(pending)) /\ Cardinality(FreeSlots(pending)) \in Nat
  BY <1>1, FS_Subset, FS_CardinalityType DEF FreeSlots
<1>3. \E t : Slot \ {t} \subseteq FreeSlots(pending)
  <2>1. CASE phase = "load"
    BY <2>1, StartYoung DEF FreeSlots
  <2>2. CASE phase = "start"
    <3>1. PICK requests : requests = Discovered.requests
      OBVIOUS
    <3>2. /\ \A s \in Slot : requests[s] \in {NoRequest, Fresh0}
          /\ AtMostOne(Asked(requests, Dev, 0)) /\ pending = requests
      BY <2>2, <3>1, DiscoveredFacts DEF StartOK
    <3>3. Fresh0.param = 0 /\ Fresh0.dev = Dev
      BY KindFacts, NewIsNew DEF Fresh0
    <3>4. \A s \in Slot : requests[s] # NoRequest => s \in Asked(requests, Dev, 0)
      BY <3>2, <3>3 DEF Asked
    <3>5. \A s, t \in Slot : requests[s] # NoRequest /\ requests[t] # NoRequest => s = t
      BY <3>2, <3>4 DEF AtMostOne
    <3>6. QED
      BY <3>2, <3>5 DEF FreeSlots
  <2>3. QED
    BY <2>1, <2>2 DEF MayStart
<1>4. PICK t : Slot \ {t} \subseteq FreeSlots(pending)
  BY <1>3
<1>5. Cardinality(Slot \ {t}) >= Cardinality(Slot) - 1
  BY <1>1, FS_RemoveElement
<1>6. IsFiniteSet(Slot \ {t}) /\ Cardinality(Slot \ {t}) \in Nat
      /\ Cardinality(Slot \ {t}) <= Cardinality(FreeSlots(pending))
  BY <1>1, <1>2, <1>4, FS_Subset, FS_CardinalityType
<1>7. QED
  BY <1>1, <1>2, <1>5, <1>6

(* What a job asks for is tracked.                                         *)
LEMMA JobIds ==
  ASSUME TypeInv, SetStart \/ GetStart
  PROVE  \E ids \in Seq(DOMAIN Kind), elapsed \in Nat :
           /\ pending' = Aged(RequestEach(pending, ids).requests, elapsed)
           /\ job'.ids = ids /\ Len(ids) <= Len(line.writes)
<1>1. CASE SetStart
  <2>1. PICK ids \in Seq(DOMAIN Kind), writes \in Seq(Writing) :
          LET q == RequestEach(pending, ids) IN
          /\ \E elapsed \in Nat : pending' = Aged(q.requests, elapsed)
          /\ job' = [job EXCEPT !.ids = ids] /\ Len(ids) = Len(Resolved)
    BY <1>1, SetStartFacts
  <2>2. job'.ids = ids
    BY <2>1 DEF TypeInv, JobOK
  <2>3. Len(ids) <= Len(line.writes)
    BY <2>1, WritesType
  <2>4. QED
    BY <2>1, <2>2, <2>3
<1>2. CASE GetStart
  <2>1. PICK ids \in Seq(DOMAIN Kind) :
          LET q == RequestEach(pending, ids) IN
          /\ \E elapsed \in Nat : pending' = Aged(q.requests, elapsed)
          /\ job' = [job EXCEPT !.ids = ids, !.remaining = ToSet(ids)]
          /\ Len(ids) = Len(line.writes)
    BY <1>2, GetStartFacts, Zenon
  <2>2. job'.ids = ids
    BY <2>1 DEF TypeInv, JobOK
  <2>3. Len(ids) <= Len(line.writes)
    BY <2>1
  <2>4. QED
    BY <2>1, <2>2, <2>3
<1>3. QED
  BY <1>1, <1>2

LEMMA StartPursued ==
  ASSUME JobFits, TypeInv, ReadOnce, LoadedFull, StartOK, SetStart \/ GetStart,
         NEW p \in ToSet(job'.ids)
  PROVE  \E s \in Slot : Asks(s, p)'
<1>1. MayStart
  BY DEF SetStart, GetStart, MayStart
<1>2. Cardinality(Slot) <= Cardinality(FreeSlots(pending)) + 1
  BY <1>1, StartFree DEF JobFits, LineFits
<1>3. /\ Cardinality(Slot) \in Nat /\ Cardinality(FreeSlots(pending)) \in Nat
      /\ pending \in [Slot -> OwnRequest \cup {NoRequest}]
  BY ProgramAssumption, FS_CardinalityType, FS_Subset, OwnFacts DEF FreeSlots, TypeInv
<1>4. PICK ids \in Seq(DOMAIN Kind), elapsed \in Nat :
        /\ pending' = Aged(RequestEach(pending, ids).requests, elapsed)
        /\ job'.ids = ids /\ Len(ids) <= Len(line.writes)
  BY JobIds, Zenon
<1>5. Len(line.writes) < Cardinality(Slot)
  BY DEF JobFits, TypeInv, AppOK
<1>6. Len(ids) <= Cardinality(FreeSlots(pending))
  <2>1. Len(line.writes) \in Nat
    <3>1. line.writes \in Seq([param : DOMAIN Kind, text : STRING])
      BY ProgramAssumption DEF TypeInv, AppOK
    <3>2. QED
      BY <3>1
  <2>2. Len(ids) \in Nat
    OBVIOUS
  <2>3. QED
    BY <1>2, <1>3, <1>4, <1>5, <2>1, <2>2
<1>7. PICK i \in DOMAIN ids : p = ids[i]
  BY <1>4 DEF ToSet
<1>8. PICK requests : requests = RequestEach(pending, ids).requests
  OBVIOUS
<1>9. /\ requests \in [Slot -> OwnRequest \cup {NoRequest}]
      /\ \E s \in Slot : requests[s] # NoRequest /\ requests[s].param = p
  BY <1>3, <1>6, <1>7, <1>8, RequestSlots
<1>10. PICK s \in Slot : requests[s] # NoRequest /\ requests[s].param = p
  BY <1>9
<1>11. LET r == Aged(requests, elapsed)[s] IN r # NoRequest /\ r.param = requests[s].param
  BY <1>9, <1>10, AgedSlots
<1>12. pending' = Aged(requests, elapsed)
  BY <1>4, <1>8
<1>13. QED
  BY <1>10, <1>11, <1>12 DEF Asks

(* What is asked for stays so, when another parameter's entry comes.       *)
LEMMA HandledKeeps ==
  ASSUME TypeInv, toHost # << >>, Head(toHost).kind = "entry",
         NEW p, NEW s \in Slot, Asks(s, p), Head(toHost).param # p
  PROVE  QueuesHandled(Head(toHost)).requests[s] = pending[s]
BY HandledSlots DEF EntryTaken, Asks

(* And when it is the parameter's, the place is free again.                *)
LEMMA HandledFrees ==
  ASSUME TypeInv, toHost # << >>, Head(toHost).kind = "entry",
         NEW s \in Slot, Asks(s, Head(toHost).param)
  PROVE  1 <= Cardinality(FreeSlots(QueuesHandled(Head(toHost)).requests))
<1>1. PICK requests : requests = QueuesHandled(Head(toHost)).requests
  OBVIOUS
<1>2. requests[s] = NoRequest
  BY <1>1, HandledSlots DEF EntryTaken, Asks
<1>3. s \in FreeSlots(requests) /\ FreeSlots(requests) \subseteq Slot
  BY <1>2 DEF FreeSlots
<1>4. IsFiniteSet(FreeSlots(requests))
  BY <1>3, ProgramAssumption, FS_Subset
<1>5. Cardinality(FreeSlots(requests)) \in Nat /\ Cardinality(FreeSlots(requests)) # 0
  BY <1>3, <1>4, FS_CardinalityType, FS_EmptySet
<1>6. QED
  BY <1>1, <1>5

LEMMA PursuedEntry ==
  ASSUME TypeInv, ReceiveEntry \/ VerifyEntry \/ \E answer \in {Confirm, Cancel} : VerifyAsked(answer),
         NEW p, Head(toHost).param # p, NEW s \in Slot, Asks(s, p)
  PROVE  Asks(s, p)'
<1>1. /\ toHost # << >> /\ Head(toHost).kind = "entry"
      /\ pending' = QueuesHandled(Head(toHost)).requests
  <2>1. CASE ReceiveEntry \/ VerifyEntry
    BY <2>1, EntryHandled
  <2>2. CASE \E answer \in {Confirm, Cancel} : VerifyAsked(answer)
    BY <2>2, VerifyAskedFacts
  <2>3. QED
    BY <2>1, <2>2
<1>2. pending'[s] = pending[s]
  BY <1>1, HandledKeeps
<1>3. QED
  BY <1>2 DEF Asks

(* A command that runs is asked for again, in the place it had.            *)
LEMMA PursuedRunning ==
  ASSUME TypeInv, VerifyRunning, NEW p, NEW s \in Slot, Asks(s, p)
  PROVE  \E t \in Slot : Asks(t, p)'
<1>1. PICK frame : frame = Head(toHost)
  OBVIOUS
<1>2. PICK left : left = QueuesHandled(frame)
  OBVIOUS
<1> DEFINE ps == <<frame.param>>
           q == RequestEach(left.requests, ps)
<1>3. /\ toHost # << >> /\ frame.kind = "entry" /\ frame.param \in DOMAIN Kind
      /\ OwnQueues(left) /\ pending' = q.requests
  BY <1>1, <1>2, VerifyRunningFacts
<1>4. /\ ps \in Seq(DOMAIN Kind) /\ Len(ps) = 1 /\ 1 \in DOMAIN ps /\ ps[1] = frame.param
      /\ left.requests \in [Slot -> OwnRequest \cup {NoRequest}]
  BY <1>3 DEF OwnQueues
<1> HIDE DEF ps
<1>5. CASE frame.param # p
  <2>1. left.requests[s] = pending[s] /\ left.requests[s] # NoRequest
    BY <1>1, <1>2, <1>3, <1>5, HandledKeeps DEF Asks
  <2>2. q.requests[s] = left.requests[s]
    BY <1>4, <2>1, RequestSlots
  <2>3. QED
    BY <1>3, <2>1, <2>2 DEF Asks
<1>6. CASE frame.param = p
  <2>1. Len(ps) <= Cardinality(FreeSlots(left.requests))
    BY <1>1, <1>2, <1>3, <1>4, <1>6, HandledFrees
  <2>2. \A i \in DOMAIN ps : \E t \in Slot : q.requests[t] # NoRequest /\ q.requests[t].param = ps[i]
    BY <1>4, <2>1, RequestSlots
  <2>3. \E t \in Slot : q.requests[t] # NoRequest /\ q.requests[t].param = p
    BY <1>4, <1>6, <2>2
  <2>4. QED
    BY <1>3, <2>3 DEF Asks
<1>7. QED
  BY <1>5, <1>6

(* A parameter that is waited for after an entry was waited for before,    *)
(* and the entry was another's.                                            *)
LEMMA WaitedEntry ==
  ASSUME LineFits, TypeInv, ReceiveEntry \/ VerifyEntry, NEW p \in Waited'
  PROVE  p \in Waited /\ Head(toHost).param # p
<1>1. PICK frame : frame = Head(toHost)
  OBVIOUS
<1>2. PICK x, seen : x = frame.param /\ seen = Seen(frame)
  OBVIOUS
<1>3. /\ toHost # << >> /\ frame.kind = "entry" /\ Device0' = Handled(frame) /\ phase' = phase
  BY <1>1, EntryHandled
<1>4. DOMAIN job = {"ids", "remaining", "told", "asked", "late"}
  BY DEF TypeInv, JobOK
<1>5. CASE VerifyEntry
  <2>1. phase = "verify" /\ \/ job' = job /\ ~ Awaited(x)
                            \/ job' = [job EXCEPT !.told = Told(@, x, seen)]
    BY <1>1, <1>2, <1>5 DEF VerifyEntry
  <2>2. CASE job' = job /\ ~ Awaited(x)
    BY <1>1, <1>2, <1>3, <2>1, <2>2 DEF Waited, Awaited
  <2>3. CASE job' = [job EXCEPT !.told = Told(@, x, seen)]
    <3>1. PICK told : told = Told(job.told, x, seen)
      OBVIOUS
    <3>2. DOMAIN told = DOMAIN job.told \cup {x}
      BY <3>1 DEF Told
    <3>3. job'.told = told /\ job'.ids = job.ids /\ job'.asked = job.asked
      BY <1>4, <2>3, <3>1
    <3>4. QED
      BY <1>1, <1>2, <1>3, <2>1, <3>2, <3>3 DEF Waited
  <2>4. QED
    BY <2>1, <2>2, <2>3
<1>6. CASE ReceiveEntry
  <2>1. phase # "verify" /\ phase = "get"
    BY <1>3, <1>6 DEF ReceiveEntry, Waited
  <2>2. job'.ids = job.ids
    BY <1>4, <1>6 DEF ReceiveEntry, Noted
  <2>3. x \in DOMAIN Kind /\ Entry(x, frame.value) \in Content
    BY <1>1, <1>2, <1>3, EntryFacts DEF TypeInv
  <2>4. PICK after : after = WithParameter(Device0, x, Entry(x, frame.value))
    OBVIOUS
  <2>5. x \in Stored(after)
    BY <2>3, <2>4, StoresEntry DEF LineFits, TypeInv
  <2>6. Shown' = Stored(after)
    BY <1>2, <1>3, <2>4 DEF Shown, Handled
  <2>7. Shown \subseteq Shown'
    <3>1. HandleParameterEntry(Dev, x, Entry(x, frame.value))
      BY <1>1, <1>2, <1>6 DEF ReceiveEntry
    <3>2. QED
      BY <2>3, <3>1, EntryManager DEF TypeInv
  <2>8. QED
    BY <1>1, <1>2, <1>3, <2>1, <2>2, <2>5, <2>6, <2>7 DEF Waited
<1>7. QED
  BY <1>5, <1>6

LEMMA PursuedStep ==
  ASSUME JobFits, LineInv, Pursued, [TuiNext]_allVars
  PROVE  Pursued'
<1> SUFFICES ASSUME ~ Prompted', NEW p \in Waited' PROVE \E s \in Slot : Asks(s, p)'
  BY DEF Pursued
<1>1. /\ phase' \in {"verify", "get"} /\ p \in ToSet(job'.ids)
      /\ TypeInv /\ LineFits /\ Long = {}
  BY DEF Waited, LineInv, JobFits, LineFits
<1>2. /\ phase # "tui" /\ (Jobs \/ Packets \/ World \/ UNCHANGED allVars)
      /\ ~ ReceiveChunk /\ ~ Prompted
  BY <1>1, OutsideBrowser, NoChunks, PromptStays DEF TypeInv
<1>3. p \in Waited => p \in Plain /\ \E s \in Slot : Asks(s, p)
  BY <1>1, <1>2, WaitedPlain DEF Pursued
<1>4. CASE SetStart \/ GetStart
  BY <1>1, <1>4, StartPursued DEF LineInv
<1>5. ~ SetNothing /\ ~ GetDone /\ ~ Verified /\ ~ GiveUp
  BY <1>1 DEF SetNothing, GetDone, Verified, GiveUp
<1>6. ~ \E elapsed \in 1..Timeout : PromptTold(elapsed)
  BY <1>2 DEF PromptTold, LineInv, Commands
<1>7. CASE ReceiveEntry \/ VerifyEntry
  <2>1. p \in Waited /\ Head(toHost).param # p
    BY <1>1, <1>7, WaitedEntry
  <2>2. QED
    BY <1>1, <1>3, <1>7, <2>1, PursuedEntry
<1>8. CASE VerifyRunning
  <2>1. phase' = phase /\ job' = job /\ phase = "verify"
    BY <1>1, <1>8, VerifyRunningFacts
  <2>2. p \in Waited
    BY <2>1 DEF Waited
  <2>3. QED
    BY <1>1, <1>3, <1>8, <2>2, PursuedRunning
<1>9. ASSUME NEW answer \in {Confirm, Cancel}, VerifyAsked(answer)
      PROVE  \E s \in Slot : Asks(s, p)'
  <2>1. PICK x : x = Head(toHost).param
    OBVIOUS
  <2>2. /\ phase' = phase /\ phase = "verify"
        /\ job' = [job EXCEPT !.asked = @ \cup {x}, !.late = ~ line.confirm]
    BY <1>1, <1>9, <2>1, VerifyAskedFacts
  <2>3. /\ job'.ids = job.ids /\ job'.told = job.told /\ job'.asked = job.asked \cup {x}
    BY <1>1, <2>2 DEF TypeInv, JobOK
  <2>4. p \in Waited /\ p # x
    BY <2>2, <2>3 DEF Waited
  <2>5. QED
    BY <1>1, <1>3, <1>9, <2>1, <2>4, PursuedEntry
<1>10. ASSUME NEW x \in DOMAIN Kind, StrayEntry(x)
       PROVE  \E s \in Slot : Asks(s, p)'
  <2>1. PICK told : told = Told(job.told, x, Looked(Device0, x))
    OBVIOUS
  <2>2. /\ phase' = phase /\ phase = "verify" /\ pending' = pending
        /\ job' = [job EXCEPT !.told = told]
    BY <1>10, <2>1 DEF StrayEntry, vars
  <2>3. job'.ids = job.ids /\ job'.told = told /\ job'.asked = job.asked
    BY <1>1, <2>2 DEF TypeInv, JobOK
  <2>4. DOMAIN job.told \subseteq DOMAIN told
    BY <2>1 DEF Told
  <2>5. p \in Waited
    BY <2>2, <2>3, <2>4 DEF Waited
  <2>6. QED
    BY <1>3, <2>2, <2>5 DEF Asks
<1>11. ASSUME SendDrained \/ TimePasses \/ World \/ UNCHANGED allVars
       PROVE  p \in Waited
  <2>1. UNCHANGED <<phase, job, devices>>
    BY <1>11 DEF SendDrained, DrainAll, TimePasses, UpdateTime, World, DeviceAnswers, DeviceObeys,
       DeviceFinishes, LoseRequest, LoseReply, tui, allVars, vars
  <2>2. QED
    BY <2>1 DEF Waited, Shown, Device0
<1>12. CASE SendDrained
  <2>1. p \in Plain /\ \E s \in Slot : Asks(s, p)
    BY <1>3, <1>11, <1>12
  <2>2. DueQuiet(p) /\ Chased(p) /\ MaxLoss < RetryCount
    BY <1>1, <1>2, <2>1, DueIsQuiet DEF LineInv, AllChased, LineFits
  <2>3. \A s \in Slot : Asks(s, p) => Asks(s, p)'
    BY <1>1, <1>12, <2>2, ChasedDrain
  <2>4. QED
    BY <2>1, <2>3
<1>13. CASE TimePasses
  <2>1. PICK s \in Slot : Asks(s, p)
    BY <1>3, <1>11, <1>13
  <2>2. PICK requests : requests = pending
    OBVIOUS
  <2>3. pending' = Aged(requests, 1) /\ requests \in [Slot -> OwnRequest \cup {NoRequest}]
    BY <1>1, <1>13, <2>2, OwnFacts DEF TimePasses, UpdateTime, Aged, TypeInv
  <2>4. LET r == Aged(requests, 1)[s] IN r # NoRequest /\ r.param = requests[s].param
    BY <2>1, <2>2, <2>3, AgedSlots DEF Asks
  <2>5. QED
    BY <2>1, <2>2, <2>3, <2>4 DEF Asks
<1>14. CASE World \/ UNCHANGED allVars
  <2>1. pending' = pending
    BY <1>14 DEF World, DeviceAnswers, DeviceObeys, DeviceFinishes, LoseRequest, LoseReply, vars,
       allVars
  <2>2. QED
    BY <1>3, <1>11, <1>14, <2>1 DEF Asks
<1>15. QED
  BY <1>2, <1>4, <1>5, <1>6, <1>7, <1>8, <1>9, <1>10, <1>12, <1>13, <1>14 DEF Jobs, Packets

-----------------------------------------------------------------------------
(* What is left open when the program ends *)

Remains == phase = "get" => ToSet(job.ids) \subseteq job.remaining \cup Shown

(* Why a parameter may be named and not told.                              *)
Excuse(p) ==
  \/ past.cut \/ Prompted
  \/ /\ line.command # "get"
     /\ p \in job.asked \/ (Kind[p] = "command" /\ held[p] = Progress /\ Unwritten(p))

Excused == phase = "exit" => \A p \in ToSet(job.ids) \ DOMAIN job.told : Excuse(p)

LEMMA RemainsStep ==
  ASSUME Long = {}, TypeInv, Remains, [TuiNext]_allVars
  PROVE  Remains'
<1> SUFFICES ASSUME phase' = "get" PROVE ToSet(job'.ids) \subseteq job'.remaining \cup Shown'
  BY DEF Remains
<1>1. /\ phase # "tui" /\ (Jobs \/ Packets \/ World \/ UNCHANGED allVars)
      /\ ~ ReceiveChunk
  BY OutsideBrowser, NoChunks DEF TypeInv
<1>2. DOMAIN job = {"ids", "remaining", "told", "asked", "late"}
  BY DEF TypeInv, JobOK
<1>3. CASE GetStart
  <2>1. PICK ids \in Seq(DOMAIN Kind) :
          job' = [job EXCEPT !.ids = ids, !.remaining = ToSet(ids)]
    BY <1>3, GetStartFacts, Zenon
  <2>2. PICK all : all = ToSet(ids)
    OBVIOUS
  <2>3. job'.ids = ids /\ job'.remaining = all
    BY <1>2, <2>1, <2>2
  <2>4. QED
    BY <2>2, <2>3
<1>4. ~ GetStart => ~ Jobs
  BY DEF Jobs, SetStart, SetNothing, GetDone, Verified, GiveUp, VerifyEntry, VerifyRunning,
         VerifyAsked, StrayEntry, PromptTold
<1>5. CASE ReceiveEntry
  <2>1. PICK x : x = Head(toHost).param
    OBVIOUS
  <2>2. PICK left : left = job.remaining \ {x}
    OBVIOUS
  <2>3. phase = "get"
    BY <1>5 DEF ReceiveEntry
  <2>4. /\ job'.ids = job.ids
        /\ job'.remaining = job.remaining \/ (job'.remaining = left /\ x \in Shown')
    <3>1. job' = job \/ (job' = [job EXCEPT !.remaining = left] /\ x \in Shown')
      BY <1>5, <2>1, <2>2 DEF ReceiveEntry, Noted, Shown, Device0
    <3>2. QED
      BY <1>2, <3>1
  <2>5. Shown \subseteq Shown'
    <3>1. PICK content \in Content : HandleParameterEntry(Dev, x, content)
      <4>1. toHost # << >> /\ Head(toHost).kind = "entry"
        BY <1>5 DEF ReceiveEntry, Arrives
      <4>2. QED
        BY <1>5, <2>1, <4>1, EntryFacts DEF ReceiveEntry, TypeInv
    <3>2. x \in DOMAIN Kind
      BY <1>5, <2>1, EntryFacts DEF ReceiveEntry, Arrives, TypeInv
    <3>3. QED
      BY <3>1, <3>2, EntryManager DEF TypeInv
  <2>6. QED
    BY <2>2, <2>3, <2>4, <2>5 DEF Remains
<1>6. CASE SendDrained \/ TimePasses \/ World \/ UNCHANGED allVars
  <2>1. UNCHANGED <<phase, job, devices>>
    BY <1>6 DEF SendDrained, DrainAll, TimePasses, UpdateTime, World, DeviceAnswers, DeviceObeys,
       DeviceFinishes, LoseRequest, LoseReply, tui, allVars, vars
  <2>2. QED
    BY <2>1 DEF Remains, Shown, Device0
<1>7. QED
  BY <1>1, <1>3, <1>4, <1>5, <1>6 DEF Packets

(* All is told as soon as there are as many answers as writes.             *)
LEMMA ToldAll ==
  ASSUME JobOK, Cardinality(DOMAIN job.told) >= Len(job.ids)
  PROVE  DOMAIN job.told = ToSet(job.ids)
<1> DEFINE S == ToSet(job.ids)
           n == Len(job.ids)
           f == [i \in 1..n |-> job.ids[i]]
<1>1. job.ids \in Seq(DOMAIN Kind) /\ DOMAIN job.told \subseteq S
  BY DEF JobOK
<1>2. n \in Nat /\ S = {job.ids[i] : i \in 1..n}
  BY <1>1 DEF ToSet
<1>3. f \in Surjection(1..n, S)
  BY <1>2 DEF Surjection
<1>4. IsFiniteSet(1..n)
  BY <1>2, FS_Interval
<1> HIDE DEF n, S, f
<1>5. Cardinality(S) <= n
  BY <1>2, <1>3, FS_SurjCardinalityBound DEF ExistsSurjection
<1>6. IsFiniteSet(S)
  BY <1>3, <1>4, FS_Surjection
<1>7. Cardinality(S) \in Nat /\ Cardinality(DOMAIN job.told) \in Nat
      /\ Cardinality(DOMAIN job.told) <= Cardinality(S)
      /\ (Cardinality(DOMAIN job.told) = Cardinality(S) => DOMAIN job.told = S)
  BY <1>1, <1>6, FS_Subset, FS_CardinalityType
<1>8. QED
  BY <1>2, <1>5, <1>7 DEF S, n

(* The device does not begin what is not written to it.                    *)
LEMMA HeldWhileUnwritten ==
  ASSUME LineOK, World, phase = "exit", NEW p, Unwritten(p)
  PROVE  Unwritten(p)' /\ held'[p] = held[p]
<1>1. CASE DeviceAnswers \/ DeviceObeys \/ LoseRequest
  <2>1. toDevice # << >> /\ toDevice' = Tail(toDevice)
    BY <1>1 DEF DeviceAnswers, DeviceObeys, LoseRequest
  <2>2. Unwritten(p)'
    BY <2>1, TakenRequest DEF Unwritten
  <2>3. ASSUME DeviceObeys
        PROVE  held'[p] = held[p]
    <3>1. PICK x, v : x = Head(toDevice).param /\ v = Obeyed(x, Head(toDevice).data)
      OBVIOUS
    <3>2. held' = [held EXCEPT ![x] = v] /\ Head(toDevice).kind = "write"
      BY <2>3, <3>1 DEF DeviceObeys
    <3>3. x # p
      BY <2>1, <3>1, <3>2, TakenRequest DEF Unwritten
    <3>4. QED
      BY <3>2, <3>3 DEF LineOK
  <2>4. ~ DeviceObeys => held' = held
    BY <1>1 DEF DeviceAnswers, LoseRequest
  <2>5. QED
    BY <2>2, <2>3, <2>4
<1>2. CASE LoseReply
  BY <1>2 DEF LoseReply, Unwritten
<1>3. \A x \in DOMAIN Kind : ~ DeviceFinishes(x)
  BY DEF DeviceFinishes
<1>4. QED
  BY <1>1, <1>2, <1>3 DEF World

LEMMA ExcusedStep ==
  ASSUME LineFits, TypeInv, Commands, Pursued, Remains, Excused, [TuiNext]_allVars
  PROVE  Excused'
<1> SUFFICES ASSUME phase' = "exit", NEW p \in ToSet(job'.ids) \ DOMAIN job'.told
             PROVE  Excuse(p)'
  BY DEF Excused
<1>1. /\ phase # "tui" /\ (Jobs \/ Packets \/ World \/ UNCHANGED allVars)
      /\ ~ ReceiveChunk /\ (Prompted => Prompted')
  BY OutsideBrowser, NoChunks, PromptStays DEF TypeInv, LineFits
<1>2. DOMAIN job = {"ids", "remaining", "told", "asked", "late"}
  BY DEF TypeInv, JobOK
<1>3. AtRest => Prompted \/ Waited = {}
  BY DEF Pursued, Asks, AtRest, Untracked
<1>4. CASE SetNothing
  <2>1. job' = job /\ job.ids = << >>
    BY <1>4 DEF SetNothing, MayStart, Commands
  <2>2. QED
    BY <2>1 DEF ToSet
<1>5. CASE GetDone
  <2> DEFINE told == [x \in ToSet(job.ids) \cap Shown |-> Looked(Device0, x)]
             cut == (job.remaining # {} /\ ~ AtRest)
  <2>1. phase = "get" /\ job' = [job EXCEPT !.told = told] /\ past' = [past EXCEPT !.cut = cut]
    BY <1>5 DEF GetDone
  <2>2. DOMAIN told = ToSet(job.ids) \cap Shown
    OBVIOUS
  <2>3. ~ cut => job.remaining = {} \/ AtRest
    OBVIOUS
  <2> HIDE DEF told, cut
  <2>4. /\ job'.told = told /\ job'.ids = job.ids
        /\ past'.cut = cut
    BY <1>2, <2>1 DEF TypeInv, Past
  <2>5. job.remaining = {} => ToSet(job.ids) \subseteq Shown
    BY <2>1 DEF Remains
  <2>6. AtRest => Prompted \/ ToSet(job.ids) \subseteq Shown
    BY <1>3, <2>1 DEF Waited
  <2>7. QED
    BY <1>1, <2>2, <2>3, <2>4, <2>5, <2>6 DEF Excuse
<1>6. CASE Verified
  <2>1. job' = job /\ DOMAIN job.told = ToSet(job.ids)
    BY <1>6, ToldAll DEF Verified, TypeInv
  <2>2. QED
    BY <2>1
<1>7. CASE GiveUp
  <2>1. /\ phase = "verify" /\ UNCHANGED <<job, line, held, toDevice>>
        /\ \/ AtRest
           \/ /\ \A i \in DOMAIN toDevice : toDevice[i].kind # "write"
              /\ \A x \in ToSet(job.ids) \ DOMAIN job.told :
                   Kind[x] = "command" /\ held[x] = Progress
           \/ Prompted
    BY <1>7 DEF GiveUp, wire
  <2>2. line'.command # "get"
    BY <2>1 DEF Commands
  <2>3. AtRest /\ ~ Prompted => p \in job'.asked
    BY <1>3, <2>1 DEF Waited
  <2>4. ~ AtRest /\ ~ Prompted => Kind[p] = "command" /\ held'[p] = Progress /\ Unwritten(p)'
    BY <2>1 DEF Unwritten, Sent
  <2>5. QED
    BY <1>1, <2>2, <2>3, <2>4 DEF Excuse
<1>8. Jobs => SetNothing \/ GetDone \/ Verified \/ GiveUp
  BY DEF Jobs, SetStart, GetStart, VerifyEntry, VerifyRunning, VerifyAsked, StrayEntry,
         PromptTold, Arrives
<1>9. CASE ~ Jobs
  <2>1. phase = "exit" /\ (World \/ UNCHANGED allVars)
    BY <1>1, <1>9, PhaseKept DEF Packets, ReceiveEntry, SendDrained, TimePasses, Arrives, Draining
  <2>2. UNCHANGED <<job, line, past>>
    BY <2>1 DEF World, DeviceAnswers, DeviceObeys, DeviceFinishes, LoseRequest, LoseReply, tui,
       allVars
  <2>3. Excuse(p)
    BY <2>1, <2>2 DEF Excused
  <2>4. Unwritten(p) => Unwritten(p)' /\ held'[p] = held[p]
    <3>1. CASE UNCHANGED allVars
      BY <3>1 DEF Unwritten, allVars, wire
    <3>2. CASE World
      BY <2>1, <3>2, HeldWhileUnwritten DEF TypeInv
    <3>3. QED
      BY <2>1, <3>1, <3>2
  <2>5. QED
    BY <1>1, <2>2, <2>3, <2>4 DEF Excuse
<1>10. QED
  BY <1>4, <1>5, <1>6, <1>7, <1>8, <1>9

JobInv == LineInv /\ JobFresh /\ Pursued /\ Remains /\ Excused

LEMMA JobBound ==
  ASSUME JobFits
  PROVE  TuiSpec => []JobInv
<1>1. LineFits /\ Long = {}
  BY DEF JobFits, LineFits
<1>2. ASSUME TuiInit
      PROVE  JobInv
  <2>1. LineInv /\ JobFresh
    BY <1>2, InitLine, InitFreshJob
  <2>2. phase \notin {"verify", "get", "exit"}
    BY <1>2, InitIdle
  <2>3. Pursued /\ Remains /\ Excused
    BY <2>2 DEF Pursued, Waited, Remains, Excused
  <2>4. QED
    BY <2>1, <2>3 DEF JobInv
<1>3. JobInv /\ [TuiNext]_allVars => JobInv'
  <2>1. SUFFICES ASSUME JobInv, [TuiNext]_allVars PROVE JobInv'
    OBVIOUS
  <2>2. LineInv /\ TypeInv /\ Commands /\ JobFresh /\ Pursued /\ Remains /\ Excused
    BY <2>1 DEF JobInv, LineInv
  <2>3. LineInv' /\ JobFresh'
    BY <1>1, <2>1, <2>2, LineStep, JobFreshStep
  <2>4. Pursued' /\ Remains' /\ Excused'
    BY <1>1, <2>1, <2>2, PursuedStep, RemainsStep, ExcusedStep
  <2>5. QED
    BY <2>3, <2>4 DEF JobInv
<1>4. QED
  BY <1>2, <1>3, PTL DEF TuiSpec

(* What `set --check` and `export --get` end up telling is what the device *)
(* holds after all the writes, for every parameter named, but for those    *)
(* that VerifiedTells excepts: as long as every entry comes in one frame,  *)
(* the line loses fewer frames than a read is retried, the map has room    *)
(* for all parameters and the tracked requests for all that are named.     *)
THEOREM JobTellsTrue ==
  ASSUME JobFits
  PROVE  TuiSpec => []VerifiedTells
<1>1. ASSUME JobInv
      PROVE  VerifiedTells
  <2>1. SUFFICES ASSUME phase = "exit" PROVE VerifiedTells
    BY DEF VerifiedTells
  <2>2. ASSUME NEW p \in DOMAIN job.told
        PROVE  StillHeld(job.told[p], p) \/ p \in job.asked \cup past.strays
    <3>1. p \in Plain
      BY <1>1, <2>2 DEF JobInv, LineInv, TypeInv, JobOK, ToSet, Plain, JobFits, LineFits
    <3>2. p \in job.asked \/ SteadyOf(p)
      BY <1>1, <2>1, <3>1 DEF JobInv, JobFresh
    <3>3. QED
      BY <2>2, <3>2 DEF SteadyOf
  <2>3. \A p \in ToSet(job.ids) \ DOMAIN job.told : Excuse(p)
    BY <1>1, <2>1 DEF JobInv, Excused
  <2>4. QED
    BY <2>2, <2>3 DEF VerifiedTells, Excuse
<1>2. QED
  BY <1>1, JobBound, PTL

-----------------------------------------------------------------------------
(* The enumeration goes on *)

(* And two requests can be tracked. *)
EnumerationFits == LineFits /\ Cardinality(Slot) >= 2

(* As long as parameters are missing, one is asked for: but after 'r' when *)
(* none is.                                                                *)
Underway == Enumerating /\ ~ Device0.loaded /\ Untracked => past.stalled

LEMMA EnqueueNextTracks ==
  ASSUME NEW q, OwnQueues(q), NEW dev, BrowsedOK(dev), ~ dev.loaded,
         FreeSlots(q.requests) # {}
  PROVE  Asked(EnqueueNextParameter(q, Dev, dev).requests, Dev, NextParameter(dev)) # {}
<1> DEFINE next == EnqueueNextParameter(q, Dev, dev)
<1>1. PICK y : y = NextParameter(dev)
  OBVIOUS
<1>2. PICK r : r = NewRequest(Dev, y, 0)
  OBVIOUS
<1>3. r.param = y /\ r.dev = Dev /\ r # NoRequest
  BY <1>1, <1>2, NextIsOwn, NewIsNew
<1>4. CASE Asked(q.requests, Dev, y) # {}
  BY <1>1, <1>4 DEF EnqueueNextParameter
<1>5. CASE Asked(q.requests, Dev, y) = {}
  <2>1. next = Enqueue(q, r)
    BY <1>1, <1>2, <1>5 DEF EnqueueNextParameter
  <2>2. PICK s : s = CHOOSE t \in Slot : q.requests[t] = NoRequest
    OBVIOUS
  <2>3. s \in Slot
    BY <2>2 DEF FreeSlots
  <2>4. next.requests = [q.requests EXCEPT ![s] = r]
    BY <2>1, <2>2 DEF Enqueue
  <2>5. next.requests[s] = r
    BY <2>3, <2>4 DEF OwnQueues
  <2> HIDE DEF next
  <2>6. s \in Asked(next.requests, Dev, y)
    BY <1>3, <2>3, <2>5 DEF Asked
  <2>7. QED
    BY <1>1, <2>6 DEF next
<1>6. QED
  BY <1>4, <1>5

LEMMA DiscoveredTracks ==
  ASSUME EnumerationFits
  PROVE  \E s \in Slot : Discovered.requests[s] # NoRequest
<1> DEFINE q == [requests |-> [s \in Slot |-> NoRequest], packets |-> << >>]
           dev == NewDevice(Total)
<1>1. OwnQueues(q)
  BY CapacityAssumption DEF OwnQueues
<1>2. FreeSlots(q.requests) # {}
  <2>1. Slot # {}
    BY FS_EmptySet DEF EnumerationFits
  <2>2. QED
    BY <2>1 DEF FreeSlots
<1>3. BrowsedOK(dev) /\ ~ dev.loaded
  <2>1. dev.loaded = FALSE
    BY KindFacts DEF NewDevice
  <2>2. QED
    BY <2>1, DiscoveredFacts
<1>4. Discovered = EnqueueNextParameter(q, Dev, dev)
  BY DEF Discovered
<1> HIDE DEF q, dev
<1>5. QED
  BY <1>1, <1>2, <1>3, <1>4, EnqueueNextTracks DEF Asked

LEMMA InitTracks ==
  ASSUME EnumerationFits, TuiInit
  PROVE  ~ Untracked
<1>1. PICK elapsed \in 0..Timeout : pending = Aged(Discovered.requests, elapsed)
  BY InitType
<1>2. PICK requests : requests = Discovered.requests
  OBVIOUS
<1>3. requests \in [Slot -> OwnRequest \cup {NoRequest}] /\ elapsed \in Nat
  BY <1>2, DiscoveredFacts, TimingAssumption DEF OwnQueues
<1>4. PICK s \in Slot : requests[s] # NoRequest
  BY <1>2, DiscoveredTracks
<1>5. LET r == Aged(requests, elapsed)[s] IN r # NoRequest
  BY <1>3, <1>4, AgedSlots
<1>6. pending = Aged(requests, elapsed)
  BY <1>1, <1>2
<1>7. QED
  BY <1>4, <1>5, <1>6 DEF Untracked

(* An entry that leaves others missing leaves a request behind: for the    *)
(* next of them, unless there is no room, and then the requests that took  *)
(* the room but for that of the entry.                                     *)
LEMMA EntryUnderway ==
  ASSUME EnumerationFits, TypeInv, ReadOnce, LoadedFull, Enumerating, ReceiveEntry,
         ~ Device0'.loaded
  PROVE  ~ Untracked'
<1>1. PICK frame : frame = Head(toHost)
  OBVIOUS
<1>2. PICK dev : dev = Handled(frame)
  OBVIOUS
<1> DEFINE next == EnqueueNextParameter(Queues, Dev, dev)
           later == RemovePending(next, Dev, frame.param)
<1>3. /\ toHost # << >> /\ frame.kind = "entry"
      /\ pending' = QueuesHandled(frame).requests /\ Device0' = dev
  BY <1>1, <1>2, EntryHandled
<1>4. PICK x \in Plain : x = frame.param
  BY <1>1, <1>3, EntryFacts DEF TypeInv
<1>5. x \in DOMAIN Kind /\ Entry(x, frame.value) \in Content
  BY <1>1, <1>3, <1>4, EntryFacts DEF TypeInv
<1>6. BrowsedOK(Device0) /\ OwnQueues(Queues) /\ Queues.requests = pending
  BY DEF TypeInv, ManagerOK, Queues
<1>7. BrowsedOK(dev) /\ ~ dev.loaded
  BY <1>2, <1>3, <1>4, <1>5, <1>6, WithParameterBrowsed DEF Handled
<1>8. x \in Stored(dev)
  BY <1>2, <1>4, <1>5, StoresEntry DEF Handled, TypeInv, EnumerationFits, LineFits
<1>9. PICK y : y = NextParameter(dev) /\ y # x
  BY <1>7, <1>8, NextIsOwn
<1>10. pending' = later.requests
  BY <1>2, <1>3 DEF QueuesHandled
<1>11. OwnQueues(next)
  BY <1>6, <1>7, EnqueueNextReadOnce
<1> HIDE DEF next
<1>12. \A s \in Slot : later.requests[s] =
         IF next.requests[s] # NoRequest /\ next.requests[s].param = x
           THEN NoRequest ELSE next.requests[s]
  BY <1>4, <1>11, RemoveOwn
<1> HIDE DEF later
<1>13. CASE FreeSlots(pending) # {}
  <2>1. Asked(next.requests, Dev, y) # {}
    BY <1>6, <1>7, <1>9, <1>13, EnqueueNextTracks DEF next
  <2>2. QED
    BY <1>9, <1>10, <1>12, <2>1 DEF Asked, Untracked
<1>14. CASE FreeSlots(pending) = {}
  <2>1. AtMostOne(Asked(pending, Dev, x))
    <3>1. CASE x = 0
      BY <3>1 DEF LoadedFull, SoughtOnce
    <3>2. CASE x # 0
      <4>1. OneRead(Queues, toDevice, toHost, x)
        BY <1>4, <3>2 DEF ReadOnce, EachOnce
      <4>2. QED
        BY <1>6, <4>1 DEF OneRead
    <3>3. QED
      BY <3>1, <3>2
  <2>2. PICK s \in Slot : s \notin Asked(pending, Dev, x)
    <3>1. SUFFICES ASSUME Slot \subseteq Asked(pending, Dev, x) PROVE FALSE
      OBVIOUS
    <3>2. \A s, t \in Slot : s = t
      BY <2>1, <3>1 DEF AtMostOne
    <3>3. Slot = {} \/ \E s : Slot = {s}
      BY <3>2
    <3>4. Cardinality(Slot) = 0 \/ Cardinality(Slot) = 1
      <4>1. CASE Slot = {}
        BY <4>1, FS_EmptySet
      <4>2. ASSUME NEW s, Slot = {s}
            PROVE  Cardinality(Slot) = 1
        BY <4>2, FS_Singleton
      <4>3. QED
        BY <3>3, <4>1, <4>2
    <3>5. Cardinality(Slot) >= 2
      BY DEF EnumerationFits
    <3>6. QED
      BY <3>4, <3>5
  <2>3. pending[s] # NoRequest /\ pending[s].param # x
    <3>1. pending[s] \in OwnRequest \cup {NoRequest}
      BY OwnFacts DEF TypeInv
    <3>2. QED
      BY <1>14, <2>2, <3>1 DEF FreeSlots, Asked, OwnRequest
  <2>4. pending'[s] = pending[s]
    BY <1>1, <1>3, <1>4, <2>3, HandledSlots DEF EntryTaken
  <2>5. QED
    BY <2>3, <2>4 DEF Untracked
<1>15. QED
  BY <1>13, <1>14

(* What is written is asked for again, if anything can be.                 *)
LEMMA WriteTracks ==
  ASSUME EnumerationFits, TypeInv, NEW x, NEW data, Writable(x, data), WriteAndReread(x, data)
  PROVE  ~ Untracked'
<1> DEFINE ps == <<x>>
           q == RequestEach(pending, ps)
<1>1. /\ ps \in Seq(DOMAIN Kind) /\ pending' = q.requests
      /\ pending \in [Slot -> OwnRequest \cup {NoRequest}]
  BY WriteFacts
<1>2. Len(ps) = 1 /\ 1 \in DOMAIN ps
  OBVIOUS
<1> HIDE DEF ps
<1>3. /\ \A s \in Slot : q.requests[s] = pending[s] \/ pending[s] = NoRequest
      /\ Len(ps) <= Cardinality(FreeSlots(pending)) =>
           \E s \in Slot : q.requests[s] # NoRequest
  BY <1>1, <1>2, RequestSlots
<1> HIDE DEF q
<1>4. SUFFICES ASSUME Untracked' PROVE FALSE
  OBVIOUS
<1>5. Untracked
  BY <1>1, <1>3, <1>4 DEF Untracked
<1>6. Cardinality(FreeSlots(pending)) >= 1
  <2>1. FreeSlots(pending) = Slot
    BY <1>5 DEF Untracked, FreeSlots
  <2>2. Cardinality(Slot) \in Nat
    BY ProgramAssumption, FS_CardinalityType
  <2>3. QED
    BY <2>1, <2>2 DEF EnumerationFits
<1>7. Len(ps) <= Cardinality(FreeSlots(pending))
  <2>1. Cardinality(FreeSlots(pending)) \in Nat
    BY ProgramAssumption, FS_Subset, FS_CardinalityType DEF FreeSlots
  <2>2. QED
    BY <1>2, <1>6, <2>1
<1>8. QED
  BY <1>1, <1>3, <1>4, <1>7 DEF Untracked

LEMMA UnderwayStep ==
  ASSUME EnumerationFits, LineInv, Underway, [TuiNext]_allVars
  PROVE  Underway'
<1> SUFFICES ASSUME Enumerating', ~ Device0'.loaded, Untracked' PROVE past'.stalled
  BY DEF Underway
<1>1. TypeInv /\ ReadOnce /\ LoadedFull /\ LineFits /\ Long = {}
  BY DEF LineInv, EnumerationFits, LineFits
<1>2. Enumerating /\ ~ Jobs
  <2>1. ~ Jobs
    BY <1>1, JobMoves DEF Enumerating
  <2>2. QED
    BY <2>1, PhaseKept DEF Enumerating, TuiNext, allVars, tui
<1>3. ~ ReceiveChunk /\ ~ Prompted
  BY <1>1, <1>2, NoChunks DEF TypeInv, LineInv, Commands, Prompted, Enumerating
<1>4. ~ Refresh => past'.stalled = past.stalled
  BY <1>1, PastKept
<1>5. ASSUME Untracked, UNCHANGED devices, ~ Refresh
      PROVE  past'.stalled
  BY <1>2, <1>4, <1>5 DEF Underway, Device0
<1>6. ASSUME Refresh
      PROVE  past'.stalled
  <2>1. past' = [past EXCEPT !.refreshes = @ + 1, !.stalled = Untracked] /\ pending' = pending
    BY <1>6 DEF Refresh
  <2>2. PICK b \in BOOLEAN : b = Untracked
    BY DEF Untracked
  <2>3. past'.stalled = b
    BY <1>1, <2>1, <2>2 DEF TypeInv, Past
  <2>4. Untracked
    BY <2>1 DEF Untracked
  <2>5. QED
    BY <2>2, <2>3, <2>4
<1>7. ASSUME KeyOnly, ~ Refresh
      PROVE  past'.stalled
  BY <1>5, <1>7 DEF KeyOnly, vars, Untracked
<1>8. ~ (ApplyEdit \/ ExecuteCommand \/ CancelCommand \/ PollCommand)
  BY <1>1, WritingKeys, WriteTracks
<1>9. ~ ReceiveEntry
  BY <1>1, <1>2, EntryUnderway
<1>10. CASE SendDrained /\ ~ Refresh
  <2>1. UNCHANGED devices
    BY <1>10 DEF SendDrained, DrainAll
  <2>2. ASSUME NEW s \in Slot, pending[s] # NoRequest
        PROVE  FALSE
    <3>1. PICK p : p = pending[s].param
      OBVIOUS
    <3>2. pending \in [Slot -> OwnRequest \cup {NoRequest}]
      BY <1>1, OwnFacts DEF TypeInv
    <3>3. p \in Plain
      BY <1>1, <2>2, <3>1, <3>2 DEF OwnRequest, Plain
    <3>4. Asks(s, p) /\ Chased(p) /\ DueQuiet(p) /\ MaxLoss < RetryCount
      BY <1>1, <1>3, <2>2, <3>1, <3>3, DueIsQuiet DEF Asks, LineInv, AllChased, LineFits
    <3>5. Asks(s, p)'
      BY <1>1, <1>10, <3>4, ChasedDrain
    <3>6. QED
      BY <3>5 DEF Asks, Untracked
  <2>3. Untracked
    BY <2>2 DEF Untracked
  <2>4. QED
    BY <1>5, <1>10, <2>1, <2>3
<1>11. CASE TimePasses /\ ~ Refresh
  <2>1. UNCHANGED devices /\ pending' = [s \in Slot |-> Older(pending[s], 1)]
    BY <1>11 DEF TimePasses, UpdateTime
  <2>2. pending \in [Slot -> OwnRequest \cup {NoRequest}]
    BY <1>1, OwnFacts DEF TypeInv
  <2>3. Untracked
    BY <2>1, <2>2, OlderOwn DEF Untracked
  <2>4. QED
    BY <1>5, <1>11, <2>1, <2>3
<1>12. CASE (World \/ UNCHANGED allVars) /\ ~ Refresh
  <2>1. UNCHANGED <<devices, pending>>
    BY <1>12 DEF World, DeviceAnswers, DeviceObeys, DeviceFinishes, LoseRequest, LoseReply,
       vars, allVars
  <2>2. QED
    BY <1>5, <1>12, <2>1 DEF Untracked
<1>13. QED
  BY <1>2, <1>3, <1>6, <1>7, <1>8, <1>9, <1>10, <1>11, <1>12, KeyKinds DEF TuiNext, Packets

(* The inductive invariant: what is asked for is asked for once, is        *)
(* pursued, and is there as long as something is missing.                  *)
EnumerationInv == LineInv /\ Underway

LEMMA EnumerationBound ==
  ASSUME EnumerationFits
  PROVE  TuiSpec => []EnumerationInv
<1>1. TuiInit => EnumerationInv
  BY InitLine, InitTracks DEF EnumerationInv, Underway
<1>2. EnumerationInv /\ [TuiNext]_allVars => EnumerationInv'
  BY LineStep, UnderwayStep DEF EnumerationInv, EnumerationFits
<1>3. QED
  BY <1>1, <1>2, PTL DEF TuiSpec

(* The enumeration of run_tui and load_all_params, which have no time      *)
(* limit, never stops short of the last parameter, but on 'r' when no read *)
(* is tracked; and no read is given up, but after a prompt: as long as     *)
(* every entry comes in one frame, the line loses fewer frames than a read *)
(* is retried, the map has room for all parameters and two requests can be *)
(* tracked.                                                                *)
THEOREM EnumerationGoesOn ==
  ASSUME EnumerationFits
  PROVE  TuiSpec => []NotStuck
<1>1. ASSUME EnumerationInv
      PROVE  NotStuck
  <2>1. phase \in {"tui", "load"} /\ AtRest /\ ~ Device0.loaded => past.stalled
    BY <1>1 DEF EnumerationInv, Underway, Enumerating, AtRest
  <2>2. Prompted \/ past.givenUp \subseteq Long
    BY <1>1 DEF EnumerationInv, LineInv, NoneGivenUp
  <2>3. QED
    BY <2>1, <2>2 DEF NotStuck
<1>2. QED
  BY <1>1, EnumerationBound, PTL
=============================================================================
