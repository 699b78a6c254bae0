------------------------------ MODULE ParamTui ------------------------------
(***************************************************************************)
(* The program src/examples/param_tui.rs after discover_device(): the      *)
(* interactive browser (run_tui), `set --check` (run_set and verify_writes,*)
(* with and without --from-schema) and `export --get --from-schema`        *)
(* (load_specific_params).  It drives the DeviceManager, takes parameters  *)
(* out of the manager's map to have them read again, and talks over a      *)
(* lossy line to a device, which is external.                              *)
(*                                                                         *)
(* One loop, one thread: an iteration is cut into its parts (a packet, the *)
(* drained output, a key), whose order between iterations is free.         *)
(* Left out: needs_reread, which nothing reads; params_loaded, retries and *)
(* param_request_pending, which only word the status line; values other    *)
(* than selections and commands; what is drawn and printed otherwise.  Of  *)
(* a second device on the line, what StrayEntry says: elsewhere an entry   *)
(* with its number clears at most the mark "pending" of a line.            *)
(***************************************************************************)
EXTENDS DeviceManager, SequencesExt

CONSTANTS
  Dev,           \* app.selected_device
  Kind,          \* parameter -> "folder", "selection", "command"
  Children,      \* folder -> its children, in order
  Options,       \* selection -> the names of its options, in order
  Limits,        \* selection -> [min, max]
  Numeral,       \* texts that parse::<u8>() reads -> their value
  Lower(_),      \* to_lowercase(): a text without its capitals
  Long,          \* parameters whose entry takes two frames
  Confirmed,     \* commands for which the device asks back
  CommandLines,  \* [command, writes, confirm]: how the program is started
  Typed,         \* texts the user types
  MaxEdits,      \* bound: writes from the keyboard
  MaxRefresh,    \* bound: 'r'
  MaxLoss        \* bound: frames the line loses

VARIABLES
  line,      \* the command line
  phase,     \* "start", "load", "tui", "verify", "get" or "exit"
  app,       \* struct App
  job,       \* the locals of verify_writes and load_specific_params
  held,      \* the device: parameter -> value
  toDevice, toHost, losses,  \* the line
  edit,      \* history: what the user opened and aims at, while it is clear
  past       \* history: what may stop the enumeration for good

tui == <<line, phase, app, job, edit, past>>
wire == <<held, toDevice, toHost, losses>>
allVars == <<vars, tui, wire>>

(* CMD_STATUS_* *)
Ready == 0
Start == 1
Progress == 2
ConfirmationNeeded == 3
Confirm == 4
Cancel == 5
Poll == 6

Total == Cardinality(DOMAIN Kind)

-----------------------------------------------------------------------------
(* What the program sees of the device. *)
Device0 == devices[Dev]
Shown == Stored(Device0)
HasData(p) == p \in Shown /\ Device0.params[p] # Stub
Is(p, kind) == HasData(p) /\ Kind[p] = kind
ValueOf(p) == Device0.params[p].value

(* What the program tells of a parameter; "?" of one that is not there.    *)
Unknown == -1
Looked(dev, p) ==
  IF dev.params[p] \in {Absent, Stub} THEN Unknown ELSE dev.params[p].value

(* A set of numbers in ascending order, and the entries of a sequence at   *)
(* these places of it.                                                     *)
InOrder(S) ==
  [i \in 1..Cardinality(S) |->
     CHOOSE p \in S : Cardinality({q \in S : q < p}) = i - 1]

At(seq, places) ==
  [i \in DOMAIN InOrder(places) |-> seq[InOrder(places)[i]]]

(* get_current_parameters(): the root's children in its order, or all      *)
(* there is while the root is not loaded; a folder's by number.  A stub    *)
(* has the root for a parent.                                              *)
CurrentParameters ==
  IF Len(app.path) > 1
    THEN InOrder({p \in Shown : HasData(p) /\ p \in ToSet(Children[Last(app.path)])})
  ELSE IF Is(0, "folder")
    THEN At(Children[0], {i \in DOMAIN Children[0] : Children[0][i] \in Shown})
    ELSE InOrder(Shown)

Selected == CurrentParameters[app.cursor + 1]
HasSelected == app.cursor < Len(CurrentParameters)

Lowest(p) == Limits[p].min
Highest(p) == Limits[p].max

(* The name of an option, and the place of a name, whose capitals do not   *)
(* matter (eq_ignore_ascii_case); -1 if there is none.                     *)
OptionAt(p, i) == IF i + 1 \in DOMAIN Options[p] THEN Options[p][i + 1] ELSE "?"

Position(p, text) == SelectInSeq(Options[p], LAMBDA o : Lower(o) = Lower(text)) - 1

(* What the entry of a parameter can say of it; a folder has no value. *)
Values(p) ==
  CASE Kind[p] = "selection" -> Lowest(p)..Highest(p)
    [] Kind[p] = "command" -> Ready..Poll
    [] OTHER -> {0}

Refused == [ok |-> FALSE, data |-> 0]
Data(d) == [ok |-> TRUE, data |-> d]

Actions == [start |-> Start, confirm |-> Confirm, yes |-> Confirm, y |-> Confirm,
            cancel |-> Cancel, no |-> Cancel, n |-> Cancel, poll |-> Poll]

Action(text) ==
  IF Lower(text) \in DOMAIN Actions THEN Data(Actions[Lower(text)]) ELSE Refused

Index(p, text) == IF text \in DOMAIN Numeral THEN Numeral[text] ELSE Position(p, text)

(* resolve_write_data(): a number is an index before it is a name, and     *)
(* either is kept to the limits.                                           *)
ResolveWriteData(p, text) ==
  CASE Is(p, "selection") ->
         IF Index(p, text) \in Lowest(p)..Highest(p) THEN Data(Index(p, text)) ELSE Refused
    [] Is(p, "command") ->
         IF Lower(text) = "start" /\ ValueOf(p) # Ready THEN Refused ELSE Action(text)
    [] OTHER -> Refused

(* resolve_write_data_from_schema(): the schema knows no status, and only  *)
(* the number of the options is looked at.                                 *)
ResolveFromSchema(p, text) ==
  CASE Kind[p] = "selection" ->
         IF Index(p, text) \in 0..(Len(Options[p]) - 1) THEN Data(Index(p, text)) ELSE Refused
    [] Kind[p] = "command" -> Action(text)
    [] OTHER -> Refused

(* One assignment of the command line, of run_set and of                   *)
(* run_set_with_schema.  A command named without a value is started, or    *)
(* confirmed if the device is seen to wait for that.                       *)
Assigned(w) ==
  IF w.text # "" THEN ResolveWriteData(w.param, w.text)
  ELSE IF Is(w.param, "command")
    THEN Data(IF ValueOf(w.param) = ConfirmationNeeded THEN Confirm ELSE Start)
    ELSE Refused

AssignedBySchema(w) ==
  IF w.text # "" THEN ResolveFromSchema(w.param, w.text)
  ELSE IF Kind[w.param] = "command" THEN Data(Start) ELSE Refused

-----------------------------------------------------------------------------
(* The line *)
ReadFrame(r) == [kind |-> "read", param |-> r.param, chunk |-> r.chunk, data |-> 0]
WriteFrame(p, data) == [kind |-> "write", param |-> p, chunk |-> 0, data |-> data]

Untracked == \A s \in Slot : pending[s] = NoRequest

NothingUnderWay == output = << >> /\ toDevice = << >> /\ toHost = << >>

AtRest == Untracked /\ NothingUnderWay

(* request_parameter() for each of ps: tracked as long as there is room,   *)
(* and then returned to the program, which sends it.                       *)
RequestEach(requests, ps) ==
  LET free == SetToSeq(FreeSlots(requests))
      taken == IF Len(ps) < Len(free) THEN 1..Len(ps) ELSE DOMAIN free
      asked == [i \in taken |-> NewRequest(Dev, ps[i], 0)]
  IN [requests |-> [s \in Slot |-> IF \E i \in taken : free[i] = s
                                     THEN asked[CHOOSE i \in taken : free[i] = s]
                                     ELSE requests[s]],
      packets  |-> [i \in taken |-> ReadFrame(asked[i])]]

(* device.parameters.remove() *)
Without(dev, ps) ==
  [dev EXCEPT !.params = [p \in ParamId |-> IF p \in ps THEN Absent ELSE @[p]]]
-----------------------------------------------------------------------------
(* What the device is, as the program is told by its DeviceInfo and its    *)
(* entries: parameters numbered from 0, which is the root folder, each of  *)
(* a kind the code knows, folders that name children, and selections whose *)
(* value keeps its limits.                                                 *)
Entry(p, v) == [param |-> p, value |-> v]

Fragments(p) == [param : {p}, index : {0, 1}, value : {0} \cup Values(p)]

ASSUME DeviceAssumption ==
  /\ Dev \in Addr
  /\ DOMAIN Kind = 0..(Total - 1) /\ Total \in ParamId \ {0}
  /\ Long \subseteq DOMAIN Kind
  /\ \A p \in DOMAIN Kind :
       \/ Kind[p] = "folder" /\ Children[p] \in Seq(DOMAIN Kind)
       \/ /\ Kind[p] = "selection" /\ Options[p] \in Seq(STRING) \ {<< >>}
          /\ Limits[p] \in [min : Nat, max : Nat] /\ Lowest(p) <= Highest(p)
       \/ Kind[p] = "command"
  /\ Kind[0] = "folder"
ASSUME EntryAssumption ==
  /\ \A p \in DOMAIN Kind : \A v \in Values(p) : Entry(p, v) \in Content
  /\ \A p \in Long : Fragments(p) \subseteq Fragment
  /\ {0, 1} \subseteq Remaining
ASSUME ProgramAssumption ==
  /\ CommandLines \subseteq [command : {"tui", "set", "schema", "get"},
                             writes : Seq([param : DOMAIN Kind, text : STRING]),
                             confirm : BOOLEAN]
  /\ Typed \subseteq STRING
  /\ {MaxEdits, MaxRefresh, MaxLoss} \subseteq Nat
  /\ IsFiniteSet(Slot) /\ Timeout > 0
-----------------------------------------------------------------------------
(* run_tui: keys.  While a question or an editor is open, every key is for *)
(* it.  'q', which ends the program, is left out.                          *)
Browsing == phase = "tui" /\ ~ app.editing /\ ~ app.confirming

KeyOnly == UNCHANGED <<vars, wire, line, phase, job, past>>

Down ==
  /\ Browsing
  /\ LET last == Len(CurrentParameters) - 1 IN
     app' = [app EXCEPT !.cursor = IF last < 0 THEN 0 ELSE IF @ + 1 > last THEN last ELSE @ + 1]
  /\ KeyOnly /\ UNCHANGED edit

(* Seeded fault: the cursor does not stop at the first line. *)
UpAnyway ==
  /\ Browsing
  /\ app' = [app EXCEPT !.cursor = @ - 1]
  /\ KeyOnly /\ UNCHANGED edit

Up ==
  /\ Browsing
  /\ app' = [app EXCEPT !.cursor = IF @ = 0 THEN 0 ELSE @ - 1]
  /\ KeyOnly /\ UNCHANGED edit

(* Whether the list the user sees lacks no parameter of the folder. *)
Whole ==
  LET folder == Last(app.path) IN
  Is(folder, "folder") /\ \A p \in ToSet(Children[folder]) : HasData(p)

(* No editor is open, or one of which EditsAsAimed says nothing. *)
NoEdit == [opened |-> 0, aim |-> 0, clear |-> FALSE]

Opens(p, aim, clear) ==
  edit' = IF Whole /\ clear THEN [opened |-> p, aim |-> aim, clear |-> TRUE] ELSE NoEdit

(* handle_select() *)
SelectFolder ==
  /\ Browsing /\ HasSelected /\ Is(Selected, "folder")
  /\ app' = [app EXCEPT !.path = Append(@, Selected), !.cursor = 0]
  /\ KeyOnly /\ UNCHANGED edit

SelectCommand ==
  /\ Browsing /\ HasSelected /\ Is(Selected, "command")
  /\ ValueOf(Selected) # Progress
  /\ app' = [app EXCEPT !.confirming = TRUE]
  /\ Opens(Selected, IF ValueOf(Selected) = ConfirmationNeeded THEN Confirm ELSE Start, TRUE)
  /\ KeyOnly

SelectOption ==
  /\ Browsing /\ HasSelected /\ Is(Selected, "selection")
  /\ app' = [app EXCEPT !.editing = TRUE, !.buffer = OptionAt(Selected, ValueOf(Selected))]
  /\ Opens(Selected, ValueOf(Selected), ValueOf(Selected) \in Values(Selected))
  /\ KeyOnly

(* go_back() *)
GoBack ==
  /\ Browsing /\ Len(app.path) > 1
  /\ app' = [app EXCEPT !.path = Front(@), !.cursor = 0]
  /\ KeyOnly /\ UNCHANGED edit

(* Seeded fault: 'r' is looked at in an editor as well. *)
RefreshInEditor ==
  /\ phase = "tui" /\ past.refreshes < MaxRefresh
  /\ app' = [app EXCEPT !.waiting = 0..(Total - 1)]
  /\ devices' = [devices EXCEPT ![Dev] = [Without(@, ParamId) EXCEPT !.loaded = FALSE]]
  /\ past' = [past EXCEPT !.refreshes = @ + 1, !.stalled = Untracked]
  /\ UNCHANGED <<pending, asm, output, wire, line, phase, job, edit>>

(* 'r' *)
Refresh ==
  /\ Browsing /\ past.refreshes < MaxRefresh
  /\ app' = [app EXCEPT !.waiting = 0..(Total - 1)]
  /\ devices' = [devices EXCEPT ![Dev] = [Without(@, ParamId) EXCEPT !.loaded = FALSE]]
  /\ past' = [past EXCEPT !.refreshes = @ + 1, !.stalled = Untracked]
  /\ UNCHANGED <<pending, asm, output, wire, line, phase, job, edit>>

(* In the editor: text is typed or deleted, *)
Type(text) ==
  /\ app.editing
  /\ app' = [app EXCEPT !.buffer = text]
  /\ edit' = NoEdit
  /\ KeyOnly

(* an arrow steps from the option in the buffer to the next, round and     *)
(* round,                                                                  *)
Neighbour(p, i, step) ==
  IF step < 0 THEN IF i > Lowest(p) THEN i - 1 ELSE Highest(p)
              ELSE IF i < Highest(p) THEN i + 1 ELSE Lowest(p)

CurrentIndex(p) ==
  IF app.buffer = "" THEN ValueOf(p)
  ELSE IF app.buffer \in DOMAIN Numeral THEN Numeral[app.buffer]
  ELSE IF Position(p, app.buffer) < 0 THEN ValueOf(p) ELSE Position(p, app.buffer)

Arrow(step) ==
  /\ app.editing /\ HasSelected /\ Is(Selected, "selection")
  /\ LET next == Neighbour(Selected, CurrentIndex(Selected), step) IN
     app' = [app EXCEPT !.buffer = OptionAt(Selected, next)]
  /\ edit' = IF edit.clear
               THEN [edit EXCEPT !.aim = Neighbour(edit.opened, @, step)]
               ELSE edit
  /\ KeyOnly

(* Esc closes the editor or the question, *)
Dismiss ==
  /\ app.editing \/ app.confirming
  /\ app' = [app EXCEPT !.editing = FALSE, !.confirming = FALSE, !.buffer = ""]
  /\ edit' = NoEdit /\ KeyOnly

(* Seeded fault: the parameter read again is not forgotten. *)
WriteAndKeep(p, data) ==
  LET q == RequestEach(pending, <<p>>) IN
  /\ toDevice' = Append(toDevice, WriteFrame(p, data)) \o q.packets
  /\ devices' = [devices EXCEPT ![Dev].loaded = FALSE]
  /\ pending' = q.requests
  /\ app' = [app EXCEPT !.editing = FALSE, !.confirming = FALSE, !.buffer = "",
                        !.waiting = IF q.packets # << >> THEN @ \cup {p} ELSE @]
  /\ past' = [past EXCEPT !.edits = @ + 1]
  /\ UNCHANGED <<asm, output, held, toHost, losses, line, phase, job>>

(* Seeded fault: it is forgotten, and not asked for. *)
WriteOnly(p, data) ==
  /\ toDevice' = Append(toDevice, WriteFrame(p, data))
  /\ devices' = [devices EXCEPT ![Dev] = [Without(@, {p}) EXCEPT !.loaded = FALSE]]
  /\ app' = [app EXCEPT !.editing = FALSE, !.confirming = FALSE, !.buffer = ""]
  /\ past' = [past EXCEPT !.edits = @ + 1]
  /\ UNCHANGED <<pending, asm, output, held, toHost, losses, line, phase, job>>

(* apply_edit, execute_command, cancel_command and poll_command end alike: *)
(* the write is sent, the parameter forgotten and asked for again.         *)
WriteAndReread(p, data) ==
  LET q == RequestEach(pending, <<p>>) IN
  /\ toDevice' = Append(toDevice, WriteFrame(p, data)) \o q.packets
  /\ devices' = [devices EXCEPT ![Dev] = [Without(@, {p}) EXCEPT !.loaded = FALSE]]
  /\ pending' = q.requests
  /\ app' = [app EXCEPT !.editing = FALSE, !.confirming = FALSE, !.buffer = "",
                        !.waiting = IF q.packets # << >> THEN @ \cup {p} ELSE @]
  /\ past' = [past EXCEPT !.edits = @ + 1]
  /\ UNCHANGED <<asm, output, held, toHost, losses, line, phase, job>>

(* Enter: apply_edit(), for the parameter at the cursor now. *)
ApplyEdit ==
  /\ app.editing /\ past.edits < MaxEdits
  /\ HasSelected /\ ResolveWriteData(Selected, app.buffer).ok
  /\ WriteAndReread(Selected, ResolveWriteData(Selected, app.buffer).data)
  /\ edit' = NoEdit

ApplyNothing ==
  /\ app.editing
  /\ ~ (HasSelected /\ ResolveWriteData(Selected, app.buffer).ok)
  /\ app' = [app EXCEPT !.editing = FALSE, !.buffer = ""]
  /\ edit' = NoEdit /\ KeyOnly

(* 'y': execute_command(), 'n': cancel_command(), for the command at the   *)
(* cursor now.                                                             *)
Answered(action) ==
  /\ app.confirming /\ past.edits < MaxEdits
  /\ HasSelected /\ Is(Selected, "command")
  /\ WriteAndReread(Selected, action)
  /\ edit' = NoEdit

ExecuteCommand ==
  Answered(IF ValueOf(Selected) = ConfirmationNeeded THEN Confirm ELSE Start)

CancelCommand == Answered(Cancel)

AnswerNothing ==
  /\ app.confirming
  /\ ~ (HasSelected /\ Is(Selected, "command"))
  /\ app' = [app EXCEPT !.confirming = FALSE]
  /\ edit' = NoEdit /\ KeyOnly

(* 'p': poll_command() *)
PollCommand ==
  /\ Browsing /\ past.edits < MaxEdits
  /\ HasSelected /\ Is(Selected, "command")
  /\ WriteAndReread(Selected, Poll)
  /\ UNCHANGED edit

-----------------------------------------------------------------------------
(* set --check: run_set once all is loaded, run_set_with_schema once the   *)
(* device is discovered; export --get --from-schema.                       *)
Resolved ==
  LET all == [i \in DOMAIN line.writes |->
                [param |-> line.writes[i].param,
                 to |-> IF line.command = "set" THEN Assigned(line.writes[i])
                                                ELSE AssignedBySchema(line.writes[i])]]
  IN At(all, {i \in DOMAIN all : all[i].to.ok})

MayStart == \/ phase = "load" /\ Device0.loaded
            \/ phase = "start"

(* Seeded fault: the parameters are asked for before they are written. *)
ReadsThenWrites(writes, q) ==
  q.packets \o [i \in DOMAIN writes |-> WriteFrame(writes[i].param, writes[i].to.data)]

(* What is sent: all the writes, then what verify_writes asks for. *)
WritesThenReads(writes, q) ==
  [i \in DOMAIN writes |-> WriteFrame(writes[i].param, writes[i].to.data)] \o q.packets

(* Nothing tells the manager the time before the first update_time() of a  *)
(* loop, which tells it how long the program runs: discover_device() does  *)
(* not.  A read made before that is as old as that number is large, and is *)
(* sent again at once if it exceeds timeout_ms.                            *)
FirstTold == IF phase = "start" THEN 0..Timeout ELSE {0}

Aged(requests, elapsed) == [s \in Slot |-> Older(requests[s], elapsed)]

Overdue(elapsed) == past' = [past EXCEPT !.hasty = (elapsed = Timeout)]

(* The writes are sent, and verify_writes() forgets what was written and   *)
(* asks for it again, once for each write.                                 *)
SetStart ==
  /\ MayStart /\ line.command # "get" /\ Resolved # << >>
  /\ LET ids == [i \in DOMAIN Resolved |-> Resolved[i].param]
         q   == RequestEach(pending, ids)
     IN  /\ toDevice' = toDevice \o WritesThenReads(Resolved, q)
         /\ \E elapsed \in FirstTold : pending' = Aged(q.requests, elapsed) /\ Overdue(elapsed)
         /\ devices' = [devices EXCEPT ![Dev] = Without(@, ToSet(ids))]
         /\ job' = [job EXCEPT !.ids = ids]
  /\ phase' = "verify"
  /\ UNCHANGED <<asm, output, held, toHost, losses, line, app, edit>>

(* No valid writes to perform *)
SetNothing ==
  /\ MayStart /\ line.command # "get" /\ Resolved = << >>
  /\ phase' = "exit"
  /\ UNCHANGED <<vars, wire, line, app, job, edit, past>>

(* load_specific_params(): the parameters are asked for. *)
GetStart ==
  /\ phase = "start" /\ line.command = "get"
  /\ LET ids == [i \in DOMAIN line.writes |-> line.writes[i].param]
         q   == RequestEach(pending, ids)
     IN  /\ toDevice' = toDevice \o q.packets
         /\ \E elapsed \in FirstTold : pending' = Aged(q.requests, elapsed) /\ Overdue(elapsed)
         /\ job' = [job EXCEPT !.ids = ids, !.remaining = ToSet(ids)]
  /\ phase' = "get"
  /\ UNCHANGED <<devices, asm, output, held, toHost, losses, line, app, edit>>

(* Everything is read, or --timeout is over, however short it is: what was *)
(* read until then is exported.                                            *)
GetDone ==
  /\ phase = "get"
  /\ phase' = "exit"
  /\ job' = [job EXCEPT !.told = [p \in ToSet(job.ids) \cap Shown |-> Looked(Device0, p)]]
  /\ past' = [past EXCEPT !.cut = (job.remaining # {} /\ ~ AtRest)]
  /\ UNCHANGED <<vars, wire, line, app, edit>>

(* Each write has its answer, *)
Verified ==
  /\ phase = "verify" /\ Cardinality(DOMAIN job.told) >= Len(job.ids)
  /\ phase' = "exit"
  /\ UNCHANGED <<vars, wire, line, app, job, edit, past>>

(* The program has asked the user, and waited for the answer. *)
Prompted == ~ line.confirm /\ job.asked # {}

(* or the 30 s are over.  The frames do not take that long: nothing is     *)
(* under way any more, or the device is still busy with a command and has  *)
(* its writes.  But the user may: prompt_yes_no() waits while they run on. *)
GiveUp ==
  /\ phase = "verify" /\ Cardinality(DOMAIN job.told) < Len(job.ids)
  /\ \/ AtRest
     \/ /\ \A i \in DOMAIN toDevice : toDevice[i].kind # "write"
        /\ \A p \in ToSet(job.ids) \ DOMAIN job.told :
             Kind[p] = "command" /\ held[p] = Progress
     \/ Prompted
  /\ phase' = "exit"
  /\ UNCHANGED <<vars, wire, line, app, job, edit, past>>

-----------------------------------------------------------------------------
(* A packet arrives.                                                       *)
Arrives(kind) == phase \in {"load", "tui", "verify", "get"} /\ toHost # << >> /\ Head(toHost).kind = kind

(* Loaded parameters are waited for no longer.  (load, tui, get)           *)
Noted(last) ==
  /\ app' = IF phase = "tui" THEN [app EXCEPT !.waiting = @ \ Stored(devices'[Dev])] ELSE app
  /\ job' = IF last \in Stored(devices'[Dev]) THEN [job EXCEPT !.remaining = @ \ {last}] ELSE job

ReceiveEntry ==
  /\ Arrives("entry") /\ phase # "verify"
  /\ LET frame == Head(toHost) IN
     /\ HandleParameterEntry(Dev, frame.param, Entry(frame.param, frame.value))
     /\ Noted(frame.param)
  /\ toHost' = Tail(toHost)
  /\ UNCHANGED <<held, toDevice, losses, line, phase, edit, past>>

(* An entry in frames completes with the last of them.  verify_writes does *)
(* not look at one.                                                        *)
ReceiveChunk ==
  /\ Arrives("chunk")
  /\ LET chunk == Head(toHost).chunk IN
     /\ HandleParameterChunk(Dev, chunk)
     /\ IF chunk.remaining = 0
          THEN Noted(chunk.param)
          ELSE UNCHANGED <<app, job>>
  /\ toHost' = Tail(toHost)
  /\ UNCHANGED <<held, toDevice, losses, line, phase, edit, past>>

(* verify_writes: a parameter that is waited for, by the status of a       *)
(* command.  Only the number of an entry is compared; its status and value *)
(* are those the map of the selected device has now.                       *)
Awaited(p) == p \in ToSet(job.ids) \ DOMAIN job.told

Running(p, seen) == Awaited(p) /\ Kind[p] = "command" /\ seen = Progress

AsksBack(p, seen) == Awaited(p) /\ Kind[p] = "command" /\ seen = ConfirmationNeeded

(* What was told so far, and the value of one more parameter. *)
Told(told, p, v) == [x \in DOMAIN told \cup {p} |-> IF x = p THEN v ELSE told[x]]

(* What handle_packet leaves of the device, and what the map then says. *)
Handled(frame) ==
  WithParameter(Device0, frame.param, Entry(frame.param, frame.value))

Seen(frame) == Looked(Handled(frame), frame.param)

VerifyEntry ==
  /\ Arrives("entry") /\ phase = "verify"
  /\ LET frame == Head(toHost) IN
     /\ ~ Running(frame.param, Seen(frame)) /\ ~ AsksBack(frame.param, Seen(frame))
     /\ HandleParameterEntry(Dev, frame.param, Entry(frame.param, frame.value))
     /\ job' = IF Awaited(frame.param)
                 THEN [job EXCEPT !.told = Told(@, frame.param, Seen(frame))]
                 ELSE job
  /\ toHost' = Tail(toHost)
  /\ UNCHANGED <<held, toDevice, losses, line, phase, app, edit, past>>

(* An entry of this number that another device sent counts as the answer,  *)
(* and the manager leaves the selected device alone: the map may hold no   *)
(* such parameter.  (One that finds a command in the map which runs or     *)
(* asks back is left out: only a command in chunks stays there.)           *)
StrayEntry(p) ==
  /\ phase = "verify" /\ Awaited(p)
  /\ LET seen == Looked(Device0, p) IN
     /\ ~ Running(p, seen) /\ ~ AsksBack(p, seen)
     /\ job' = [job EXCEPT !.told = Told(@, p, seen)]
  /\ past' = [past EXCEPT !.strays = @ \cup {p}]
  /\ UNCHANGED <<vars, wire, line, phase, app, edit>>

(* What handle_packet leaves of an entry that is forgotten at once. *)
QueuesHandled(frame) ==
  RemovePending(EnqueueNextParameter(Queues, Dev, Handled(frame)), Dev, frame.param)

Forgotten(frame) ==
  devices' = [devices EXCEPT ![Dev] = Without(Handled(frame), {frame.param})]

(* A command that runs is asked for again, *)
VerifyRunning ==
  /\ Arrives("entry") /\ phase = "verify"
  /\ LET frame == Head(toHost)
         left  == QueuesHandled(frame)
         q     == RequestEach(left.requests, <<frame.param>>)
     IN  /\ Running(frame.param, Seen(frame))
         /\ Forgotten(frame)
         /\ pending' = q.requests
         /\ output' = left.packets
         /\ toDevice' = toDevice \o q.packets
  /\ toHost' = Tail(toHost)
  /\ UNCHANGED <<asm, held, losses, line, phase, app, job, edit, past>>

(* and one the device asks back about is confirmed with --confirm, and     *)
(* confirmed or cancelled by the user without, and not asked for again.    *)
VerifyAsked(answer) ==
  /\ Arrives("entry") /\ phase = "verify"
  /\ line.confirm => answer = Confirm
  /\ LET frame == Head(toHost) IN
     /\ AsksBack(frame.param, Seen(frame))
     /\ Forgotten(frame)
     /\ SetQueues(QueuesHandled(frame))
     /\ toDevice' = Append(toDevice, WriteFrame(frame.param, answer))
     /\ job' = [job EXCEPT !.asked = @ \cup {frame.param}, !.late = ~ line.confirm]
  /\ toHost' = Tail(toHost)
  /\ UNCHANGED <<asm, held, losses, line, phase, app, edit, past>>

(* The first update_time() after the question tells the manager how long   *)
(* the user took, while answers wait in the serial port's buffer.          *)
PromptTold(elapsed) ==
  /\ phase = "verify" /\ job.late
  /\ UpdateTime(elapsed)
  /\ job' = [job EXCEPT !.late = FALSE]
  /\ UNCHANGED <<wire, line, phase, app, edit, past>>

-----------------------------------------------------------------------------
(* drain_all(), and what it returns is sent.  (load, tui, verify, get)     *)
Draining == phase \in {"load", "tui", "verify", "get"}

SendDrained ==
  /\ Draining
  /\ output # << >> \/ \E s \in Slot : Due(pending[s])
  /\ toDevice' = toDevice \o [i \in 1..Cardinality(Retried) |->
                                ReadFrame(pending[SetToSeq(Retried)[i]])]
                          \o [i \in DOMAIN output |-> ReadFrame(output[i])]
  /\ past' = [past EXCEPT !.givenUp = @ \cup
       {pending[s].param : s \in {s \in Slot : Due(pending[s]) /\ Expire(pending[s]) = NoRequest}}]
  /\ DrainAll
  /\ UNCHANGED <<held, toHost, losses, line, phase, app, job, edit>>

(* update_time(), but for the first of a loop and the one after a prompt.  *)
(* Whatever is under way arrives in less than timeout_ms.                  *)
TimePasses ==
  /\ Draining /\ NothingUnderWay
  /\ UpdateTime(1)
  /\ UNCHANGED <<wire, tui>>

-----------------------------------------------------------------------------
(* The device answers a read with the entry, or with the fragment asked    *)
(* for of a long one; a write it obeys.                                    *)
Answer(frame) ==
  IF frame.param \notin Long
    THEN << [kind |-> "entry", param |-> frame.param, value |-> held[frame.param]] >>
  ELSE IF frame.chunk > 1 THEN << >>
  ELSE << [kind |-> "chunk",
           chunk |-> [param |-> frame.param, remaining |-> 1 - frame.chunk,
                      payload |-> [param |-> frame.param, index |-> frame.chunk,
                                   value |-> IF frame.chunk = 0 THEN 0 ELSE held[frame.param]]]] >>

(* A write to a selection within its limits, or the next status of a       *)
(* command.                                                                *)
Obeyed(p, data) ==
  IF Kind[p] = "selection" THEN IF data \in Values(p) THEN data ELSE held[p]
  ELSE IF data = Start THEN IF p \in Confirmed THEN ConfirmationNeeded ELSE Progress
  ELSE IF data = Confirm THEN Progress
  ELSE IF data = Cancel THEN Ready
  ELSE held[p]

DeviceAnswers ==
  /\ toDevice # << >> /\ Head(toDevice).kind = "read"
  /\ toDevice' = Tail(toDevice)
  /\ toHost' = toHost \o Answer(Head(toDevice))
  /\ UNCHANGED <<vars, tui, held, losses>>

DeviceObeys ==
  /\ toDevice # << >> /\ Head(toDevice).kind = "write"
  /\ toDevice' = Tail(toDevice)
  /\ LET frame == Head(toDevice) IN
     held' = [held EXCEPT ![frame.param] = Obeyed(frame.param, frame.data)]
  /\ UNCHANGED <<vars, tui, toHost, losses>>

DeviceFinishes(p) ==
  /\ Kind[p] = "command" /\ held[p] = Progress /\ phase # "exit"
  /\ held' = [held EXCEPT ![p] = Ready]
  /\ UNCHANGED <<vars, tui, toDevice, toHost, losses>>

(* A frame is lost, or arrives garbled, which comes to the same.  Those of *)
(* entries in several frames are spared: ParameterLink shows what a lost   *)
(* one does.                                                               *)
LoseRequest ==
  /\ losses < MaxLoss /\ toDevice # << >> /\ Head(toDevice).param \notin Long
  /\ toDevice' = Tail(toDevice)
  /\ losses' = losses + 1
  /\ UNCHANGED <<vars, tui, held, toHost>>

LoseReply ==
  /\ losses < MaxLoss /\ toHost # << >> /\ Head(toHost).kind = "entry"
  /\ toHost' = Tail(toHost)
  /\ losses' = losses + 1
  /\ UNCHANGED <<vars, tui, held, toDevice>>

-----------------------------------------------------------------------------
(* discover_device() has returned: the device is known and its first       *)
(* parameter asked for.  The browser and `set` have told the time once.    *)
Discovered == EnqueueNextParameter([requests |-> [s \in Slot |-> NoRequest], packets |-> << >>],
                                   Dev, NewDevice(Total))

TuiInit ==
  /\ line \in CommandLines
  /\ phase = CASE line.command = "tui" -> "tui"
               [] line.command = "set" -> "load"
               [] OTHER -> "start"
  /\ devices = [d \in Addr |-> IF d = Dev THEN NewDevice(Total) ELSE NoDevice]
  /\ \E elapsed \in 0..Timeout :
       pending = IF phase = "start" THEN Discovered.requests
                                    ELSE Aged(Discovered.requests, elapsed)
  /\ output = Discovered.packets
  /\ asm = Idle
  /\ app = [path |-> <<0>>, cursor |-> 0, editing |-> FALSE, confirming |-> FALSE,
            buffer |-> "", waiting |-> 0..(Total - 1)]
  /\ job = [ids |-> << >>, remaining |-> {}, told |-> << >>, asked |-> {}, late |-> FALSE]
  /\ held = [p \in DOMAIN Kind |-> IF Kind[p] = "selection" THEN Lowest(p) ELSE 0]
  /\ toDevice = << >> /\ toHost = << >> /\ losses = 0
  /\ edit = NoEdit
  /\ past = [edits |-> 0, refreshes |-> 0, stalled |-> FALSE, givenUp |-> {},
             hasty |-> FALSE, cut |-> FALSE, strays |-> {}]

Keys ==
  \/ Down \/ Up \/ SelectFolder \/ SelectCommand \/ SelectOption \/ GoBack \/ Refresh
  \/ \E text \in Typed : Type(text)
  \/ \E step \in {-1, 1} : Arrow(step)
  \/ Dismiss \/ ApplyEdit \/ ApplyNothing
  \/ ExecuteCommand \/ CancelCommand \/ AnswerNothing \/ PollCommand

Jobs ==
  \/ SetStart \/ SetNothing \/ GetStart \/ GetDone \/ Verified \/ GiveUp
  \/ VerifyEntry \/ VerifyRunning \/ \E answer \in {Confirm, Cancel} : VerifyAsked(answer)
  \/ \E p \in DOMAIN Kind : StrayEntry(p)
  \/ \E elapsed \in 1..Timeout : PromptTold(elapsed)

Packets == ReceiveEntry \/ ReceiveChunk \/ SendDrained \/ TimePasses

World ==
  \/ DeviceAnswers \/ DeviceObeys \/ LoseRequest \/ LoseReply
  \/ \E p \in DOMAIN Kind : DeviceFinishes(p)

TuiNext == Keys \/ Jobs \/ Packets \/ World

TuiSpec == TuiInit /\ [][TuiNext]_allVars

-----------------------------------------------------------------------------
(* Every variable is of its type, and the manager's tables are within      *)
(* their capacities.                                                       *)
TuiTypeOK ==
  /\ TypeOK
  /\ line \in CommandLines
  /\ phase \in {"start", "load", "tui", "verify", "get", "exit"}
  /\ app.path \in Seq(DOMAIN Kind) /\ app.path[1] = 0
  /\ app.cursor \in Nat /\ app.waiting \subseteq DOMAIN Kind
  /\ {app.editing, app.confirming} \in {{FALSE}, BOOLEAN}
  /\ DOMAIN job.told \subseteq ToSet(job.ids) /\ job.remaining \subseteq ToSet(job.ids)
  /\ DOMAIN held = DOMAIN Kind /\ \A p \in DOMAIN Kind : held[p] \in Values(p)
  /\ losses \in 0..MaxLoss
  /\ past.edits \in 0..MaxEdits /\ past.refreshes \in 0..MaxRefresh

(* Every value of a selection has a name, and the names tell them apart.   *)
ToldApart(p) ==
  /\ Highest(p) < Len(Options[p])
  /\ \A i, j \in DOMAIN Options[p] : Lower(Options[p][i]) = Lower(Options[p][j]) => i = j
  /\ ToSet(Options[p]) \cap ({""} \cup DOMAIN Numeral) = {}

(* What is sent to the device is what the user opened and aims at, though  *)
(* apply_edit, execute_command and cancel_command look up the parameter by *)
(* its place in a list that is made anew from the manager's map: provided  *)
(* the list had every parameter of the folder when it was opened (on one   *)
(* that has not, a parameter that arrives moves the cursor's line, and the *)
(* code does write to another one), nothing was typed, and the options     *)
(* name every value the selection can take and tell them apart: no two     *)
(* differ by their capitals only, none is empty and none is a number,      *)
(* which resolve_write_data takes for an index.                            *)
EditsAsAimed ==
  [][(app.editing \/ app.confirming) /\ toDevice' # toDevice
       /\ edit.clear
       /\ (Kind[edit.opened] = "selection" => ToldApart(edit.opened))
       => \A i \in (Len(toDevice) + 1)..Len(toDevice') :
            toDevice'[i].kind = "write" =>
              /\ toDevice'[i].param = edit.opened
              /\ toDevice'[i].data \in {edit.aim} \cup
                   (IF app.confirming THEN {Cancel} ELSE {})]_allVars

(* The enumeration, which run_tui and load_all_params leave to the manager *)
(* and to which they give no time limit, does not stop short of the last   *)
(* parameter: not on a lost frame, a parameter forgotten under its hands   *)
(* or a map emptied.  Two things do stop it: 'r' when no read is tracked,  *)
(* since nothing asks for the first parameter again (param_tui.rs:1122     *)
(* says request_all_parameters will, which is never called), and reading   *)
(* an entry in chunks a second time, which asks for chunks that do not     *)
(* exist because the manager's reassembler still holds the first reading.  *)
(* And no read of another entry is given up, but in verify_writes after a  *)
(* prompt.                                                                 *)
NotStuck ==
  /\ phase \in {"tui", "load"} /\ AtRest /\ ~ Device0.loaded =>
       past.stalled \/ past.givenUp # {}
  /\ Prompted \/ past.givenUp \subseteq Long

(* A value is what the device holds, but for a command that has finished   *)
(* since, which nobody asks for.                                           *)
StillHeld(v, p) ==
  \/ v = held[p]
  \/ Kind[p] = "command" /\ v = Progress /\ held[p] = Ready

(* When the line has gone quiet, what the list shows is what the device    *)
(* holds, written or not.  And no parameter is waited for that is loaded.  *)
ShownIsHeld ==
  phase = "tui" /\ AtRest =>
    /\ \A p \in Shown : HasData(p) => StillHeld(ValueOf(p), p)
    /\ app.waiting \cap Shown = {}

(* What `set --check` and `export --get` end up telling is what the device *)
(* holds after all the writes, for every parameter named.  The program's   *)
(* help says so of --check without exception: "After writing, read back    *)
(* parameter(s) to verify the change. For command parameters, polls until  *)
(* the state returns to Ready." (param_tui.rs:125-127).  The code does not *)
(* do it                                                                   *)
(*  - for a command the device asked back about: it is confirmed or        *)
(*    cancelled and never read again;                                      *)
(*  - for a command that runs longer than 30 s;                            *)
(*  - for anything, when the user lets the 30 s pass at the prompt;        *)
(*  - for a parameter in chunks, whose answer verify_writes does not       *)
(*    recognise;                                                           *)
(*  - for a number another device told an entry of.                        *)
(* And `export --get` does not when --timeout cuts it short, nor for a     *)
(* parameter in chunks when the program has run for timeout_ms before its  *)
(* first loop: the first chunk is then asked for twice.                    *)
VerifiedTells ==
  phase = "exit" /\ job.ids # <<>> =>
    /\ \A p \in DOMAIN job.told :
         \/ StillHeld(job.told[p], p)
         \/ p \in job.asked \cup past.strays
         \/ p \in Long /\ past.hasty
    /\ \A p \in ToSet(job.ids) \ DOMAIN job.told :
         \/ past.cut \/ Prompted
         \/ p \in Long /\ past.hasty
         \/ /\ line.command # "get"
            /\ \/ p \in Long \cup job.asked
               \/ Kind[p] = "command" /\ held[p] = Progress
=============================================================================
