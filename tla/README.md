# A TLA+ model of uf-crsf

uf-crsf is a `no_std` Rust library for CRSF, the serial protocol between RC
handsets, radio modules, receivers and flight controllers.  This directory
holds TLA+ specifications of its stateful core, of its packet codecs and of the
parameter program that drives it, TLC runs that check them on small instances
and TLAPS proofs of what matters most for every instance.

    tlc -config MCCrsfParser.cfg MCCrsfParser.tla     one run
    tlapm CrsfParserProofs.tla                        one module of proofs

Paths below are relative to the repository.

## 1. Inventory: the parts of the system

| part | source | state | operations | talks to |
|---|---|---|---|---|
| frame parser | `src/parser.rs` | a 64-byte buffer, a write position, a four-state machine | `push_byte_raw`, `push_byte`, `iter_packets`, `reset` | fed by the readers or the application; returns frames to `Packet::parse` |
| stream readers | `src/blocking_io.rs`, `src/async_io.rs` | a parser, a stream, a 128-byte deque | `read_packet`, `write_packet` | the UART; the parser |
| packet dispatch | `src/packets/mod.rs` | none | `Packet::parse`, `write_packet_to_buffer` | parser, codecs |
| packet codecs | `src/packets/*.rs` (39 files) | none | `from_bytes`, `to_bytes` | dispatch |
| chunk reassembler | `src/packets/parameter_settings_entry.rs` | the fragments of one parameter entry | `push`, `reset`, queries | owned by the device manager |
| device manager | `src/device.rs` | table of devices and parameters, pending reads with retry counts and timestamps, one reassembler, an output queue, a clock | `handle_packet`, `request_*`, `drain_*`, `process_timeouts`, `update_time`, `send_device_ping`, `write_parameter`, `clear` | the application, which moves bytes between it and the link |
| parameter user interface | `examples/param_tui.rs` | the folder path, the cursor, an open editor or question, the parameters waited for; the answers a command line waits for | `discover_device`, `load_all_params`, `run_tui`, `run_set`, `verify_writes`, `load_specific_params` | the device manager, whose table it also edits (`get_device_mut`), and the serial port |
| demo and mock device | `examples/device_manager_demo.rs`, `examples/mock_parameter_cli.rs` | a device's parameters | answers to pings, reads, writes | device manager |
| hardware demo, tests, build files | `examples/stm32demo`, `tests/`, ... | - | - | - |

Everything runs in one thread, and every method takes `&mut self`: a call is
atomic.  What is concurrent is the other end of the wire.  The hard behaviour
is therefore in five places:

* **the parser** sees an arbitrary byte stream, never clears its buffer, and
  indexes it relying on checks made in another state several bytes earlier;
* **the codecs** index slices relying on a length checked once, share the type
  0x2B between two formats, and must undo on one side what the other did;
* **the device manager** is driven by answers that may be late, lost,
  duplicated by its own retries, or from several devices at once, with fixed
  capacities everywhere and results of `push` ignored on purpose;
* **cancellation** of the async reader at its only await point;
* **the parameter program** keeps positions in lists that are made anew from
  the manager's table, and takes parameters out of that table while the manager
  is still filling it.

What makes each part correct:

* parser: no index out of bounds; a returned frame is made of exactly the bytes
  that arrived since its address byte; the byte that spoils a frame is not lost.
* reassembler: an entry is assembled only from its own fragments, in order.
* device manager: what it says of a device (`parameters_loaded`, the stored
  entries) agrees with what it holds; it never asks for what it has; it does not
  multiply its own requests; every device is loaded in the end if the link
  loses fewer frames than it retries.
* readers: every byte of the stream reaches the parser exactly once, in order,
  whatever the errors and cancellations.
* codecs: what is sent arrives, or is refused; no index past a buffer, whatever
  a peer sends; fragments are told from whole entries; quantities keep their
  value through their unit on the wire.
* user interface: an edit goes to the parameter the user opened; what is shown,
  or reported as verified, is what the device holds; the enumeration does not
  stop.

The full list of hazards, each at its line, is in `PROJECT.json`.

## 2. Modules

| module | models |
|---|---|
| `Framer` | what a frame receiver promises: the abstract specification of the parser |
| `CrsfParser` | `src/parser.rs`: `push_byte_raw`, `reset` |
| `MCCrsfParser` | its instance for TLC |
| `CrsfParserProofs` | theorems about `CrsfParser` |
| `PacketReader` | `read_packet` of `src/async_io.rs` and `src/blocking_io.rs` |
| `PacketReaderProofs` | theorems about `PacketReader` |
| `ChunkReassembler` | `ParameterChunkReassembler`, as operators on a value |
| `Catalogue` | what the application sees of a device manager: its abstract specification |
| `DeviceManager` | `DeviceManager` of `src/device.rs` |
| `MCDeviceManager` | its instance for TLC, in an arbitrary environment |
| `DeviceManagerProofs` | theorems about `DeviceManager` |
| `Clock` | the time of the device manager: `update_time`, `send_device_ping`, `process_timeouts` on a counter that wraps |
| `ClockProofs` | theorems about `Clock` |
| `ParameterLink` | a device manager, the host loop that drives it, a lossy link and the devices behind it |
| `MCParameterLink` | its instances for TLC |
| `ParameterLinkProofs` | theorems about `ParameterLink` |
| `WireFormat` | the steps payload layouts are made of, and one reader and one writer for all of them |
| `PacketTypes` | the layout of every packet type of `src/packets` |
| `Units` | the conversions between units of the wire and of the caller |
| `UnitsProofs` | theorems about `Units` |
| `PacketExchange` | `to_bytes`, `write_packet_to_buffer`, `Packet::parse` and a fragmented entry, with a peer in between |
| `MCPacketExchange` | its instance for TLC |
| `ParamTui` | `examples/param_tui.rs` over `DeviceManager`, a lossy line and a device |
| `MCParamTui` | its instance for TLC |
| `ParamTuiProofs` | theorems about `ParamTui`: types, and one read of a parameter at a time |
| `ParamTuiSafetyProofs` | theorems about `ParamTui`: what is written, shown and told, and that the enumeration goes on |

### CrsfParser and Framer

The variables are the struct's fields, plus `result`, what the last call
returned.  There is one action per state of the machine (`PushSync`,
`PushLength`, `PushPayload`, `PushCrc`) and `CallerReset` for the public
`reset()`.  `RestartFrom` is the pair `reset(); try_start_frame_from_sync(byte)`
of the two error branches.  The buffer keeps old bytes, as in the code.  The
parser tells bytes apart only by whether they are an address, which size they
announce and by the checksum; these are the constants `SyncBytes`,
`MinPacketSize`, `MaxPacketSize` and `Crc`.  The error branch of
`RawCrsfPacket::new` (a frame shorter than four bytes) is unreachable after the
length check and has no action.

`Framer` keeps only the sequence of bytes since the last address byte.  The
refinement mapping `Candidate` is the live part of the buffer.

### PacketReader

The two readers are one algorithm; the async one can also be cancelled, and only
inside the read, its one await.  A byte is its position in the stream, so that
losing, repeating or reordering one shows.  The parser is deterministic, so its
answer to the i-th byte is a function of i: `verdict`, chosen freely at the
start.  `phase` is the place in `read_packet`: not running, in the loop over
`input_buffer` (`Feed`), or in the read (`ReadSome`, `EndOfStream`, `ReadFails`,
`Cancel`).  That a read which is dropped before it completes has taken nothing
from the stream is assumed of the stream, as the documentation of the reader does.
`Complete` keeps the branch that loses a batch the buffer cannot hold.

### DeviceManager, ChunkReassembler and Catalogue

| code | model |
|---|---|
| `devices: FnvIndexMap<PacketAddress, Device>` | `devices`, a value for every address; `NoDevice` is an absent key |
| `parameters: FnvIndexMap<u8, Parameter>` | `params`, a content for every number; `Absent` is an absent key, `Stub` the hidden placeholder of a failed assembly |
| `pending_requests: Vec<PendingRequest, 16>` | `pending`, a function on `Slot`; the order of the Vec matters to nothing but the order of retries |
| `timestamp`, `current_time` | the age of each request in ticks, counted up to `Timeout`, the only bound the code compares it with |
| `chunk_reassembler` | `asm`, the parameter number and the fragments |
| `pending_output: Vec<Vec<u8>, 8>` | `output`, a sequence of reads |

Each handler and public method is one action with every call it makes:
`handle_device_info`, `handle_parameter_entry`, the five outcomes of
`handle_parameter_chunk` (unknown device: no step; stale; partial; complete;
failed), `request_all_parameters`, `request_parameter`, `drain_output`,
`process_timeouts`, `drain_all`, `update_time`, `clear`.  The order of calls
inside a handler is kept where it can be seen: an entry asks for the next
parameter before it forgets the request it answers, a failed chunk does it the
other way round.  What the parse of assembled fragments yields is the constant
operator `Parsed`.

`send_device_ping` touches only the ping timer (see `Clock`), `write_parameter`
only builds a packet: neither changes the state modelled here.  `get_device_mut` lets an
application change a `Device` in any way: what the one application of the
repository that uses it does with it is in `ParamTui`; the properties and
theorems of `DeviceManager` itself are about a table nobody else writes.

`Catalogue` is the table an application sees through `devices()`,
`get_device()` and `parameters_loaded`: devices appear and start over, a
parameter is learnt one at a time, all is forgotten.

### Clock

`DeviceManager` counts the age of a read; the code subtracts readings of a u32
millisecond counter that the application hands in, and that wraps after 49 days
(the documentation suggests `elapsed().as_millis() as u32`).  `Clock` models the
subtraction (`Elapsed`, and `Panic` for a build that checks arithmetic), the
rate limit of `send_device_ping` and the timeout of one pending read.  The loop
starts with the packets, as that of `src/device.rs:97-123` does, or with the time,
as `device_manager_demo.rs` does (`Init`).  Before the first `update_time` (`told`)
everything is stamped 0, and a read made then is as old as the time source and may
be sent again at once; `stamped` is the history that tells such a read from the
others, which `RetriesNotEarly` is about.  One case is left out: a time source that
wraps around during a first turn that begins with packets.  Real milliseconds (`sincePing`, `sinceSent`,
`sinceAsked`) pass while packets are handled, at most `MaxTurn` in a turn, so that
a read is stamped with a reading as old as that.  Reads do not interact in
`process_timeouts`, so one is enough.

### ParameterLink

The host is the loop of the module documentation (`src/device.rs:50-70`), of
`load_all_params` and of `device_manager_demo.rs`: ping, feed the received
packets to `handle_packet`, advance the time, write what `drain_all` and
`request_all_parameters` return.  The devices are external: each answers a ping
with its `DeviceInformation`, a read with its entry, or with the chunk asked
for, and ignores a read beyond its parameters, as the mock of
`mock_parameter_cli.rs` does.  Frames to a device, and frames to the host, stay
in order.  `Shape` says how many chunks each entry of each device takes;
`ParsedFragments` makes the entry of fragments that are exactly its own, and of
any other sequence nondeterministically a failure or garbage.

The bounds of the environment are constants: `MaxPings`, `MaxLoss` (and
`LossMidAssembly`, whether it may strike while an entry is half received),
`MaxLate` (how many frames may be under way when time advances: above 0, answers
can come after their timeout) and `Asks` (whether the host calls
`request_all_parameters`).

### WireFormat, PacketTypes, Units and PacketExchange

Each `from_bytes` of `src/packets` is a straight line: check what is left, take
a field, go on.  A layout in `PacketTypes` is that line, as a sequence of steps
in the order of the code; the checks are steps of their own, because what can go
wrong is a check that is missing or one short.  `ReadAll` in `WireFormat` runs a
layout over a payload and stops at the first refused check or at the first index
past the slice; `PutAll` is the matching `to_bytes`.  A number is the sequence
of its bytes, which keeps widths and byte order without integers of 32 bits; a
packet is the sequence of its fields.  Three things of a type are not in its
steps: `short`, by how many bytes the buffer check of `to_bytes` misses what it
writes; `sealed`, a trailing CRC of the packet's own (commands); `sentAs`, the type
the frame is written with.  Enums have one layout per variant with bytes of its
own.  The RC channels are packed by the shifts of the code, on 16-bit words.

`PacketExchange` follows a packet: built by the application (`New`), written to
a buffer (`Serialise`, `Send`), parsed (`Receive`).  The peer between the two is
external: it may send the payload shortened, lengthened, changed or under
another type, always under a correct frame CRC, since frames without one never
reach `Packet::parse`.  An entry too long for a frame is `Cut` by the device and
its fragments are received one by one through `parse` and the operators of
`ChunkReassembler`, here with the eight chunks of the code and the real parse of
what was put together.  `Measure` takes a quantity through its conversion and
back, the addition in i32 of `meters_to_raw` included, and a Float from the bytes the
user interface writes to what a device makes of them.  Which `CrsfParsingError` is returned is left out: all are `"Error"`, and
an index past a slice is `"Panic"`.

### ParamTui

`ParamTui` extends `DeviceManager`: `discover_device` has returned, so the
device is known and its first parameter asked for (`TuiInit`), and the program
runs one of its command lines.  Nothing has told the manager the time until then:
the first `update_time` of a loop tells it how long the program runs (`FirstTold`),
and if that is more than `timeout_ms` every read made before, the queued first one
included, is sent twice.  Each mode is a loop of one thread that takes a
packet if there is one, sends what `drain_all` returns and looks at the
keyboard; an iteration is cut into these parts and their order left free,
so that a key falls between any two packets.

| code | model |
|---|---|
| `App`: `current_folder` and `breadcrumb`, `list_state`, `editing`, `edit_buffer`, `confirming_command`, the `pending` marks of `param_entries` | `app`: `path`, `cursor`, `editing`, `buffer`, `confirming`, `waiting` |
| the locals of `verify_writes` and `load_specific_params` | `job`: the numbers waited for, those left, the answers told, the commands asked back about, whether the user was just asked |
| `eq_ignore_ascii_case` of option names, `to_lowercase` of actions | `Lower`, in `Position` and `Action` |
| `min` and `max` of a `TextSelection` | `Limits` |
| the mode and how far it is | `line`, `phase` |
| `device.parameters.remove()`, `.clear()`, `parameters_loaded = false` | `Without`, inside the action that calls it |
| `request_parameter` and `send_packet` of what it returns | `RequestEach`, inside the action that calls it |

A key is one action, with the write, the removal and the request that follow
it; so is a packet of `verify_writes` (`VerifyEntry`, `VerifyRunning`,
`VerifyAsked`).  `verify_writes` compares the number of an entry and not its sender:
`StrayEntry` is one that another device sent, which the manager stores elsewhere and
the program takes for the answer.  Its 30 s include the time `prompt_yes_no` waits:
after a prompt `GiveUp` may come at any moment, and `PromptTold` tells the manager
how long the user took.  `load_specific_params` ends when everything is read or
`--timeout` is over, whichever comes first (`GetDone`).  The device is external: it answers reads, obeys writes, asks
back about some commands and finishes a running one at any time.  The line keeps
frames in order and loses up to `MaxLoss` of them, of entries that fit one
frame (`lost_chunk` is the run about the others).  Answers arrive
within `timeout_ms`: time advances when nothing is under way, but for the first
`update_time` of a loop and the one after a prompt, which have actions of their own.

Two variables are history.  `edit` is the parameter an editor was opened on and
what its arrows lead to, as long as the user could see the whole folder and
typed nothing.  `past` counts writes and refreshes, notes the two things
that stop an enumeration, a refresh when no read is tracked (`stalled`) and a
read given up (`givenUp`), and three that make a job tell less than it should:
reads sent twice at the start (`hasty`), a `--timeout` that came first (`cut`) and
numbers another device told an entry of (`strays`).

## 3. Properties and runs

| run | instance | checks |
|---|---|---|
| `parser` | frames of 4 to 6 bytes, 6 byte values that include addresses, every size, two illegal sizes and a checksum that can itself be an address | `TypeOK`, `NextWriteInBounds`, `FrameInProgress`, `ImplementsFramer` |
| `readers` | five bytes, every verdict on each, reads of up to two bytes into a buffer of three, two failed reads or cancelled calls | `TypeOK`, `Lossless`, `AnswersInOrder`, `BufferNeverFills`, `EventuallyFed` |
| `clock` | a clock of 12 readings, an interval of 5, a timeout of 4, two retries, turns of up to 3, started at any reading with the time or with packets, both kinds of build | `TypeOK`, `PingsSpaced`, `PingsGoOn`, `RetriesNotEarly`, `RetriesNotLate`, `GivenUpInTime`, `PanicsOnlyAfterWrap` |
| `manager_open` | one device, three parameter numbers, two entries per map, two pending reads, one output packet, two chunks, one retry; every packet and call in every state | `TypeOK`, `LoadedIffFull`, `PendingOfKnown`, `AsksOnlyForMissing`, `ImplementsCatalogue` |
| `link_mixed` | one device with entries of 1, 2 and 3 chunks, one with two plain entries, up to two lost frames but none during an assembly | `Faithful`, `EventuallyLoaded` |
| `link_plain` | two devices of plain entries, two losses, a second ping, answers after their timeout, an output queue of one packet, one retry, `request_all_parameters` at any time | `LoadedMeansAll`, `NoDuplicateReads`, `EventuallyLoaded` |
| `codec` | every kind of packet but the deprecated integers, each filled with nothing, with ones, with all that fits and beyond; buffers from two bytes too small to three too large; peers that send every shorter payload, up to five bytes more, any of the first seven bytes changed, every type; fragments of 1 to 56 bytes; readings around every limit of a unit | `TypeOK`, `WritesInBounds`, `ReadsInBounds`, `RoundTrip`, `Relayed`, `SealKept`, `FirstFragmentTold`, `ArrivesWhole`, `QuantityKept` |
| `tui` | five parameters (a root folder in an order that is not that of the numbers, a selection whose limits leave out its first option, a selection of two frames, a folder with a command that asks back), nine command lines with names in capitals and not (one interactive, three `set`, four `set --from-schema`, one `export --get`), prompts, `--timeout` and a start of any length, entries of another device, four pending reads, two writes from the keyboard, one refresh, one lost frame and one retry | `TuiTypeOK`, `EditsAsAimed`, `NotStuck`, `ShownIsHeld`, `VerifiedTells` |
| `two_assemblies` | two devices with a two-chunk parameter 0, nothing lost | `Faithful` fails |
| `lost_chunk` | one two-chunk parameter, one lost frame | `Faithful` fails |
| `float_written` | the numbers 0, 1 and others, written as a Float and taken by the mock device | `FloatArrives` fails |
| `ask_all` | two devices, `request_all_parameters` in the loop | `AskAllKeepsTheRest` fails |

The bounds are chosen so that every limit is reached: a frame of every legal
size after a longer one; a full parameter map, a full list of pending reads, a
full output queue and an exhausted chunk budget in `manager_open`; batches that
hold several packets and errors, and end in the middle of one, in `readers`; more
requests of two devices than slots in `link_plain`.  The pending slots of
`manager_open` are a symmetry set: their names are read nowhere.

The system may stop in two runs.  In `clock` a checked build panics once the
clock has wrapped around and a stamp is ahead of it (`PanicsOnlyAfterWrap` says
that nothing else makes it); a build that wraps goes on without a flaw.  In `tui`
the program ends when its command line is done.

The parameters of `codec` are not symmetric and not small numbers on purpose:
most of what it checks is at a boundary of a length.  The fields of a packet are
independent in the code, which is why one style for all of them at once reaches
every branch; three spare bytes and two missing ones reach every buffer check,
which differ from the size by a constant; a fragment of 56 bytes is
`MAX_CHUNK_PAYLOAD_SIZE`.  In `tui` one loss is what one retry covers; two
writes are the least that lets one overtake the re-reading of another.  Four
pending reads are enough for them, as the sixteen of the code are for more;
with three, a list full of re-reads makes `enqueue_next_chunk` drop a request,
which the code ignores, and the next chunk is never asked for.

`BufferNeverFills` shows that `InputBufferTooSmall`, which `error.rs` and both
readers explain how to recover from, cannot be returned: a read is only made
with an empty buffer, which is twice as large as a read.

What holds of the codecs holds with exceptions, which are part of the
properties and so are known to be all there are in the instance:

* `WritesInBounds`: `Rpm::to_bytes` does not look at the buffer
  (`src/packets/rpm.rs`); a Float entry asks for one byte less than it writes, so
  that one with a name and unit of 32 bytes stops the program.
* `ReadsInBounds`: a `DevicePing` of fewer than two bytes is indexed unchecked,
  although the trait promises that the slice has its minimum size; a `Temp` of 43
  bytes or more collects into a full `Vec`; a first chunk that announces 255 more
  overflows a `u8`.
* `RoundTrip`: what a format cannot carry is written all the same.  A channel
  above 11 bits runs into its neighbour, a Folder's child 0xFF ends the list, a
  MAVLink envelope of more than 15 chunks overlays two fields, an
  `MspResponse` is sent under the request's type, and `Rpm`, `Temp`, `Voltages`
  and `ParameterWrite` without values are sent and then refused.
* `Relayed`: an `Rpm` of three bytes is accepted and its value dropped.
* `FirstFragmentTold`: `Packet::parse` takes a fragment for a whole entry when
  the cut is right behind the name, or behind it in a VTX entry.
* `ArrivesWhole`: an entry of more than eight fragments is refused.
* `QuantityKept`: microseconds fit the 11 bits of a channel from 880 to 2159 only
  and wrap beyond; in the last thousand metres of an i32 `meters_to_raw` overflows,
  which is a refusal or a panic, by the build.

`LoadedIffFull` has an exception too, and there the documentation has none:
`parameters_loaded` is "set to `true` when `parameters.len() == parameters_total`"
(`src/device.rs:413`, and 396-397), but a device that announces 0 parameters, which
`manager_open` includes, is never marked loaded, since only a stored entry sets the
flag.

So with the user interface:

* `EditsAsAimed` needs that the list was whole when the editor was opened: the
  editor keeps a position, and a parameter that arrives above it shifts the line,
  so that the code does write to another parameter.
  It needs that the names of the options tell them apart: `resolve_write_data`
  reads a number as an index, and takes the first of two names that differ by
  their capitals only.
* `NotStuck`: after 'r' when no read is tracked nobody asks for the first
  parameter, since the comment there counts on `request_all_parameters`, which
  nothing calls; and an entry in chunks read a second time is never completed,
  because the reassembler keeps the first reading and asks beyond it.
* `ShownIsHeld`: a command shown as running stays so after it has finished.
* `VerifiedTells`: the help of `--check` promises more than the code does ("After
  writing, read back parameter(s) to verify the change.  For command parameters,
  polls until the state returns to Ready.", `param_tui.rs:125-127`).  It does not
  recognise the answer of a parameter in chunks, and does not read a command again
  that it confirmed; both, and a parameter named twice, are waited for until the
  30 s are over.  A user who answers a prompt late, or a command that runs for
  longer, leaves parameters reported as timed out.  A number another device told an
  entry of counts as verified, with whatever the map says of the selected device.
  `export --get` tells less when `--timeout` is short, and a parameter in chunks may
  be wrong when the program has run for `timeout_ms` before its first loop, because
  its first chunk is asked for twice.  In all else, what is told is
  what the device holds, but it is not compared with what was asked for.

The four failing runs are disagreements between the code and its own
documentation, quoted in `PROJECT.json` under `findings`:

1. *Two assemblies.*  The one reassembler compares parameter numbers and not
   senders.  Two devices that answer with chunks of the same parameter number
   are mixed into one entry.
2. *A lost chunk.*  The pending read of chunk n is not removed when chunk n
   arrives, only when the whole parameter is done.  After a loss, the timeout
   repeats the answered reads too, and their chunks are appended again.
3. *A Float written.*  `param_tui.rs` writes a Float little-endian, as the
   documentation of `write_parameter` says; the value in a Float entry is big-endian
   in the same library, as the protocol is, and the mock device takes a write
   so.  1 arrives as 16777216.
4. *Asking for all.*  `request_all_parameters` drains the shared queue and
   returns the last packet; the others are gone until their timeout.

In the first two the damage is a hidden stub or an entry that no
device sent, under a `parameters_loaded` that becomes true.  That is why the
two passing link runs, and the theorems about them, separate the cases: chunks
without losses in mid-assembly or second pings (`ChunkedFaithful`), and every
disturbance with plain entries, where the manager recovers from all of it
(`PlainFaithful`).

### Fairness

`EventuallyFed` assumes a caller that calls `read_packet` again after every
outcome, as the loops of the documentation do, and a stream whose read completes
when it has bytes, in whatever batches.  Failed reads and cancelled calls are
bounded: a caller whose every call is cancelled reads nothing.

`EventuallyLoaded` assumes that the host loop keeps coming round (it receives,
drains, lets time pass and asks for all, each weakly fair, as an unconditional
`loop` with a bounded sleep is) and that a frame that is not lost is delivered
and answered.  Loss is bounded by `MaxLoss`, not by fairness, and the bound does
not exceed what the retries cover; more losses than retries do stop an
enumeration for good, because a read out of retries is dropped.  Weak fairness of
`ReceiveFrame` is stated through `TakesReply`, what such a step does to the link:
only `ReceiveFrame` takes a reply off the line without counting a loss, and it
can always do so.

## 4. Proofs

TLC checks the instances above; the theorems hold for every value of the
constants that satisfies the named assumptions.

| theorem | states | of |
|---|---|---|
| `CrsfParserProofs!TypeCorrect` | `Spec => []TypeOK` | the parser |
| `CrsfParserProofs!WritesInBounds` | `Spec => []NextWriteInBounds` | |
| `CrsfParserProofs!FrameAgrees` | `Spec => []FrameInProgress` | |
| `CrsfParserProofs!ParserImplementsFramer` | `Spec => Abstract!Spec` | |
| `PacketReaderProofs!TypeCorrect` | `Spec => []TypeOK` | the readers |
| `PacketReaderProofs!NoByteLost` | `Spec => []Lossless` | |
| `PacketReaderProofs!EveryAnswerGiven` | `Spec => []AnswersInOrder` | |
| `PacketReaderProofs!BufferSuffices` | `Spec => []BufferNeverFills` | |
| `ClockProofs!TypeCorrect` | `Spec => []TypeOK` | the clock |
| `ClockProofs!PingsKeepDistance` | `Spec => PingsSpaced` | |
| `ClockProofs!PingsComeInTime` | `Spec => []PingsGoOn` | |
| `ClockProofs!NoEarlyRetry` | `Spec => RetriesNotEarly` | |
| `ClockProofs!NoLateRetry` | `Spec => []RetriesNotLate` | |
| `ClockProofs!ReadsGivenUp` | `Spec => []GivenUpInTime` | |
| `ClockProofs!NoPanicBeforeWrap` | `Spec => []PanicsOnlyAfterWrap` | |
| `DeviceManagerProofs!TypeCorrect` | `Spec => []TypeOK` | the device manager |
| `DeviceManagerProofs!LoadedMeansFull` | `Spec => []LoadedIffFull` | |
| `DeviceManagerProofs!NoStrayRequests` | `Spec => []PendingOfKnown` | |
| `DeviceManagerProofs!EnumerationNeverGoesBack` | `Spec => AsksOnlyForMissing` | |
| `DeviceManagerProofs!ManagerImplementsCatalogue` | `Spec => Cat!Spec` | |
| `ParameterLinkProofs!LinkImplementsManager` | `LinkSpec => Spec` | the enumeration over a link |
| `ParameterLinkProofs!LoadedTellsAll` | `LinkSpec => []LoadedMeansAll` | |
| `ParameterLinkProofs!PlainFaithful` | `LinkSpec => []Faithful`, entries of one frame | |
| `ParameterLinkProofs!PlainReadsOnce` | `LinkSpec => []NoDuplicateReads`, entries of one frame | |
| `ParameterLinkProofs!ChunkedFaithful` | `LinkSpec => []Faithful`, from `ChunksFit` | |
| `ParameterLinkProofs!ChunkedReadsOnce` | `LinkSpec => []NoDuplicateReads`, from `ChunksFit` | |
| `ParamTuiProofs!TuiTypeCorrect` | `TuiSpec => []TuiTypeOK` | the user interface |
| `ParamTuiProofs!OneReadAtATime` | `TuiSpec => []ReadOnce`: while the manager enumerates, one read at a time of each parameter of one frame but the root | |
| `ParamTuiSafetyProofs!EditsAreAsAimed` | `TuiSpec => EditsAsAimed` | |
| `ParamTuiSafetyProofs!KnownIsHeld` | what the browser knows is what the device holds, at any time, for parameters of one frame | |
| `ParamTuiSafetyProofs!ShownIsAsHeld` | `TuiSpec => []ShownIsHeld`, entries of one frame | |
| `ParamTuiSafetyProofs!JobTellsTrue` | `TuiSpec => []VerifiedTells`, from `JobFits` | |
| `ParamTuiSafetyProofs!EnumerationGoesOn` | `TuiSpec => []NotStuck`, from `EnumerationFits` | |
| `UnitsProofs!BaroAltitudeKept`, `BaroAltitudeOrdered`, `GpsAltitudeKept` | altitudes read back, for every integer | the conversions |
| `UnitsProofs!PulseKept`, `ChannelKept` | microseconds and ticks read back, for every u16 | |

*Parser.*  The assumptions are that addresses are bytes, that bytes are numbers
and that 4 <= `MinPacketSize` <= `MaxPacketSize`.  The inductive invariant is
`TypeOK /\ FrameInProgress`: alone, neither `TypeOK` nor `NextWriteInBounds` is
inductive, because what bounds the position in `Reading(n)` is its relation to
n, and what relates n to the buffer's size is the length byte, which must be
known not to be overwritten.  The refinement proof then maps each action to the
action of `Framer` with the same outcome; its core is that extending the live
part of the buffer by one write is appending to the candidate.

*Readers.*  The only assumption is that the input buffer holds one read.  The
inductive invariant adds to the four properties that a read is only made with an
empty buffer (`ReadsWhenEmpty`): without it a batch might not fit, and the part
that does not fit breaks `Lossless`.  `Lossless` in turn tells that the byte
popped is the one after those fed, which is what keeps the answers in order.

*Clock.*  The assumption is that the interval, or the timeout, and one turn of the
loop together do not exceed the width of the clock.  The inductive invariant
relates each stamp to the milliseconds that really passed: exactly for a ping,
up to one turn for a read (`PingStamp`, `RequestStamp`), and says that after each
call nothing is due (`NoPingDue`, `NothingDue`).  Together they keep a difference
of readings below the width, which is what makes the wrapping subtraction exact
(`ElapsedMoves`).  `ReadsGivenUp` adds that r retries have used up at most r
attempts' time.

*Device manager.*  The assumptions are positive capacities, a finite set of
addresses, numbers that are numbers, and sentinels (`NoDevice`, `Absent`, ...)
that differ from what they stand beside.  Each of the three invariants is proved
action by action, from lemmas about the operators (`AddParameter`,
`WithParameter`, `NextParameter`, `Enqueue`, `RemovePending`) that say what
they preserve.  `LoadedIffFull` needs the finite-set facts about cardinality: an
entry is only ever added, so a device that is full stays full.  The refinement
maps the handlers that store an entry to `Learn`, `HandleDeviceInfo` to
`Announce`, `Clear` to `ForgetAll`, and all else to a stutter; a stored entry
that the full map rejects is a stutter too.

`EnumerationNeverGoesBack` is proved from the same invariants, with
`NextParameter` returning the smallest number that is missing (`Smallest`).

*Link.*  `LinkImplementsManager` is the refinement that carries the theorems about
the manager over to it: the host of `ParameterLink` calls nothing that
`DeviceManager` does not have, and the frames on the link are those it was built
to take.  The latter is the inductive invariant, `LinkInv`: every frame, pending
read, stored entry and assembled fragment is of the shape of its own device
(`Shaped`).  It is all that `LoadedTellsAll` needs besides `LoadedIffFull`: a device
announces as many parameters as it has numbers, all that is stored is among them,
and a full set of that size is all of them.  The assumption is
`LinkAssumption`: devices have at least one frame per entry and a number of
parameters that fits a u8.  `PlainFaithful` and `PlainReadsOnce` are about entries
of one frame, and make no assumption about losses, late answers or pings; the
latter needs that every way in which a read is tracked first looks whether one is
(`SingleFor`).

*Entries in chunks.*  There `Faithful` is false in general: the runs
`two_assemblies` and `lost_chunk` each satisfy all but one of the
hypotheses of `ChunkedFaithful`, and TLC finds it violated; a second ping, which
the theorem excludes too, has no run of its own.  The hypotheses,
`ChunksFit`, are

* what the reassembler relies on, since it looks neither at the sender nor at the
  number of a chunk: at most one device has entries in chunks (others may have
  any number of plain ones); there is one ping, no answer after its timeout, no
  call of `request_all_parameters`, and no frame lost while an entry is half
  received (any number may be at other times);
* room, so that no read is dropped: `MaxDevices + MaxChunks <= Cardinality(Slot) +
  1`, `MaxDevices <= MaxOutput`, entries of at most `MaxChunks` chunks and at most
  `MaxParameters` of them.  The code has 8 devices, 8 chunks, 16 pending reads, 8
  output packets and 64 parameters.

A device that announces more than 64 parameters, or an entry of more than eight
chunks, is outside the theorem: it is never loaded (section 6), or becomes a stub.
`ParseAssumption` is about the devices: the parse of all the chunks of an entry
gives that entry.

`Faithful` is far from inductive: it says nothing of an entry on its way.
`AssemblyInv` adds, for each device,

* `OneFrame`: one frame is under way, in the output queue, on the line or on its
  way back;
* `Awaited`: it is the ping or its answer, or the read that is next (`NextRead`:
  the smallest missing parameter, and as many chunks as were assembled of it)
  or its answer.  So a chunk that arrives is always the one that is due;
* `Tracked`: the tracked reads are those of the chunks answered and the next,
  each once.  The answered ones stay until the entry is complete, which is why a
  timeout in mid-assembly would ask for them again;
* `Assembled`: what the reassembler holds is the beginning of the wanted entry,
  with the next chunk under way, or an entry already stored.

`QuietWhenDue` says that a read is due only in silence, and `TrackedInSilence` that
in silence only the first chunk of an entry is tracked: those two confine a retry
to reads whose answer starts an entry anew.  `SlotToSpare` and `OutputToSpare` turn
the room of `ChunksFit` into a free slot and a place in the queue, by an injection
of the tracked reads into devices and chunks, and of the queue into devices: they
are where the constants of the code meet.  `ChunkedReadsOnce` follows from `Tracked`.

*User interface.*  The assumptions are what a device tells of itself
(`DeviceAssumption`, `EntryAssumption`) and what the program is started with
(`ProgramAssumption`); sizes, kinds, the order of the children, the options and
limits, the way names are compared, the number of edits, refreshes and losses are
arbitrary.  The argument has seven layers, each an invariant that is inductive
with those before it:

1. `TypeInv`: the variables and the frames on the line have their types, the
   tables hold what concerns the selected device only, and as long as it is not
   loaded there is a number to ask for.  `TuiTypeOK` alone is not inductive: it
   says nothing of the frames, and a write of a value that the parameter cannot
   have would put one into `held`.
2. `ReadOnce`: while the manager enumerates, in the browser and before `set`
   begins, a parameter of one frame other than the root has at most one tracked
   read, and one trace of it in the queue, on the line or on its way back; a
   trace implies the tracked read and that it is not yet due; and a stored one has
   none (`EachOnce`).  It rests on answers coming within `timeout_ms`, which is the
   guard of `TimePasses`, and is what makes the table only grow between the user's
   own writes (`Grows`).  The root is the exception: its first read was made before
   any time was told, may be due at once and then is on the line twice.  Of it
   `RootKept` says what is needed instead: each answer says the same.
   With entries in chunks `EachOnce` is false: the reads of answered
   chunks are sent again.
3. `EditOK`: while an editor is clear, its list is `WholeList`, a function of the
   path alone; the cursor is on what was opened and the buffer names the option
   aimed at.  `EditsAreAsAimed` follows.  The attempt showed what the code relies
   on: the editor keeps a name and finds it again (`position` in
   `resolve_write_data`), so the names must differ by more than their capitals, be
   neither empty nor numbers and cover the limits (`ToldApart`), and the value must
   be within the limits.
4. `Fresh`: what is known of a parameter of one frame, or is in an entry on its
   way, is what the device holds; while a write is on its way nothing is known;
   and every read of a parameter is behind every write of it on the line.  The
   last part is why a re-read tells the value after the write, and holds because
   `apply_edit` and its like forget the parameter, and `ReadOnce` says that no
   earlier read is left over.  A write alone does not keep `Fresh`: the seeded
   fault `WriteAndKeep` breaks it.  `KnownIsHeld` and `ShownIsAsHeld` follow.
5. `LineInv`: `AllChased` says that a tracked read of one frame was retried no more
   often than frames were lost, but for one retry that a read too old or a
   full queue may cost, and that at the limit it or its answer is under way; so none is
   given up (`NoneGivenUp`).  `QuietWhenDue` keeps the two counts in step: a read
   that was retried is due only when its answer is not under way, since a loop
   takes what has arrived before it tells the time again.  A prompt breaks this, since
   answers wait in the serial port while the user thinks, and is excepted
   throughout (`Prompted`).  `StartOK`, `Commands` and `LoadedFull` say how a job
   starts and that a loaded device is complete.
6. `JobInv` adds what a job needs: `JobFresh` is `Fresh` for what it was told,
   strays apart.  `Pursued` says that what it waits for has a tracked read, which
   the layer before does not let go.  `Remains` and `Excused` account for what was
   never told.  `JobTellsTrue` follows.
7. `EnumerationInv` adds `Underway`: when something is missing and nothing is
   tracked, the user pressed 'r' at a moment when nothing was tracked (`stalled`).
   `EnumerationGoesOn` follows.

The last three need more of the constants, each for a reason in the code.
`LineFits`: entries of one frame; fewer losses than retries, because a read may be
sent again before its answer can come, and its packet is dropped when the output
queue is full, and one retry makes up for it, which is why nothing is asked of the
length of that queue; a map that holds all parameters, because `add_parameter` rejects
the rest.  `JobFits`: a command line shorter than the list of pending reads, because
`request_parameter` fails on a full list and the program goes on.
`EnumerationFits`: two pending reads, because `enqueue_next_parameter` looks for a slot
before the answered read gives up its own.  The proofs met two cases a reader of the
code may miss.  `verify_writes` could seem to run out of its 30 s while a second
write of a command named twice is still on the line; a write takes milliseconds,
so `GiveUp` waits for it, but after a prompt, where nothing can be said of
the time, it does not.  And with losses equal to the retries a read made before any
time was told wastes a retry at once and is then given up: that is what the strict
bound of `LineFits` is about.

*Units.*  No assumptions.  `Truncated` says what `i32` division does; the rest is
linear arithmetic over the cases of the code.

Checked by TLC only:

* `NotStuck`, `VerifiedTells` and `ShownIsHeld` where entries come in chunks, which
  hold there under the bounds of `tui` only: their re-reads, after a write, overlap
  the enumeration, so that `OneFrame` is not true of them;
* the codecs: their layouts are data run by folds and recursive functions, and
  their CRC and bit fields need `Bitwise`, which the prover cannot read.  `codec`
  checks them on concrete packets;
* liveness under fairness (`EventuallyLoaded`, `EventuallyFed`), and what an operator
  defined by recursion over data computes for every input.  The modules with
  theorems use no RECURSIVE operator.

## 5. Seeded faults

Operators whose comment begins with "Seeded fault" are not part of the
specification and are used by no definition.  Each is a plausible bug of the
operator it precedes; with it in that operator's place, the property named in
`PROJECT.json` under `mutants` is violated, which shows that the run can see it.

## 6. Not modelled

*Library.*  The logarithmic vertical speed of `baro_altitude.rs` and the float
getters and setters of the battery (real numbers); which error is returned, and its text; text with characters of
several bytes; logging and `defmt`; `lib.rs`; a clock that goes back (the
documentation demands a monotonic one); a device of more than 64 parameters,
which can never be loaded.

*Parameter program.*  The tree and JSON of `export`, the schema file, and `export`
and `set` where they only print; drawing, the status line and what is kept for
it (`needs_reread`, `params_loaded`, retry counts); 'q', and the exit on an error of
the terminal; edits of Float and String parameters (the bytes of a Float are in
`Units` and `FloatArrives`); a device that announces itself again.  A second device
on the line is `StrayEntry` of `verify_writes` only: that the manager enumerates it
beside the selected one is `ParameterLink`, and in the other modes an entry of it
clears at most the mark "pending" of a line with its number.  `StrayEntry` leaves
out one that finds in the map a command that runs or asks back, which only a
command in chunks leaves there.  The seconds of `verify_writes` and of `--timeout` are
not counted: the former suffice for any frame but not for a running command or a
user, the latter may end at any moment.

*Demos.*  `device_manager_demo.rs` and `mock_parameter_cli.rs` appear as the loop of
`Clock` and `ParameterLink` and as their devices; their command lines and printing do
not.  The STM32 demo, the integration tests and the build files are left out.

## 7. Plan

What is left, in order of importance.

1. What `ChunkedFaithful` carries over to the user interface: `JobTellsTrue` and
   `EnumerationGoesOn` for a device with entries in chunks.
2. A clock that goes back, and a device that announces more than 64 parameters.
