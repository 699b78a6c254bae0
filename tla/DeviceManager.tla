--------------------------- MODULE DeviceManager ---------------------------
(***************************************************************************)
(* DeviceManager of src/src/device.rs: the table of discovered devices and *)
(* their parameters, the reads it has asked and not seen answered, the     *)
(* reassembler of chunked entries and the queue of packets it wants sent.  *)
(* One action per public method and per kind of packet handle_packet acts  *)
(* on; each is atomic, because every method takes &mut self.               *)
(*                                                                         *)
(* How the code's data appears here:                                       *)
(*  - `devices` has a value for every address; NoDevice is a key that the  *)
(*    map does not hold.  A packet whose source byte is no PacketAddress   *)
(*    is dropped before any state is read, so it is no step.               *)
(*  - `pending` is the Vec of PendingRequest, by slot.  Only how many      *)
(*    slots are free and what the others hold matters to the code, not     *)
(*    their order, which decides only the order of the retries of one      *)
(*    process_timeouts call.                                               *)
(*  - current_time and the timestamps are kept as the age of each request, *)
(*    counted up to Timeout: the code only asks if an age has reached it.  *)
(*  - what from_bytes makes of the fragments of a chunked entry is the     *)
(*    parameter Parsed: the set of possible outcomes.                      *)
(* send_device_ping and write_parameter change none of this state.         *)
(***************************************************************************)
EXTENDS ChunkReassembler, FiniteSets

CONSTANTS
  Addr,           \* addresses of devices (PacketAddress)
  MaxParamId,     \* largest parameter number (255)
  Content,        \* contents of a parameter entry
  Parsed(_),      \* fragments -> what from_bytes may return for them
  Failed,         \* ... when it is Err
  Stub,           \* the hidden placeholder of a failed reassembly
  Absent,         \* the map holds no parameter of that number
  NoDevice,       \* the map holds no device of that address
  NoRequest,      \* the slot is free
  MaxDevices,     \* MAX_DEVICES (8)
  MaxParameters,  \* MAX_PARAMETERS (64)
  Slot,           \* MAX_PENDING_REQUESTS (16) places
  ChunkNumber,    \* chunk numbers the application asks for (u8)
  MaxOutput,      \* MAX_PENDING_OUTPUT (8)
  Timeout,        \* config.timeout_ms, in ticks of update_time
  RetryCount      \* config.retry_count

ASSUME ParamAssumption == MaxParamId \in Nat /\ ParamId = 0..MaxParamId
ASSUME CapacityAssumption ==
  {MaxDevices, MaxParameters, MaxOutput, MaxChunks} \subseteq Nat \ {0}
ASSUME AddrAssumption == IsFiniteSet(Addr)
ASSUME TimingAssumption == Timeout \in Nat /\ RetryCount \in Nat
ASSUME NumberAssumption == Remaining \subseteq Nat /\ ChunkNumber \subseteq Nat
ASSUME ContentAssumption ==
  /\ {Stub, Absent, Failed} \cap Content = {}
  /\ Stub # Absent

VARIABLES
  devices,  \* DeviceManager.devices
  pending,  \* DeviceManager.pending_requests
  asm,      \* DeviceManager.chunk_reassembler
  output    \* DeviceManager.pending_output

vars == <<devices, pending, asm, output>>

Device == [total : ParamId, loaded : BOOLEAN,
           params : [ParamId -> Content \cup {Stub, Absent}]]

Request == [dev : Addr, param : ParamId, chunk : Nat,
            retries : 0..RetryCount, age : 0..Timeout]

(* A ParameterRead packet. *)
Read == [dev : Addr, param : ParamId, chunk : Nat]

ASSUME NullAssumption == NoDevice \notin Device /\ NoRequest \notin Request

ReadOf(r) == [dev |-> r.dev, param |-> r.param, chunk |-> r.chunk]

-----------------------------------------------------------------------------
(* Device *)

(* Device::from_device_info *)
NewDevice(total) ==
  [total |-> total, loaded |-> FALSE, params |-> [p \in ParamId |-> Absent]]

Stored(dev) == {p \in ParamId : dev.params[p] # Absent}

Full(dev) == Cardinality(Stored(dev)) >= dev.total

(* Seeded fault: the capacity of the map is not looked at. *)
AddParameterAnyway(dev, p, content) == [dev EXCEPT !.params[p] = content]

(* add_parameter: a new number does not fit a full map, and the caller     *)
(* does not look at the result.                                            *)
AddParameter(dev, p, content) ==
  IF p \in Stored(dev) \/ Cardinality(Stored(dev)) < MaxParameters
    THEN [dev EXCEPT !.params[p] = content]
    ELSE dev

(* Seeded fault: the entry that is about to come is counted already. *)
WithParameterAhead(dev, p, content) ==
  LET added == AddParameter(dev, p, content) IN
  IF Cardinality(Stored(added)) + 1 >= added.total
    THEN [added EXCEPT !.loaded = TRUE]
    ELSE added

(* add_parameter, then parameters_loaded once the map has enough entries. *)
WithParameter(dev, p, content) ==
  LET added == AddParameter(dev, p, content) IN
  IF Full(added) THEN [added EXCEPT !.loaded = TRUE] ELSE added

(* Seeded fault: the scan starts at 1, as if the root folder had no number. *)
NextParameterAfterRoot(dev) ==
  LET missing == {p \in ParamId : 0 < p /\ p < dev.total /\ p \notin Stored(dev)} IN
  IF missing = {}
    THEN dev.total
    ELSE CHOOSE p \in missing : \A other \in missing : p <= other

(* The gap-scan of enqueue_next_parameter: the lowest number not stored.   *)
NextParameter(dev) ==
  LET missing == {p \in ParamId : p < dev.total /\ p \notin Stored(dev)} IN
  IF missing = {}
    THEN dev.total
    ELSE CHOOSE p \in missing : \A other \in missing : p <= other

-----------------------------------------------------------------------------
(* The two queues, as one value: requests is pending, packets is output.   *)
Queues == [requests |-> pending, packets |-> output]

SetQueues(q) ==
  /\ pending' = q.requests
  /\ output' = q.packets

Asked(requests, d, p) ==
  {s \in Slot : requests[s] # NoRequest /\ requests[s].dev = d /\ requests[s].param = p}

FreeSlots(requests) == {s \in Slot : requests[s] = NoRequest}

NewRequest(d, p, k) ==
  [dev |-> d, param |-> p, chunk |-> k, retries |-> 0, age |-> 0]

(* Seeded fault: the packet is queued whatever the queue holds. *)
EnqueueAlways(q, r) ==
  IF FreeSlots(q.requests) = {}
    THEN q
    ELSE LET s == CHOOSE s \in Slot : q.requests[s] = NoRequest IN
         [requests |-> [q.requests EXCEPT ![s] = r],
          packets  |-> Append(q.packets, ReadOf(r))]

(* A request is tracked if there is room for it, and only a tracked one is *)
(* sent; its packet is dropped if the output queue is full.                *)
Enqueue(q, r) ==
  IF FreeSlots(q.requests) = {}
    THEN q
    ELSE LET s == CHOOSE s \in Slot : q.requests[s] = NoRequest IN
         [requests |-> [q.requests EXCEPT ![s] = r],
          packets  |-> IF Len(q.packets) < MaxOutput
                         THEN Append(q.packets, ReadOf(r))
                         ELSE q.packets]

(* Seeded fault: a parameter is asked again though it is pending. *)
EnqueueNextParameterAgain(q, d, dev) ==
  IF dev.loaded
    THEN q
    ELSE Enqueue(q, NewRequest(d, NextParameter(dev), 0))

(* enqueue_next_parameter, for a device that the map holds. *)
EnqueueNextParameter(q, d, dev) ==
  IF dev.loaded \/ Asked(q.requests, d, NextParameter(dev)) # {}
    THEN q
    ELSE Enqueue(q, NewRequest(d, NextParameter(dev), 0))

(* remove_pending_request *)
RemovePending(q, d, p) ==
  [q EXCEPT !.requests =
     [s \in Slot |-> IF s \in Asked(q.requests, d, p) THEN NoRequest ELSE q.requests[s]]]

Known(d) == devices[d] # NoDevice

-----------------------------------------------------------------------------
(* handle_device_info: a new device object replaces one already known, and *)
(* a new address does not fit a full table.  The pending reads and the     *)
(* reassembler are left as they are.                                       *)
HandleDeviceInfo(d, total) ==
  /\ UNCHANGED asm
  /\ IF Known(d) \/ Cardinality({a \in Addr : Known(a)}) < MaxDevices
       THEN /\ devices' = [devices EXCEPT ![d] = NewDevice(total)]
            /\ SetQueues(EnqueueNextParameter(Queues, d, NewDevice(total)))
       ELSE UNCHANGED <<devices, pending, output>>

(* Seeded fault: the next parameter is looked for before the entry is      *)
(* stored.                                                                 *)
HandleParameterEntryAskFirst(d, p, content) ==
  /\ Known(d)
  /\ LET dev  == WithParameter(devices[d], p, content)
         next == EnqueueNextParameter(Queues, d, devices[d])
     IN  /\ devices' = [devices EXCEPT ![d] = dev]
         /\ SetQueues(RemovePending(next, d, p))
  /\ UNCHANGED asm

(* handle_parameter_entry: the next parameter is asked before the request  *)
(* this entry answers is forgotten.                                        *)
HandleParameterEntry(d, p, content) ==
  /\ Known(d)
  /\ LET dev  == WithParameter(devices[d], p, content)
         next == EnqueueNextParameter(Queues, d, dev)
     IN  /\ devices' = [devices EXCEPT ![d] = dev]
         /\ SetQueues(RemovePending(next, d, p))
  /\ UNCHANGED asm

(* handle_parameter_chunk, for a parameter that is stored already. *)
HandleStaleChunk(d, chunk) ==
  /\ Known(d)
  /\ chunk.param \in Stored(devices[d])
  /\ SetQueues(RemovePending(Queues, d, chunk.param))
  /\ UNCHANGED <<devices, asm>>

(* The requests that are left when a chunk interrupts the assembly of      *)
(* another parameter: those of that parameter are forgotten, for the       *)
(* device that sent the interrupting chunk.                                *)
QueuesForChunk(d, chunk) ==
  IF ~ IsIdle(asm) /\ asm.param # chunk.param
    THEN RemovePending(Queues, d, asm.param)
    ELSE Queues

AcceptsChunk(d, chunk) ==
  /\ Known(d)
  /\ chunk.param \notin Stored(devices[d])

(* handle_parameter_chunk: push() wants more, and the next chunk is asked  *)
(* by the number of chunks received so far.                                *)
HandlePartialChunk(d, chunk) ==
  /\ AcceptsChunk(d, chunk)
  /\ ~ Overflows(asm, chunk)
  /\ ~ Completes(chunk)
  /\ asm' = Buffer(asm, chunk)
  /\ SetQueues(Enqueue(QueuesForChunk(d, chunk),
                       NewRequest(d, chunk.param, ChunksReceived(asm'))))
  /\ UNCHANGED devices

(* handle_parameter_chunk: push() returns the complete entry.  The         *)
(* reassembler is not reset: it keeps the fragments.                       *)
HandleCompletedEntry(d, chunk, content) ==
  /\ AcceptsChunk(d, chunk)
  /\ ~ Overflows(asm, chunk)
  /\ Completes(chunk)
  /\ asm' = Buffer(asm, chunk)
  /\ content \in Parsed(asm'.chunks)
  /\ LET dev  == WithParameter(devices[d], chunk.param, content)
         next == EnqueueNextParameter(QueuesForChunk(d, chunk), d, dev)
     IN  /\ devices' = [devices EXCEPT ![d] = dev]
         /\ SetQueues(RemovePending(next, d, chunk.param))

(* handle_parameter_chunk: push() fails, on the budget or on the parse.    *)
(* The parameter is marked as visited by a hidden stub.                    *)
HandleFailedChunk(d, chunk) ==
  /\ AcceptsChunk(d, chunk)
  /\ \/ Overflows(asm, chunk)
     \/ Completes(chunk) /\ Failed \in Parsed(Buffer(asm, chunk).chunks)
  /\ asm' = Idle
  /\ LET dev == WithParameter(devices[d], chunk.param, Stub)
         left == RemovePending(QueuesForChunk(d, chunk), d, chunk.param)
     IN  /\ devices' = [devices EXCEPT ![d] = dev]
         /\ SetQueues(EnqueueNextParameter(left, d, dev))

HandleParameterChunk(d, chunk) ==
  \/ HandleStaleChunk(d, chunk)
  \/ HandlePartialChunk(d, chunk)
  \/ \E content \in Content : HandleCompletedEntry(d, chunk, content)
  \/ HandleFailedChunk(d, chunk)

-----------------------------------------------------------------------------
(* request_all_parameters: the whole output queue is drained, its last     *)
(* packet is returned and the others are dropped.                          *)
RequestAllQueues(d) == EnqueueNextParameter(Queues, d, devices[d])

RequestAllParameters(d) ==
  /\ Known(d)
  /\ ~ devices[d].loaded
  /\ SetQueues([RequestAllQueues(d) EXCEPT !.packets = << >>])
  /\ UNCHANGED <<devices, asm>>

(* request_parameter: tracked without looking for an equal request, and    *)
(* returned to the caller rather than queued.                              *)
RequestParameter(d, p, k) ==
  /\ Known(d)
  /\ FreeSlots(pending) # {}
  /\ pending' = [pending EXCEPT ![CHOOSE s \in Slot : pending[s] = NoRequest]
                   = NewRequest(d, p, k)]
  /\ UNCHANGED <<devices, asm, output>>

(* drain_output *)
DrainOutput ==
  /\ output' = << >>
  /\ UNCHANGED <<devices, pending, asm>>

Due(r) == r # NoRequest /\ r.age >= Timeout

(* Seeded fault: the last retry is not made. *)
ExpireEarly(r) ==
  IF ~ Due(r) THEN r
  ELSE IF r.retries + 1 >= RetryCount
    THEN NoRequest
    ELSE [r EXCEPT !.retries = @ + 1, !.age = 0]

(* What process_timeouts does to one request. *)
Expire(r) ==
  IF ~ Due(r) THEN r
  ELSE IF r.retries >= RetryCount
    THEN NoRequest
    ELSE [r EXCEPT !.retries = @ + 1, !.age = 0]

(* The slots whose read process_timeouts returns to be sent again. *)
Retried == {s \in Slot : Due(pending[s]) /\ Expire(pending[s]) # NoRequest}

ProcessTimeouts ==
  /\ pending' = [s \in Slot |-> Expire(pending[s])]
  /\ UNCHANGED <<devices, asm, output>>

(* drain_all *)
DrainAll ==
  /\ pending' = [s \in Slot |-> Expire(pending[s])]
  /\ output' = << >>
  /\ UNCHANGED <<devices, asm>>

(* update_time to a later time: every request has aged. *)
Older(r, elapsed) ==
  IF r = NoRequest THEN r
  ELSE [r EXCEPT !.age = IF @ + elapsed < Timeout THEN @ + elapsed ELSE Timeout]

UpdateTime(elapsed) ==
  /\ pending' = [s \in Slot |-> Older(pending[s], elapsed)]
  /\ UNCHANGED <<devices, asm, output>>

(* Seeded fault: the requests outlive their devices. *)
ClearKeepingRequests ==
  /\ devices' = [d \in Addr |-> NoDevice]
  /\ asm' = Idle
  /\ output' = << >>
  /\ UNCHANGED pending

(* clear *)
Clear ==
  /\ devices' = [d \in Addr |-> NoDevice]
  /\ pending' = [s \in Slot |-> NoRequest]
  /\ asm' = Idle
  /\ output' = << >>

-----------------------------------------------------------------------------
Init ==
  /\ devices = [d \in Addr |-> NoDevice]
  /\ pending = [s \in Slot |-> NoRequest]
  /\ asm = Idle
  /\ output = << >>

HandlePacket ==
  \E d \in Addr :
    \/ \E total \in ParamId : HandleDeviceInfo(d, total)
    \/ \E p \in ParamId, content \in Content : HandleParameterEntry(d, p, content)
    \/ \E chunk \in Chunk : HandleParameterChunk(d, chunk)

CallerRequests ==
  \E d \in Addr :
    \/ RequestAllParameters(d)
    \/ \E p \in ParamId, k \in ChunkNumber : RequestParameter(d, p, k)

Housekeeping ==
  \/ DrainOutput
  \/ ProcessTimeouts
  \/ DrainAll
  \/ \E elapsed \in 1..Timeout : UpdateTime(elapsed)
  \/ Clear

Next == HandlePacket \/ CallerRequests \/ Housekeeping

Spec == Init /\ [][Next]_vars

-----------------------------------------------------------------------------
(* The tables hold what the struct declares, within the capacities of its  *)
(* heapless collections.                                                   *)
TypeOK ==
  /\ devices \in [Addr -> Device \cup {NoDevice}]
  /\ pending \in [Slot -> Request \cup {NoRequest}]
  /\ asm \in Reassembler
  /\ Len(asm.chunks) <= MaxChunks
  /\ output \in Seq(Read)
  /\ Len(output) <= MaxOutput

(* parameters_loaded, which the three branches that store an entry or a    *)
(* stub set each on its own, agrees with the map: at least one entry is    *)
(* stored, and as many as the device announced.  Its documentation has no  *)
(* "at least one": "Set to `true` when `parameters.len() ==                *)
(* parameters_total`" (device.rs:413, and 396-397 alike).  A device that   *)
(* announces none is never marked loaded, since only a stored entry sets   *)
(* the flag; here the code and its documentation differ.                   *)
LoadedIffFull ==
  \A d \in Addr : Known(d) =>
    (devices[d].loaded <=> Stored(devices[d]) # {} /\ Full(devices[d]))

(* A read is tracked only for a device of the table: process_timeouts      *)
(* never sends one to an address the application has cleared.              *)
PendingOfKnown == \A s \in Slot : pending[s] # NoRequest => Known(pending[s].dev)

(* Whatever packet is handled, in whatever order, a read that is queued on *)
(* the manager's own initiative is for a parameter the device still lacks  *)
(* once the packet is dealt with, and no entry is begun for a device that  *)
(* is loaded: enumeration never goes back.                                 *)
AsksOnlyForMissing ==
  [][\A i \in (Len(output) + 1)..Len(output') :
       LET read == output'[i]
           dev  == devices'[read.dev]
       IN  /\ dev # NoDevice
           /\ read.param \notin Stored(dev)
           /\ dev.loaded => read.chunk > 0]_vars

(* No read is tracked twice.  process_timeouts retries an entry in place   *)
(* because a duplicate would be retried as well, and its duplicates again: *)
(* the "exponential retry explosion" its comment is about.                 *)
NoDuplicateReads ==
  \A s, t \in Slot :
    s # t /\ pending[s] # NoRequest /\ pending[t] # NoRequest =>
      ReadOf(pending[s]) # ReadOf(pending[t])

(* What the application sees of the table. *)
View(dev) ==
  IF dev = NoDevice
    THEN NoDevice
    ELSE [total |-> dev.total, stored |-> Stored(dev), loaded |-> dev.loaded]

ASSUME ViewAssumption ==
  NoDevice \notin [total : ParamId, stored : SUBSET ParamId, loaded : BOOLEAN]

Cat == INSTANCE Catalogue WITH table <- [d \in Addr |-> View(devices[d])]

(* Behind requests, retries, chunks and queues the application sees a      *)
(* catalogue that only ever grows, by one parameter at a time, until the   *)
(* device announces itself anew or everything is cleared.                  *)
ImplementsCatalogue == Cat!Spec
=============================================================================
