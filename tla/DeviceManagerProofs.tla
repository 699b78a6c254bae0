------------------------ MODULE DeviceManagerProofs ------------------------
(***************************************************************************)
(* Proofs about the device manager, for every set of addresses, every      *)
(* number of parameters, every capacity and every timing.                  *)
(***************************************************************************)
EXTENDS DeviceManager, FiniteSetTheorems, WellFoundedInduction, TLAPS

LEMMA Smallest ==
  ASSUME NEW T, T \subseteq Nat, T # {}
  PROVE  \E x \in T : \A y \in T : x <= y
<1> DEFINE R == OpToRel(<, Nat)
<1>1. IsWellFoundedOn(R, Nat)
  BY NatLessThanWellFounded
<1>2. \A x, y \in Nat : x < y => <<x, y>> \in R
  BY DEF OpToRel
<1> HIDE DEF R
<1>3. PICK x \in T : \A y \in T : ~ (<<y, x>> \in R)
  BY <1>1, WFMin, Zenon
<1>4. ASSUME NEW y \in T PROVE x <= y
  <2>1. x \in Nat /\ y \in Nat
    OBVIOUS
  <2>2. ~ (y < x)
    BY <1>2, <1>3, <2>1, Zenon
  <2>3. QED
    BY <2>1, <2>2
<1>5. QED
  BY <1>4

-----------------------------------------------------------------------------
(* One device *)

(* What a device of the table satisfies. *)
DeviceOK(dev) ==
  /\ dev \in Device
  /\ dev.loaded <=> Stored(dev) # {} /\ Full(dev)

LEMMA StoredFinite ==
  ASSUME NEW dev
  PROVE  /\ Stored(dev) \subseteq ParamId
         /\ IsFiniteSet(Stored(dev))
         /\ Cardinality(Stored(dev)) \in Nat
<1>1. IsFiniteSet(ParamId)
  BY ParamAssumption, FS_Interval
<1>2. Stored(dev) \subseteq ParamId
  BY DEF Stored
<1>3. QED
  BY <1>1, <1>2, FS_Subset, FS_CardinalityType

LEMMA NewDeviceOK ==
  ASSUME NEW total \in ParamId
  PROVE  /\ DeviceOK(NewDevice(total))
         /\ NewDevice(total).total = total
         /\ ~ NewDevice(total).loaded
         /\ Stored(NewDevice(total)) = {}
BY DEF DeviceOK, NewDevice, Stored, Device

(* add_parameter stores the entry, or finds the map full of others. *)
LEMMA AddParameterStored ==
  ASSUME NEW dev \in Device, NEW p \in ParamId, NEW content \in Content \cup {Stub}
  PROVE  LET added == AddParameter(dev, p, content) IN
         /\ added \in Device
         /\ added.total = dev.total /\ added.loaded = dev.loaded
         /\ \/ /\ Stored(added) = Stored(dev) \cup {p}
               /\ p \in Stored(dev) \/ Cardinality(Stored(dev)) < MaxParameters
            \/ /\ added = dev
               /\ Stored(dev) # {}
<1> DEFINE added == AddParameter(dev, p, content)
<1>1. content # Absent
  BY ContentAssumption
<1>2. CASE p \in Stored(dev) \/ Cardinality(Stored(dev)) < MaxParameters
  <2>1. added = [dev EXCEPT !.params[p] = content]
    BY <1>2 DEF AddParameter
  <2>2. /\ added \in Device
        /\ added.total = dev.total /\ added.loaded = dev.loaded
        /\ added.params = [dev.params EXCEPT ![p] = content]
    BY <2>1 DEF Device
  <2>3. Stored(added) = Stored(dev) \cup {p}
    BY <1>1, <2>2 DEF Stored, Device
  <2>4. QED
    BY <1>2, <2>2, <2>3
<1>3. CASE ~ (p \in Stored(dev) \/ Cardinality(Stored(dev)) < MaxParameters)
  <2>1. added = dev
    BY <1>3 DEF AddParameter
  <2>2. Stored(dev) # {}
    BY <1>3, CapacityAssumption, FS_EmptySet
  <2>3. QED
    BY <2>1, <2>2
<1>4. QED
  BY <1>2, <1>3

(* After an entry or a stub, `loaded` is again what the count says. *)
LEMMA WithParameterOK ==
  ASSUME NEW dev, DeviceOK(dev),
         NEW p \in ParamId, NEW content \in Content \cup {Stub}
  PROVE  LET with == WithParameter(dev, p, content) IN
         /\ DeviceOK(with)
         /\ with.total = dev.total
         /\ Stored(with) # {}
         /\ \/ /\ Stored(with) = Stored(dev) \cup {p}
               /\ p \in Stored(dev) \/ Cardinality(Stored(dev)) < MaxParameters
            \/ with = dev
<1> DEFINE added == AddParameter(dev, p, content)
           with  == WithParameter(dev, p, content)
<1>1. dev \in Device
  BY DEF DeviceOK
<1>2. /\ added \in Device
      /\ added.total = dev.total /\ added.loaded = dev.loaded
      /\ \/ /\ Stored(added) = Stored(dev) \cup {p}
            /\ p \in Stored(dev) \/ Cardinality(Stored(dev)) < MaxParameters
         \/ /\ added = dev
            /\ Stored(dev) # {}
  BY <1>1, AddParameterStored
<1> HIDE DEF added
<1>3. Stored(added) # {} /\ Stored(dev) \subseteq Stored(added)
  BY <1>2
<1>4. Cardinality(Stored(dev)) <= Cardinality(Stored(added))
  BY <1>3, StoredFinite, FS_Subset
<1>5. dev.total \in Nat
  BY <1>1, ParamAssumption DEF Device
<1>6. dev.loaded => Full(added)
  BY <1>2, <1>4, <1>5, StoredFinite DEF DeviceOK, Full
<1>7. CASE Full(added)
  <2>1. with = [added EXCEPT !.loaded = TRUE]
    BY <1>7 DEF WithParameter, added
  <2>2. with \in Device /\ with.loaded /\ with.params = added.params /\ with.total = dev.total
    BY <1>2, <2>1 DEF Device
  <2>3. Stored(with) = Stored(added)
    BY <2>2 DEF Stored
  <2>4. Full(with)
    BY <1>2, <1>7, <2>2, <2>3 DEF Full
  <2>5. added = dev => with = dev
    <3>1. SUFFICES ASSUME added = dev PROVE with = dev
      OBVIOUS
    <3>2. dev.loaded
      BY <1>7, <1>3, <3>1 DEF DeviceOK
    <3>3. QED
      BY <1>1, <2>1, <3>1, <3>2 DEF Device
  <2>6. QED
    BY <1>2, <1>3, <2>2, <2>3, <2>4, <2>5 DEF DeviceOK
<1>8. CASE ~ Full(added)
  <2>1. with = added
    BY <1>8 DEF WithParameter, added
  <2>2. ~ added.loaded
    BY <1>2, <1>6, <1>8
  <2>3. QED
    BY <1>2, <1>3, <1>8, <2>1, <2>2 DEF DeviceOK
<1>9. QED
  BY <1>7, <1>8

(* The gap-scan returns a parameter number, and one that is missing unless *)
(* all of them are stored.                                                 *)
LEMMA NextParameterMissing ==
  ASSUME NEW dev \in Device
  PROVE  /\ NextParameter(dev) \in ParamId
         /\ \/ NextParameter(dev) \notin Stored(dev)
            \/ \A p \in ParamId : p < dev.total => p \in Stored(dev)
<1> DEFINE missing == {p \in ParamId : p < dev.total /\ p \notin Stored(dev)}
<1>1. CASE missing = {}
  <2>1. NextParameter(dev) = dev.total
    BY <1>1 DEF NextParameter
  <2>2. QED
    BY <1>1, <2>1 DEF Device
<1>2. CASE missing # {}
  <2>1. missing \subseteq Nat
    BY ParamAssumption
  <2>2. \E p \in missing : \A other \in missing : p <= other
    BY <1>2, <2>1, Smallest
  <2>3. NextParameter(dev) = CHOOSE p \in missing : \A other \in missing : p <= other
    BY <1>2 DEF NextParameter
  <2> HIDE DEF missing
  <2>4. NextParameter(dev) \in missing
    BY <2>2, <2>3
  <2>5. QED
    BY <2>4 DEF missing
<1>3. QED
  BY <1>1, <1>2

-----------------------------------------------------------------------------
(* The two queues *)

(* The queues are well typed and within their capacities, and a request is *)
(* tracked only for a device that `table` holds.                           *)
QueuesOK(q, table) ==
  /\ q = [requests |-> q.requests, packets |-> q.packets]
  /\ q.requests \in [Slot -> Request \cup {NoRequest}]
  /\ q.packets \in Seq(Read)
  /\ Len(q.packets) <= MaxOutput
  /\ \A s \in Slot : q.requests[s] # NoRequest => table[q.requests[s].dev] # NoDevice

LEMMA NewRequestType ==
  ASSUME NEW d \in Addr, NEW p \in ParamId, NEW k \in Nat
  PROVE  /\ NewRequest(d, p, k) \in Request
         /\ NewRequest(d, p, k) # NoRequest
         /\ NewRequest(d, p, k).dev = d
         /\ NewRequest(d, p, k).param = p
<1>1. 0 \in 0..RetryCount /\ 0 \in 0..Timeout
  BY TimingAssumption
<1>2. NewRequest(d, p, k) \in Request
  BY <1>1 DEF NewRequest, Request
<1>3. QED
  BY <1>2, NullAssumption DEF NewRequest

LEMMA EnqueueOK ==
  ASSUME NEW table, NEW q, QueuesOK(q, table),
         NEW r \in Request, table[r.dev] # NoDevice
  PROVE  QueuesOK(Enqueue(q, r), table)
<1>1. CASE FreeSlots(q.requests) = {}
  BY <1>1 DEF Enqueue
<1>2. CASE FreeSlots(q.requests) # {}
  <2> DEFINE s        == CHOOSE s \in Slot : q.requests[s] = NoRequest
             requests == [q.requests EXCEPT ![s] = r]
             packets  == IF Len(q.packets) < MaxOutput
                           THEN Append(q.packets, ReadOf(r))
                           ELSE q.packets
  <2>1. s \in Slot
    BY <1>2 DEF FreeSlots
  <2>2. Enqueue(q, r) = [requests |-> requests, packets |-> packets]
    BY <1>2 DEF Enqueue
  <2> HIDE DEF s
  <2>3. requests \in [Slot -> Request \cup {NoRequest}]
    BY <2>1 DEF QueuesOK
  <2>4. ASSUME NEW t \in Slot, requests[t] # NoRequest
        PROVE  table[requests[t].dev] # NoDevice
    BY <2>1, <2>4 DEF QueuesOK
  <2>5. ReadOf(r) \in Read
    BY DEF ReadOf, Read, Request
  <2>6. packets \in Seq(Read) /\ Len(packets) <= MaxOutput
    BY <2>5, CapacityAssumption DEF QueuesOK
  <2> HIDE DEF requests, packets
  <2>7. QED
    BY <2>2, <2>3, <2>4, <2>6 DEF QueuesOK
<1>3. QED
  BY <1>1, <1>2

LEMMA EnqueueNextOK ==
  ASSUME NEW table, NEW q, QueuesOK(q, table),
         NEW d \in Addr, NEW dev \in Device, table[d] # NoDevice
  PROVE  QueuesOK(EnqueueNextParameter(q, d, dev), table)
<1> DEFINE r == NewRequest(d, NextParameter(dev), 0)
<1>1. r \in Request /\ table[r.dev] # NoDevice
  BY NextParameterMissing, NewRequestType
<1> HIDE DEF r
<1>2. QueuesOK(Enqueue(q, r), table)
  BY <1>1, EnqueueOK
<1>3. QED
  BY <1>2 DEF EnqueueNextParameter, r

LEMMA RemovePendingOK ==
  ASSUME NEW table, NEW q, QueuesOK(q, table), NEW d \in Addr, NEW p \in ParamId
  PROVE  QueuesOK(RemovePending(q, d, p), table)
<1> DEFINE requests == [s \in Slot |-> IF s \in Asked(q.requests, d, p)
                                         THEN NoRequest ELSE q.requests[s]]
<1>1. RemovePending(q, d, p) = [requests |-> requests, packets |-> q.packets]
  BY DEF RemovePending, QueuesOK
<1>2. requests \in [Slot -> Request \cup {NoRequest}]
  BY DEF QueuesOK
<1>3. ASSUME NEW s \in Slot, requests[s] # NoRequest
      PROVE  table[requests[s].dev] # NoDevice
  BY <1>3 DEF QueuesOK
<1> HIDE DEF requests
<1>4. QED
  BY <1>1, <1>2, <1>3 DEF QueuesOK

(* A table that still holds every device it held keeps the queues right. *)
LEMMA QueuesMonotone ==
  ASSUME NEW table, NEW later, NEW q, QueuesOK(q, table),
         \A d \in Addr : table[d] # NoDevice => later[d] # NoDevice
  PROVE  QueuesOK(q, later)
<1>1. \A s \in Slot : q.requests[s] # NoRequest => q.requests[s].dev \in Addr
  BY DEF QueuesOK, Request
<1>2. QED
  BY <1>1 DEF QueuesOK

-----------------------------------------------------------------------------
(* The inductive invariant: the three invariants support each other.  A    *)
(* request is stored for a device that must be in the table, and the count *)
(* behind `loaded` is over a well-typed map.                               *)
IInv == TypeOK /\ LoadedIffFull /\ PendingOfKnown

(* The part of it that concerns one value of the table of devices. *)
TableOK(table) ==
  /\ table \in [Addr -> Device \cup {NoDevice}]
  /\ \A d \in Addr : table[d] # NoDevice => DeviceOK(table[d])

AsmOK(a) == a \in Reassembler /\ Len(a.chunks) <= MaxChunks

LEMMA IInvParts ==
  IInv <=> TableOK(devices) /\ QueuesOK(Queues, devices) /\ AsmOK(asm)
<1>1. Queues = [requests |-> pending, packets |-> output]
  BY DEF Queues
<1>2. IInv => TableOK(devices) /\ QueuesOK(Queues, devices) /\ AsmOK(asm)
  BY <1>1 DEF IInv, TypeOK, LoadedIffFull, PendingOfKnown, Known, TableOK,
              DeviceOK, QueuesOK, AsmOK
<1>3. TableOK(devices) /\ QueuesOK(Queues, devices) /\ AsmOK(asm) => IInv
  BY <1>1 DEF IInv, TypeOK, LoadedIffFull, PendingOfKnown, Known, TableOK,
              DeviceOK, QueuesOK, AsmOK
<1>4. QED
  BY <1>2, <1>3

(* A step proves the invariant again from the new table and new queues. *)
LEMMA Restored ==
  ASSUME NEW q, SetQueues(q), QueuesOK(q, devices'), TableOK(devices'), AsmOK(asm')
  PROVE  IInv'
<1>1. q = [requests |-> pending', packets |-> output']
  BY DEF SetQueues, QueuesOK
<1>2. Queues' = q
  BY <1>1 DEF Queues
<1>3. (TableOK(devices) /\ QueuesOK(Queues, devices) /\ AsmOK(asm))'
  BY <1>2 DEF TableOK, QueuesOK, AsmOK, Queues
<1>4. QED
  BY <1>3, IInvParts, PTL

LEMMA StoreDevice ==
  ASSUME NEW table, TableOK(table), NEW d \in Addr, NEW dev, DeviceOK(dev)
  PROVE  LET later == [table EXCEPT ![d] = dev] IN
         /\ TableOK(later)
         /\ later[d] # NoDevice
         /\ \A a \in Addr : table[a] # NoDevice => later[a] # NoDevice
BY NullAssumption DEF TableOK, DeviceOK

LEMMA IdleOK == AsmOK(Idle)
<1>1. << >> \in Seq(Fragment) /\ Len(<< >>) = 0
  OBVIOUS
<1>2. 0 \in ParamId
  BY ParamAssumption
<1>3. QED
  BY <1>1, <1>2, CapacityAssumption DEF AsmOK, Idle, Reassembler

LEMMA BufferOK ==
  ASSUME NEW a, AsmOK(a), NEW chunk \in Chunk, ~ Overflows(a, chunk)
  PROVE  /\ AsmOK(Buffer(a, chunk))
         /\ ChunksReceived(Buffer(a, chunk)) \in Nat
<1> DEFINE admitted == Admit(a, chunk)
<1>1. admitted \in Reassembler
  BY DEF AsmOK, Admit, Reassembler, Chunk
<1>2. Len(admitted.chunks) < MaxChunks
  BY <1>1, CapacityAssumption DEF Overflows, ChunksReceived, Reassembler
<1> HIDE DEF admitted
<1>3. /\ Buffer(a, chunk).param = admitted.param
      /\ Buffer(a, chunk).chunks = Append(admitted.chunks, chunk.payload)
      /\ Buffer(a, chunk) \in Reassembler
  BY <1>1 DEF Buffer, admitted, Reassembler, Chunk
<1>4. Len(Buffer(a, chunk).chunks) = Len(admitted.chunks) + 1
  BY <1>1, <1>3 DEF Reassembler
<1>5. QED
  BY <1>1, <1>2, <1>3, <1>4, CapacityAssumption DEF AsmOK, ChunksReceived, Reassembler

LEMMA QueuesForChunkOK ==
  ASSUME IInv, NEW d \in Addr, NEW chunk \in Chunk
  PROVE  QueuesOK(QueuesForChunk(d, chunk), devices)
<1>1. QueuesOK(Queues, devices) /\ asm.param \in ParamId
  BY IInvParts DEF AsmOK, Reassembler
<1>2. QueuesOK(RemovePending(Queues, d, asm.param), devices)
  BY <1>1, RemovePendingOK
<1>3. QED
  BY <1>1, <1>2 DEF QueuesForChunk

LEMMA KnownOK ==
  ASSUME IInv, NEW d \in Addr, Known(d)
  PROVE  DeviceOK(devices[d])
BY IInvParts DEF TableOK, Known

-----------------------------------------------------------------------------
(* Each operation preserves the invariant. *)

LEMMA InitInv == Init => IInv
<1> SUFFICES ASSUME Init PROVE IInv
  OBVIOUS
<1>1. TableOK(devices)
  BY DEF Init, TableOK
<1>2. QueuesOK(Queues, devices)
  BY CapacityAssumption DEF Init, QueuesOK, Queues
<1>3. AsmOK(asm)
  BY IdleOK DEF Init
<1>4. QED
  BY <1>1, <1>2, <1>3, IInvParts

LEMMA DeviceInfoInv ==
  ASSUME IInv, NEW d \in Addr, NEW total \in ParamId, HandleDeviceInfo(d, total)
  PROVE  IInv'
<1>1. TableOK(devices) /\ QueuesOK(Queues, devices) /\ AsmOK(asm) /\ asm' = asm
  BY IInvParts DEF HandleDeviceInfo
<1>2. CASE Known(d) \/ Cardinality({a \in Addr : Known(a)}) < MaxDevices
  <2> DEFINE dev == NewDevice(total)
             q   == EnqueueNextParameter(Queues, d, dev)
  <2>1. devices' = [devices EXCEPT ![d] = dev] /\ SetQueues(q)
    BY <1>2 DEF HandleDeviceInfo
  <2>2. DeviceOK(dev) /\ dev \in Device
    BY NewDeviceOK DEF DeviceOK
  <2> HIDE DEF dev
  <2>3. /\ TableOK(devices')
        /\ devices'[d] # NoDevice
        /\ \A a \in Addr : devices[a] # NoDevice => devices'[a] # NoDevice
    BY <1>1, <2>1, <2>2, StoreDevice
  <2>4. QueuesOK(Queues, devices')
    BY <1>1, <2>3, QueuesMonotone
  <2>5. QueuesOK(q, devices')
    BY <2>2, <2>3, <2>4, EnqueueNextOK
  <2> HIDE DEF q
  <2>6. QED
    BY <1>1, <2>1, <2>3, <2>5, Restored
<1>3. CASE ~ (Known(d) \/ Cardinality({a \in Addr : Known(a)}) < MaxDevices)
  <2>1. UNCHANGED vars
    BY <1>1, <1>3 DEF HandleDeviceInfo, vars
  <2>2. QED
    BY <2>1 DEF vars, IInv, TypeOK, LoadedIffFull, PendingOfKnown, Known
<1>4. QED
  BY <1>2, <1>3

(* What the three branches that store an entry have in common. *)
LEMMA StoreInv ==
  ASSUME IInv, NEW d \in Addr, Known(d),
         NEW p \in ParamId, NEW content \in Content \cup {Stub},
         devices' = [devices EXCEPT ![d] = WithParameter(devices[d], p, content)],
         NEW q, QueuesOK(q, devices)
  PROVE  /\ TableOK(devices')
         /\ QueuesOK(q, devices')
         /\ QueuesOK(EnqueueNextParameter(q, d, WithParameter(devices[d], p, content)),
                     devices')
<1> DEFINE dev == WithParameter(devices[d], p, content)
<1>1. DeviceOK(dev) /\ dev \in Device
  BY KnownOK, WithParameterOK DEF DeviceOK
<1> HIDE DEF dev
<1>2. devices' = [devices EXCEPT ![d] = dev]
  BY DEF dev
<1>3. TableOK(devices)
  BY IInvParts
<1>4. /\ TableOK(devices')
      /\ devices'[d] # NoDevice
      /\ \A a \in Addr : devices[a] # NoDevice => devices'[a] # NoDevice
  <2> DEFINE later == [devices EXCEPT ![d] = dev]
  <2>1. /\ TableOK(later)
        /\ later[d] # NoDevice
        /\ \A a \in Addr : devices[a] # NoDevice => later[a] # NoDevice
    BY <1>1, <1>3, StoreDevice
  <2>2. devices' = later
    BY <1>2
  <2> HIDE DEF later
  <2>3. QED
    BY <2>1, <2>2, Zenon
<1>5. QueuesOK(q, devices')
  BY <1>4, QueuesMonotone
<1>6. QueuesOK(EnqueueNextParameter(q, d, dev), devices')
  BY <1>1, <1>4, <1>5, EnqueueNextOK
<1>7. QED
  BY <1>4, <1>5, <1>6 DEF dev

LEMMA EntryInv ==
  ASSUME IInv, NEW d \in Addr, NEW p \in ParamId, NEW content \in Content,
         HandleParameterEntry(d, p, content)
  PROVE  IInv'
<1> DEFINE dev  == WithParameter(devices[d], p, content)
           next == EnqueueNextParameter(Queues, d, dev)
           q    == RemovePending(next, d, p)
<1>1. /\ Known(d) /\ asm' = asm
      /\ devices' = [devices EXCEPT ![d] = dev]
      /\ SetQueues(q)
  BY DEF HandleParameterEntry
<1>2. QueuesOK(Queues, devices) /\ AsmOK(asm)
  BY IInvParts
<1>3. TableOK(devices') /\ QueuesOK(next, devices')
  BY <1>1, <1>2, StoreInv
<1> HIDE DEF next
<1>4. QueuesOK(q, devices')
  BY <1>3, RemovePendingOK
<1> HIDE DEF q
<1>5. QED
  BY <1>1, <1>2, <1>3, <1>4, Restored

LEMMA ChunkInv ==
  ASSUME IInv, NEW d \in Addr, NEW chunk \in Chunk, HandleParameterChunk(d, chunk)
  PROVE  IInv'
<1>1. /\ TableOK(devices) /\ QueuesOK(Queues, devices) /\ AsmOK(asm)
      /\ chunk.param \in ParamId
  BY IInvParts DEF Chunk
<1>2. QueuesOK(QueuesForChunk(d, chunk), devices)
  BY QueuesForChunkOK
<1>3. CASE HandleStaleChunk(d, chunk)
  <2> DEFINE q == RemovePending(Queues, d, chunk.param)
  <2>1. SetQueues(q) /\ devices' = devices /\ asm' = asm
    BY <1>3 DEF HandleStaleChunk
  <2>2. QueuesOK(q, devices')
    BY <1>1, <2>1, RemovePendingOK
  <2> HIDE DEF q
  <2>3. QED
    BY <1>1, <2>1, <2>2, Restored
<1>4. CASE HandlePartialChunk(d, chunk)
  <2> DEFINE r == NewRequest(d, chunk.param, ChunksReceived(asm'))
             q == Enqueue(QueuesForChunk(d, chunk), r)
  <2>1. /\ Known(d) /\ ~ Overflows(asm, chunk)
        /\ asm' = Buffer(asm, chunk) /\ SetQueues(q) /\ devices' = devices
    BY <1>4 DEF HandlePartialChunk, AcceptsChunk
  <2>2. AsmOK(asm') /\ ChunksReceived(asm') \in Nat
    BY <1>1, <2>1, BufferOK
  <2>3. r \in Request /\ devices[r.dev] # NoDevice
    BY <1>1, <2>1, <2>2, NewRequestType DEF Known
  <2> HIDE DEF r
  <2>4. QueuesOK(q, devices')
    BY <1>2, <2>1, <2>3, EnqueueOK
  <2> HIDE DEF q
  <2>5. QED
    BY <1>1, <2>1, <2>2, <2>4, Restored
<1>5. ASSUME NEW content \in Content, HandleCompletedEntry(d, chunk, content)
      PROVE  IInv'
  <2> DEFINE dev  == WithParameter(devices[d], chunk.param, content)
             next == EnqueueNextParameter(QueuesForChunk(d, chunk), d, dev)
             q    == RemovePending(next, d, chunk.param)
  <2>1. /\ Known(d) /\ ~ Overflows(asm, chunk)
        /\ asm' = Buffer(asm, chunk) /\ SetQueues(q)
        /\ devices' = [devices EXCEPT ![d] = dev]
    BY <1>5 DEF HandleCompletedEntry, AcceptsChunk
  <2>2. AsmOK(asm')
    BY <1>1, <2>1, BufferOK
  <2>3. TableOK(devices') /\ QueuesOK(next, devices')
    BY <1>1, <1>2, <2>1, StoreInv
  <2> HIDE DEF next
  <2>4. QueuesOK(q, devices')
    BY <1>1, <2>3, RemovePendingOK
  <2> HIDE DEF q
  <2>5. QED
    BY <2>1, <2>2, <2>3, <2>4, Restored
<1>6. CASE HandleFailedChunk(d, chunk)
  <2> DEFINE dev  == WithParameter(devices[d], chunk.param, Stub)
             left == RemovePending(QueuesForChunk(d, chunk), d, chunk.param)
             q    == EnqueueNextParameter(left, d, dev)
  <2>1. /\ Known(d) /\ asm' = Idle /\ SetQueues(q)
        /\ devices' = [devices EXCEPT ![d] = dev]
    BY <1>6 DEF HandleFailedChunk, AcceptsChunk
  <2>2. AsmOK(asm')
    BY <2>1, IdleOK
  <2>3. QueuesOK(left, devices)
    BY <1>1, <1>2, RemovePendingOK
  <2> HIDE DEF left
  <2>4. TableOK(devices') /\ QueuesOK(q, devices')
    BY <1>1, <2>1, <2>3, StoreInv
  <2> HIDE DEF q
  <2>5. QED
    BY <2>1, <2>2, <2>4, Restored
<1>7. QED
  BY <1>3, <1>4, <1>5, <1>6 DEF HandleParameterChunk

LEMMA RequestAllInv ==
  ASSUME IInv, NEW d \in Addr, RequestAllParameters(d)
  PROVE  IInv'
<1> DEFINE next == RequestAllQueues(d)
           q    == [next EXCEPT !.packets = << >>]
<1>1. /\ Known(d) /\ SetQueues(q) /\ devices' = devices /\ asm' = asm
  BY DEF RequestAllParameters
<1>2. TableOK(devices) /\ QueuesOK(Queues, devices) /\ AsmOK(asm)
  BY IInvParts
<1>3. devices[d] \in Device /\ devices[d] # NoDevice
  BY <1>1, KnownOK DEF DeviceOK, Known
<1>4. QueuesOK(next, devices)
  BY <1>2, <1>3, EnqueueNextOK DEF RequestAllQueues
<1> HIDE DEF next
<1>5. q = [requests |-> next.requests, packets |-> << >>]
  BY <1>4 DEF QueuesOK
<1>6. QueuesOK(q, devices')
  BY <1>1, <1>4, <1>5, CapacityAssumption DEF QueuesOK
<1> HIDE DEF q
<1>7. QED
  BY <1>1, <1>2, <1>6, Restored

(* Steps that do not touch the table of devices or the reassembler, and    *)
(* track no read for a device that is not in the table.                    *)
LEMMA RequestsInv ==
  ASSUME IInv, devices' = devices, asm' = asm,
         output' = output \/ output' = << >>,
         pending' \in [Slot -> Request \cup {NoRequest}],
         \A s \in Slot : pending'[s] # NoRequest => devices[pending'[s].dev] # NoDevice
  PROVE  IInv'
<1> DEFINE q == [requests |-> pending', packets |-> output']
<1>1. TableOK(devices) /\ QueuesOK(Queues, devices) /\ AsmOK(asm)
  BY IInvParts
<1>2. q.packets \in Seq(Read) /\ Len(q.packets) <= MaxOutput
  <2>1. output \in Seq(Read) /\ Len(output) <= MaxOutput
    BY DEF IInv, TypeOK
  <2>2. << >> \in Seq(Read) /\ Len(<< >>) <= MaxOutput
    BY CapacityAssumption
  <2>3. q.packets = output'
    OBVIOUS
  <2>4. QED
    BY <2>1, <2>2, <2>3
<1>3. q.requests = pending' /\ q = [requests |-> q.requests, packets |-> q.packets]
  OBVIOUS
<1>4. SetQueues(q)
  BY DEF SetQueues
<1> HIDE DEF q
<1>5. QueuesOK(q, devices')
  BY <1>2, <1>3 DEF QueuesOK
<1>6. QED
  BY <1>1, <1>4, <1>5, Restored

LEMMA PendingFacts ==
  ASSUME IInv, NEW s \in Slot
  PROVE  /\ pending[s] \in Request \cup {NoRequest}
         /\ pending[s] # NoRequest => devices[pending[s].dev] # NoDevice
BY DEF IInv, TypeOK, PendingOfKnown, Known

LEMMA RequestParameterInv ==
  ASSUME IInv, NEW d \in Addr, NEW p \in ParamId, NEW k \in ChunkNumber,
         RequestParameter(d, p, k)
  PROVE  IInv'
<1> DEFINE s == CHOOSE s \in Slot : pending[s] = NoRequest
           r == NewRequest(d, p, k)
<1>1. /\ Known(d) /\ FreeSlots(pending) # {}
      /\ pending' = [pending EXCEPT ![s] = r]
      /\ devices' = devices /\ asm' = asm /\ output' = output
  BY DEF RequestParameter
<1>2. r \in Request /\ r.dev = d
  BY NewRequestType, NumberAssumption
<1>3. s \in Slot
  BY <1>1 DEF FreeSlots
<1> HIDE DEF r, s
<1>4. pending' \in [Slot -> Request \cup {NoRequest}]
  BY <1>1, <1>2 DEF IInv, TypeOK
<1>5. ASSUME NEW t \in Slot, pending'[t] # NoRequest
      PROVE  devices[pending'[t].dev] # NoDevice
  <2>1. CASE t = s
    BY <1>1, <1>2, <1>3, <2>1 DEF IInv, TypeOK, Known
  <2>2. CASE t # s
    BY <1>1, <1>5, <2>2, PendingFacts DEF IInv, TypeOK
  <2>3. QED
    BY <2>1, <2>2
<1>6. QED
  BY <1>1, <1>4, <1>5, RequestsInv

LEMMA ExpireOK ==
  ASSUME NEW r \in Request \cup {NoRequest}
  PROVE  \/ Expire(r) = NoRequest
         \/ r # NoRequest /\ Expire(r) \in Request /\ Expire(r).dev = r.dev
<1>1. CASE ~ Due(r)
  BY <1>1 DEF Expire
<1>2. CASE Due(r) /\ r.retries >= RetryCount
  BY <1>2 DEF Expire
<1>3. CASE Due(r) /\ ~ (r.retries >= RetryCount)
  <2>1. r \in Request /\ r # NoRequest
    BY <1>3 DEF Due
  <2>2. r.retries + 1 \in 0..RetryCount /\ 0 \in 0..Timeout
    BY <1>3, <2>1, TimingAssumption DEF Request
  <2>3. Expire(r) = [r EXCEPT !.retries = r.retries + 1, !.age = 0]
    BY <1>3 DEF Expire
  <2>4. QED
    BY <2>1, <2>2, <2>3 DEF Request
<1>4. QED
  BY <1>1, <1>2, <1>3

LEMMA ExpireAllInv ==
  ASSUME IInv, devices' = devices, asm' = asm,
         output' = output \/ output' = << >>,
         pending' = [s \in Slot |-> Expire(pending[s])]
  PROVE  IInv'
<1>1. ASSUME NEW s \in Slot
      PROVE  /\ pending'[s] \in Request \cup {NoRequest}
             /\ pending'[s] # NoRequest => devices[pending'[s].dev] # NoDevice
  <2>1. pending'[s] = Expire(pending[s])
    OBVIOUS
  <2>2. QED
    BY <2>1, PendingFacts, ExpireOK
<1>2. pending' \in [Slot -> Request \cup {NoRequest}]
  BY <1>1
<1>3. QED
  BY <1>1, <1>2, RequestsInv

LEMMA OlderOK ==
  ASSUME NEW r \in Request \cup {NoRequest}, NEW elapsed \in 1..Timeout
  PROVE  \/ Older(r, elapsed) = NoRequest
         \/ r # NoRequest /\ Older(r, elapsed) \in Request /\ Older(r, elapsed).dev = r.dev
<1>1. CASE r = NoRequest
  BY <1>1 DEF Older
<1>2. CASE r # NoRequest
  <2> DEFINE age == IF r.age + elapsed < Timeout THEN r.age + elapsed ELSE Timeout
  <2>1. r \in Request
    BY <1>2
  <2>2. age \in 0..Timeout
    BY <2>1, TimingAssumption DEF Request
  <2>3. Older(r, elapsed) = [r EXCEPT !.age = age]
    BY <1>2 DEF Older
  <2> HIDE DEF age
  <2>4. QED
    BY <1>2, <2>1, <2>2, <2>3 DEF Request
<1>3. QED
  BY <1>1, <1>2

LEMMA UpdateTimeInv ==
  ASSUME IInv, NEW elapsed \in 1..Timeout, UpdateTime(elapsed)
  PROVE  IInv'
<1>1. /\ pending' = [s \in Slot |-> Older(pending[s], elapsed)]
      /\ devices' = devices /\ asm' = asm /\ output' = output
  BY DEF UpdateTime
<1>2. ASSUME NEW s \in Slot
      PROVE  /\ pending'[s] \in Request \cup {NoRequest}
             /\ pending'[s] # NoRequest => devices[pending'[s].dev] # NoDevice
  <2>1. pending'[s] = Older(pending[s], elapsed)
    BY <1>1
  <2>2. QED
    BY <2>1, PendingFacts, OlderOK
<1>3. pending' \in [Slot -> Request \cup {NoRequest}]
  BY <1>1, <1>2
<1>4. QED
  BY <1>1, <1>2, <1>3, RequestsInv

LEMMA ClearInv ==
  ASSUME Clear PROVE IInv'
<1>1. TableOK(devices') /\ AsmOK(asm')
  BY IdleOK DEF Clear, TableOK
<1> DEFINE q == [requests |-> pending', packets |-> output']
<1>2. SetQueues(q) /\ QueuesOK(q, devices')
  BY CapacityAssumption DEF Clear, SetQueues, QueuesOK
<1> HIDE DEF q
<1>3. QED
  BY <1>1, <1>2, Restored

LEMMA NextInv == IInv /\ [Next]_vars => IInv'
<1> SUFFICES ASSUME IInv, [Next]_vars PROVE IInv'
  OBVIOUS
<1>1. CASE HandlePacket
  BY <1>1, DeviceInfoInv, EntryInv, ChunkInv DEF HandlePacket
<1>2. CASE CallerRequests
  BY <1>2, RequestAllInv, RequestParameterInv DEF CallerRequests
<1>3. CASE DrainOutput
  <2>1. pending' = pending /\ devices' = devices /\ asm' = asm /\ output' = << >>
    BY <1>3 DEF DrainOutput
  <2>2. pending' \in [Slot -> Request \cup {NoRequest}]
    BY <2>1 DEF IInv, TypeOK
  <2>3. QED
    BY <2>1, <2>2, PendingFacts, RequestsInv
<1>4. CASE ProcessTimeouts
  BY <1>4, ExpireAllInv DEF ProcessTimeouts
<1>5. CASE DrainAll
  BY <1>5, ExpireAllInv DEF DrainAll
<1>6. CASE \E elapsed \in 1..Timeout : UpdateTime(elapsed)
  BY <1>6, UpdateTimeInv
<1>7. CASE Clear
  BY <1>7, ClearInv
<1>8. CASE UNCHANGED vars
  BY <1>8 DEF vars, IInv, TypeOK, LoadedIffFull, PendingOfKnown, Known
<1>9. QED
  BY <1>1, <1>2, <1>3, <1>4, <1>5, <1>6, <1>7, <1>8 DEF Next, Housekeeping

LEMMA InvInductive == Spec => []IInv
BY InitInv, NextInv, PTL DEF Spec

(* The tables of the manager stay well typed and within their capacities.  *)
THEOREM TypeCorrect == Spec => []TypeOK
<1>1. IInv => TypeOK
  BY DEF IInv
<1>2. QED
  BY InvInductive, <1>1, PTL

(* parameters_loaded never disagrees with the number of entries stored,    *)
(* whatever packets arrive in whatever order.                              *)
THEOREM LoadedMeansFull == Spec => []LoadedIffFull
<1>1. IInv => LoadedIffFull
  BY DEF IInv
<1>2. QED
  BY InvInductive, <1>1, PTL

(* No read is ever retried for a device the table does not hold. *)
THEOREM NoStrayRequests == Spec => []PendingOfKnown
<1>1. IInv => PendingOfKnown
  BY DEF IInv
<1>2. QED
  BY InvInductive, <1>1, PTL

-----------------------------------------------------------------------------
(* What the manager asks of its own accord. *)

(* The queue is as it was, or has one more packet, which is for a          *)
(* parameter that `table` lacks.                                           *)
MissingIn(table, read) ==
  /\ table[read.dev] # NoDevice
  /\ read.param \notin Stored(table[read.dev])
  /\ table[read.dev].loaded => read.chunk > 0

AsksIn(table, before, after) ==
  after = before \/ \E read \in Read : after = Append(before, read) /\ MissingIn(table, read)

(* The gap-scan of a device that is not loaded finds a gap: with all its   *)
(* numbers stored the count would have made it loaded.                     *)
LEMMA GapIsMissing ==
  ASSUME NEW dev, DeviceOK(dev), ~ dev.loaded
  PROVE  NextParameter(dev) \notin Stored(dev)
<1>1. dev \in Device /\ dev.total \in ParamId /\ dev.total \in Nat
  BY ParamAssumption DEF DeviceOK, Device
<1> SUFFICES ASSUME NextParameter(dev) \in Stored(dev) PROVE FALSE
  OBVIOUS
<1>2. \A p \in ParamId : p < dev.total => p \in Stored(dev)
  BY <1>1, NextParameterMissing
<1>3. 0..(dev.total - 1) \subseteq Stored(dev)
  BY <1>1, <1>2, ParamAssumption
<1>4. Cardinality(0..(dev.total - 1)) = dev.total
  BY <1>1, FS_Interval
<1>5. dev.total <= Cardinality(Stored(dev))
  BY <1>3, <1>4, StoredFinite, FS_Subset
<1>6. Full(dev)
  BY <1>1, <1>5, StoredFinite DEF Full
<1>7. QED
  BY <1>6 DEF DeviceOK

LEMMA EnqueueAsks ==
  ASSUME NEW table, NEW q, QueuesOK(q, table), NEW r \in Request,
         MissingIn(table, ReadOf(r))
  PROVE  AsksIn(table, q.packets, Enqueue(q, r).packets)
<1>1. ReadOf(r) \in Read
  BY DEF ReadOf, Read, Request
<1>2. \/ Enqueue(q, r).packets = q.packets
      \/ Enqueue(q, r).packets = Append(q.packets, ReadOf(r))
  BY DEF Enqueue
<1>3. QED
  BY <1>1, <1>2 DEF AsksIn

LEMMA EnqueueNextAsks ==
  ASSUME NEW table, NEW q, QueuesOK(q, table),
         NEW d \in Addr, NEW dev, DeviceOK(dev), table[d] = dev
  PROVE  AsksIn(table, q.packets, EnqueueNextParameter(q, d, dev).packets)
<1> DEFINE r == NewRequest(d, NextParameter(dev), 0)
<1>1. dev \in Device /\ dev # NoDevice
  BY NullAssumption DEF DeviceOK
<1>2. r \in Request
  BY <1>1, NextParameterMissing, NewRequestType
<1>3. CASE ~ dev.loaded
  <2>1. MissingIn(table, ReadOf(r))
    BY <1>1, <1>3, GapIsMissing DEF MissingIn, ReadOf, NewRequest
  <2> HIDE DEF r
  <2>2. AsksIn(table, q.packets, Enqueue(q, r).packets)
    BY <1>2, <2>1, EnqueueAsks
  <2>3. QED
    BY <2>2 DEF EnqueueNextParameter, AsksIn, r
<1>4. CASE dev.loaded
  BY <1>4 DEF EnqueueNextParameter, AsksIn
<1>5. QED
  BY <1>3, <1>4

LEMMA RemovePendingAsksNothing ==
  ASSUME NEW q, NEW d, NEW p
  PROVE  RemovePending(q, d, p).packets = q.packets
BY DEF RemovePending

LEMMA QueuesForChunkAsksNothing ==
  ASSUME NEW d, NEW chunk
  PROVE  QueuesForChunk(d, chunk).packets = output
BY RemovePendingAsksNothing DEF QueuesForChunk, Queues

LEMMA DeviceInfoAsks ==
  ASSUME IInv, NEW d \in Addr, NEW total \in ParamId, HandleDeviceInfo(d, total)
  PROVE  AsksIn(devices', output, output')
<1>1. TableOK(devices) /\ QueuesOK(Queues, devices) /\ Queues.packets = output
  BY IInvParts DEF Queues
<1>2. CASE Known(d) \/ Cardinality({a \in Addr : Known(a)}) < MaxDevices
  <2> DEFINE dev == NewDevice(total)
             q   == EnqueueNextParameter(Queues, d, dev)
  <2>1. devices' = [devices EXCEPT ![d] = dev] /\ SetQueues(q)
    BY <1>2 DEF HandleDeviceInfo
  <2>2. DeviceOK(dev)
    BY NewDeviceOK
  <2> HIDE DEF dev
  <2>3. \A a \in Addr : devices[a] # NoDevice => devices'[a] # NoDevice
    BY <1>1, <2>1, <2>2, StoreDevice
  <2>4. QueuesOK(Queues, devices') /\ devices'[d] = dev
    BY <1>1, <2>1, <2>3, QueuesMonotone DEF TableOK
  <2>5. AsksIn(devices', Queues.packets, q.packets)
    BY <2>2, <2>4, EnqueueNextAsks
  <2>6. QED
    BY <1>1, <2>1, <2>5 DEF SetQueues
<1>3. CASE ~ (Known(d) \/ Cardinality({a \in Addr : Known(a)}) < MaxDevices)
  BY <1>3 DEF HandleDeviceInfo, AsksIn
<1>4. QED
  BY <1>2, <1>3

(* The two branches that store and then ask for the next. *)
LEMMA StoreAsks ==
  ASSUME IInv, NEW d \in Addr, Known(d),
         NEW p \in ParamId, NEW content \in Content \cup {Stub},
         devices' = [devices EXCEPT ![d] = WithParameter(devices[d], p, content)],
         NEW q, QueuesOK(q, devices)
  PROVE  AsksIn(devices', q.packets,
                EnqueueNextParameter(q, d, WithParameter(devices[d], p, content)).packets)
<1> DEFINE dev == WithParameter(devices[d], p, content)
<1>1. DeviceOK(dev)
  BY KnownOK, WithParameterOK
<1>2. QueuesOK(q, devices')
  BY StoreInv
<1>3. devices'[d] = dev
  BY DEF IInv, TypeOK
<1> HIDE DEF dev
<1>4. QED
  BY <1>1, <1>2, <1>3, EnqueueNextAsks DEF dev

LEMMA EntryAsks ==
  ASSUME IInv, NEW d \in Addr, NEW p \in ParamId, NEW content \in Content,
         HandleParameterEntry(d, p, content)
  PROVE  AsksIn(devices', output, output')
<1> DEFINE dev  == WithParameter(devices[d], p, content)
           next == EnqueueNextParameter(Queues, d, dev)
<1>1. /\ Known(d)
      /\ devices' = [devices EXCEPT ![d] = dev]
      /\ SetQueues(RemovePending(next, d, p))
  BY DEF HandleParameterEntry
<1>2. QueuesOK(Queues, devices) /\ Queues.packets = output
  BY IInvParts DEF Queues
<1>3. AsksIn(devices', output, next.packets)
  BY <1>1, <1>2, StoreAsks
<1>4. QED
  BY <1>1, <1>3, RemovePendingAsksNothing DEF SetQueues

LEMMA ChunkAsks ==
  ASSUME IInv, NEW d \in Addr, NEW chunk \in Chunk, HandleParameterChunk(d, chunk)
  PROVE  AsksIn(devices', output, output')
<1>1. /\ QueuesOK(QueuesForChunk(d, chunk), devices)
      /\ QueuesForChunk(d, chunk).packets = output
      /\ AsmOK(asm) /\ chunk.param \in ParamId
  BY IInvParts, QueuesForChunkOK, QueuesForChunkAsksNothing DEF Chunk
<1>2. CASE HandleStaleChunk(d, chunk)
  BY <1>2 DEF HandleStaleChunk, SetQueues, RemovePending, Queues, AsksIn
<1>3. CASE HandlePartialChunk(d, chunk)
  <2> DEFINE r == NewRequest(d, chunk.param, ChunksReceived(asm'))
  <2>1. /\ Known(d) /\ chunk.param \notin Stored(devices[d])
        /\ ~ Overflows(asm, chunk) /\ asm' = Buffer(asm, chunk)
        /\ SetQueues(Enqueue(QueuesForChunk(d, chunk), r))
        /\ devices' = devices
    BY <1>3 DEF HandlePartialChunk, AcceptsChunk
  <2>2. ChunksReceived(asm') \in Nat /\ ChunksReceived(asm') > 0
    <3>1. AsmOK(asm') /\ ChunksReceived(asm') \in Nat
      BY <1>1, <2>1, BufferOK
    <3>2. asm'.chunks = Append(Admit(asm, chunk).chunks, chunk.payload)
      BY <1>1, <2>1 DEF Buffer, Admit, AsmOK, Reassembler
    <3>3. Admit(asm, chunk).chunks \in Seq(Fragment)
      BY <1>1 DEF Admit, AsmOK, Reassembler
    <3>4. QED
      BY <3>1, <3>2, <3>3 DEF ChunksReceived
  <2>3. r \in Request
    BY <1>1, <2>2, NewRequestType
  <2>4. MissingIn(devices', ReadOf(r))
    BY <2>1, <2>2 DEF MissingIn, ReadOf, NewRequest, Known
  <2> HIDE DEF r
  <2>5. AsksIn(devices', output, Enqueue(QueuesForChunk(d, chunk), r).packets)
    BY <1>1, <2>1, <2>3, <2>4, EnqueueAsks
  <2>6. QED
    BY <2>1, <2>5 DEF SetQueues
<1>4. ASSUME NEW content \in Content, HandleCompletedEntry(d, chunk, content)
      PROVE  AsksIn(devices', output, output')
  <2> DEFINE dev  == WithParameter(devices[d], chunk.param, content)
             next == EnqueueNextParameter(QueuesForChunk(d, chunk), d, dev)
  <2>1. /\ Known(d) /\ SetQueues(RemovePending(next, d, chunk.param))
        /\ devices' = [devices EXCEPT ![d] = dev]
    BY <1>4 DEF HandleCompletedEntry, AcceptsChunk
  <2>2. AsksIn(devices', output, next.packets)
    BY <1>1, <2>1, StoreAsks
  <2>3. QED
    BY <2>1, <2>2, RemovePendingAsksNothing DEF SetQueues
<1>5. CASE HandleFailedChunk(d, chunk)
  <2> DEFINE dev  == WithParameter(devices[d], chunk.param, Stub)
             left == RemovePending(QueuesForChunk(d, chunk), d, chunk.param)
  <2>1. /\ Known(d) /\ SetQueues(EnqueueNextParameter(left, d, dev))
        /\ devices' = [devices EXCEPT ![d] = dev]
    BY <1>5 DEF HandleFailedChunk, AcceptsChunk
  <2>2. QueuesOK(left, devices) /\ left.packets = output
    BY <1>1, RemovePendingOK, RemovePendingAsksNothing
  <2> HIDE DEF left
  <2>3. AsksIn(devices', output, EnqueueNextParameter(left, d, dev).packets)
    BY <1>1, <2>1, <2>2, StoreAsks
  <2>4. QED
    BY <2>1, <2>3 DEF SetQueues
<1>6. QED
  BY <1>2, <1>3, <1>4, <1>5 DEF HandleParameterChunk

(* Every other step leaves the output as it is, or empties it. *)
LEMMA OthersAskNothing ==
  ASSUME CallerRequests \/ Housekeeping \/ UNCHANGED vars
  PROVE  output' = output \/ output' = << >>
<1>1. CASE CallerRequests
  BY <1>1 DEF CallerRequests, RequestAllParameters, RequestAllQueues, SetQueues,
              RequestParameter, EnqueueNextParameter, Enqueue, Queues
<1>2. CASE Housekeeping
  BY <1>2 DEF Housekeeping, DrainOutput, ProcessTimeouts, DrainAll, UpdateTime, Clear
<1>3. CASE UNCHANGED vars
  BY <1>3 DEF vars
<1>4. QED
  BY <1>1, <1>2, <1>3

(* Whatever the packets and their order, enumeration never goes back: what *)
(* the manager asks of its own accord is still missing, and a loaded       *)
(* device is asked for nothing but the rest of an entry under way.         *)
THEOREM EnumerationNeverGoesBack == Spec => AsksOnlyForMissing
<1> DEFINE Step == \A i \in (Len(output) + 1)..Len(output') :
                     LET read == output'[i]
                         dev  == devices'[read.dev]
                     IN  /\ dev # NoDevice
                         /\ read.param \notin Stored(dev)
                         /\ dev.loaded => read.chunk > 0
<1>1. IInv /\ [Next]_vars => [Step]_vars
  <2> SUFFICES ASSUME IInv, [Next]_vars PROVE Step
    OBVIOUS
  <2>1. output \in Seq(Read)
    BY DEF IInv, TypeOK
  <2>2. ASSUME AsksIn(devices', output, output') PROVE Step
    BY <2>1, <2>2 DEF AsksIn, MissingIn
  <2>3. ASSUME output' = output \/ output' = << >> PROVE Step
    BY <2>1, <2>3
  <2>4. CASE HandlePacket
    <3>1. AsksIn(devices', output, output')
      BY <2>4, DeviceInfoAsks, EntryAsks, ChunkAsks DEF HandlePacket
    <3>2. QED
      BY <2>2, <3>1
  <2>5. CASE CallerRequests \/ Housekeeping \/ UNCHANGED vars
    BY <2>3, <2>5, OthersAskNothing
  <2>6. QED
    BY <2>4, <2>5 DEF Next
<1>2. Spec => [][Step]_vars
  BY <1>1, InvInductive, PTL DEF Spec
<1>3. QED
  BY <1>2 DEF AsksOnlyForMissing

-----------------------------------------------------------------------------
(* The manager implements the catalogue. *)

Table == [d \in Addr |-> View(devices[d])]

(* The catalogue's copy of Cardinality is the same operator. *)
LEMMA SameCardinality == \A S : Cat!Cardinality(S) = Cardinality(S)
BY Zenon DEF Cat!Cardinality, Cardinality

(* The actions of the catalogue, told of Table. *)
LEMMA LearnTable ==
  ASSUME NEW d \in Addr, NEW p \in ParamId,
         d \in Cat!KnownDevices,
         Cardinality(Table[d].stored \cup {p}) <= MaxParameters,
         Table' = [Table EXCEPT ![d] =
                     Cat!Record(Table[d].total, Table[d].stored \cup {p},
                                Cardinality(Table[d].stored \cup {p}) >= Table[d].total)]
  PROVE  Cat!Learn(d, p)
BY SameCardinality DEF Cat!Learn, Table

LEMMA AnnounceTable ==
  ASSUME NEW d \in Addr, NEW total \in ParamId,
         d \in Cat!KnownDevices \/ Cardinality(Cat!KnownDevices) < MaxDevices,
         Table' = [Table EXCEPT ![d] = Cat!Record(total, {}, FALSE)]
  PROVE  Cat!Announce(d, total)
BY SameCardinality DEF Cat!Announce, Table

LEMMA ViewKnown ==
  ASSUME NEW dev \in Device
  PROVE  /\ View(dev) = Cat!Record(dev.total, Stored(dev), dev.loaded)
         /\ View(dev) # NoDevice
<1>1. dev # NoDevice
  BY NullAssumption
<1>2. View(dev) = [total |-> dev.total, stored |-> Stored(dev), loaded |-> dev.loaded]
  BY <1>1 DEF View
<1>3. View(dev) \in [total : ParamId, stored : SUBSET ParamId, loaded : BOOLEAN]
  BY <1>2, StoredFinite DEF Device
<1>4. QED
  BY <1>2, <1>3, ViewAssumption DEF Cat!Record

LEMMA TableFacts ==
  ASSUME IInv
  PROVE  /\ \A a \in Addr : Known(a) <=> Table[a] # NoDevice
         /\ Cat!KnownDevices = {a \in Addr : Known(a)}
<1>1. ASSUME NEW a \in Addr PROVE Known(a) <=> Table[a] # NoDevice
  <2>1. CASE Known(a)
    <3>1. devices[a] \in Device
      BY <2>1, KnownOK DEF DeviceOK
    <3>2. QED
      BY <2>1, <3>1, ViewKnown DEF Table
  <2>2. CASE ~ Known(a)
    BY <2>2 DEF Known, Table, View
  <2>3. QED
    BY <2>1, <2>2
<1>2. Cat!KnownDevices = {a \in Addr : Table[a] # NoDevice}
  BY DEF Cat!KnownDevices, Table
<1>3. QED
  BY <1>1, <1>2

LEMMA TableUpdate ==
  ASSUME IInv, NEW d \in Addr, NEW dev,
         devices' = [devices EXCEPT ![d] = dev]
  PROVE  Table' = [Table EXCEPT ![d] = View(dev)]
<1>1. devices \in [Addr -> Device \cup {NoDevice}]
  BY DEF IInv, TypeOK
<1>2. QED
  BY <1>1 DEF Table

(* Storing an entry shows as one more number, or not at all. *)
LEMMA StoreRefines ==
  ASSUME IInv, NEW d \in Addr, Known(d),
         NEW p \in ParamId, NEW content \in Content \cup {Stub},
         devices' = [devices EXCEPT ![d] = WithParameter(devices[d], p, content)]
  PROVE  Cat!Learn(d, p) \/ Table' = Table
<1> DEFINE old == devices[d]
           dev == WithParameter(old, p, content)
<1>1. DeviceOK(old) /\ old \in Device
  BY KnownOK DEF DeviceOK
<1>2. /\ DeviceOK(dev) /\ dev \in Device
      /\ dev.total = old.total
      /\ Stored(dev) # {}
      /\ \/ /\ Stored(dev) = Stored(old) \cup {p}
            /\ p \in Stored(old) \/ Cardinality(Stored(old)) < MaxParameters
         \/ dev = old
  BY <1>1, WithParameterOK DEF DeviceOK
<1>3. Table' = [Table EXCEPT ![d] = View(dev)]
  BY TableUpdate
<1>4. /\ View(old) = Cat!Record(old.total, Stored(old), old.loaded)
      /\ View(dev) = Cat!Record(dev.total, Stored(dev), dev.loaded)
  BY <1>1, <1>2, ViewKnown
<1>5. Table[d] = View(old) /\ Table = [Table EXCEPT ![d] = View(old)]
  BY DEF Table
<1> HIDE DEF dev, old
<1>6. CASE dev = old
  BY <1>3, <1>5, <1>6
<1>7. CASE Stored(dev) = Stored(old) \cup {p} /\ p \in Stored(old)
  <2>1. Stored(dev) = Stored(old)
    BY <1>7
  <2>2. dev.loaded = old.loaded
    BY <1>1, <1>2, <2>1 DEF DeviceOK, Full, Device
  <2>3. View(dev) = View(old)
    BY <1>2, <1>4, <2>1, <2>2
  <2>4. QED
    BY <1>3, <1>5, <2>3
<1>8. CASE /\ Stored(dev) = Stored(old) \cup {p}
           /\ p \notin Stored(old)
           /\ Cardinality(Stored(old)) < MaxParameters
  <2>1. Cardinality(Stored(dev)) = Cardinality(Stored(old)) + 1
    BY <1>8, StoredFinite, FS_AddElement
  <2>2. Cardinality(Stored(dev)) <= MaxParameters
    BY <1>8, <2>1, StoredFinite, CapacityAssumption
  <2>3. dev.loaded = (Cardinality(Stored(dev)) >= old.total)
    BY <1>2 DEF DeviceOK, Full, Device
  <2>4. d \in Cat!KnownDevices
    BY TableFacts
  <2>5. Table[d].total = old.total /\ Table[d].stored = Stored(old)
    BY <1>4, <1>5 DEF Cat!Record
  <2>6. Table' = [Table EXCEPT ![d] =
                    Cat!Record(Table[d].total, Table[d].stored \cup {p},
                               Cardinality(Table[d].stored \cup {p}) >= Table[d].total)]
    BY <1>2, <1>3, <1>4, <1>8, <2>3, <2>5
  <2>7. Cardinality(Table[d].stored \cup {p}) <= MaxParameters
    BY <1>8, <2>2, <2>5
  <2>8. QED
    BY <2>4, <2>6, <2>7, LearnTable
<1>9. QED
  BY <1>2, <1>6, <1>7, <1>8

LEMMA DeviceInfoRefines ==
  ASSUME IInv, NEW d \in Addr, NEW total \in ParamId, HandleDeviceInfo(d, total)
  PROVE  Cat!Announce(d, total) \/ Table' = Table
<1>1. CASE Known(d) \/ Cardinality({a \in Addr : Known(a)}) < MaxDevices
  <2> DEFINE dev == NewDevice(total)
  <2>1. devices' = [devices EXCEPT ![d] = dev]
    BY <1>1 DEF HandleDeviceInfo
  <2>2. Table' = [Table EXCEPT ![d] = View(dev)]
    BY <2>1, TableUpdate
  <2>3. View(dev) = Cat!Record(total, {}, FALSE)
    <3>1. /\ dev \in Device /\ dev.total = total /\ ~ dev.loaded /\ Stored(dev) = {}
      BY NewDeviceOK DEF DeviceOK
    <3>2. dev.loaded = FALSE
      BY <3>1 DEF Device
    <3>3. QED
      BY <3>1, <3>2, ViewKnown
  <2>4. d \in Cat!KnownDevices \/ Cardinality(Cat!KnownDevices) < MaxDevices
    BY <1>1, TableFacts
  <2> HIDE DEF dev
  <2>5. QED
    BY <2>2, <2>3, <2>4, AnnounceTable
<1>2. CASE ~ (Known(d) \/ Cardinality({a \in Addr : Known(a)}) < MaxDevices)
  BY <1>2 DEF HandleDeviceInfo, Table
<1>3. QED
  BY <1>1, <1>2

LEMMA ChunkRefines ==
  ASSUME IInv, NEW d \in Addr, NEW chunk \in Chunk, HandleParameterChunk(d, chunk)
  PROVE  (\E p \in ParamId : Cat!Learn(d, p)) \/ Table' = Table
<1>1. chunk.param \in ParamId
  BY DEF Chunk
<1>2. CASE HandleStaleChunk(d, chunk)
  BY <1>2 DEF HandleStaleChunk, Table
<1>3. CASE HandlePartialChunk(d, chunk)
  BY <1>3 DEF HandlePartialChunk, Table
<1>4. ASSUME NEW content \in Content, HandleCompletedEntry(d, chunk, content)
      PROVE  Cat!Learn(d, chunk.param) \/ Table' = Table
  <2>1. /\ Known(d)
        /\ devices' = [devices EXCEPT ![d] = WithParameter(devices[d], chunk.param, content)]
    BY <1>4 DEF HandleCompletedEntry, AcceptsChunk
  <2>2. QED
    BY <1>1, <2>1, StoreRefines
<1>5. CASE HandleFailedChunk(d, chunk)
  <2>1. /\ Known(d)
        /\ devices' = [devices EXCEPT ![d] = WithParameter(devices[d], chunk.param, Stub)]
    BY <1>5 DEF HandleFailedChunk, AcceptsChunk
  <2>2. QED
    BY <1>1, <2>1, StoreRefines
<1>6. QED
  BY <1>1, <1>2, <1>3, <1>4, <1>5 DEF HandleParameterChunk

LEMMA CatalogueStep == IInv /\ [Next]_vars => [Cat!Next]_Table
<1> SUFFICES ASSUME IInv, [Next]_vars PROVE Cat!Next \/ Table' = Table
  OBVIOUS
<1>1. ASSUME NEW d \in Addr, NEW total \in ParamId, HandleDeviceInfo(d, total)
      PROVE  Cat!Next \/ Table' = Table
  BY <1>1, DeviceInfoRefines DEF Cat!Next
<1>2. ASSUME NEW d \in Addr, NEW p \in ParamId, NEW content \in Content,
             HandleParameterEntry(d, p, content)
      PROVE  Cat!Next \/ Table' = Table
  <2>1. /\ Known(d)
        /\ devices' = [devices EXCEPT ![d] = WithParameter(devices[d], p, content)]
    BY <1>2 DEF HandleParameterEntry
  <2>2. Cat!Learn(d, p) \/ Table' = Table
    BY <2>1, StoreRefines
  <2>3. QED
    BY <2>2 DEF Cat!Next
<1>3. ASSUME NEW d \in Addr, NEW chunk \in Chunk, HandleParameterChunk(d, chunk)
      PROVE  Cat!Next \/ Table' = Table
  BY <1>3, ChunkRefines DEF Cat!Next
<1>4. CASE Clear
  <2>1. Cat!ForgetAll
    BY <1>4 DEF Clear, Cat!ForgetAll, View
  <2>2. QED
    BY <2>1 DEF Cat!Next
<1>5. CASE devices' = devices
  BY <1>5 DEF Table
<1>6. CallerRequests \/ UNCHANGED vars => devices' = devices
  BY DEF CallerRequests, RequestAllParameters, RequestParameter, vars
<1>7. Housekeeping => Clear \/ devices' = devices
  BY DEF Housekeeping, DrainOutput, ProcessTimeouts, DrainAll, UpdateTime
<1>8. QED
  BY <1>1, <1>2, <1>3, <1>4, <1>5, <1>6, <1>7 DEF Next, HandlePacket

(* What the application sees is a catalogue that only grows, one parameter *)
(* at a time, from one announcement of a device to the next.               *)
THEOREM ManagerImplementsCatalogue == Spec => ImplementsCatalogue
<1>1. Init => Cat!Init
  BY DEF Init, Cat!Init, View
<1>2. [Cat!Next]_Table => [Cat!Next]_[d \in Addr |-> View(devices[d])]
  BY DEF Table
<1>3. IInv /\ [Next]_vars => [Cat!Next]_[d \in Addr |-> View(devices[d])]
  BY CatalogueStep, <1>2
<1>4. Spec => Cat!Spec
  BY <1>1, <1>3, InvInductive, PTL DEF Spec, Cat!Spec
<1>5. QED
  BY <1>4 DEF ImplementsCatalogue
=============================================================================
