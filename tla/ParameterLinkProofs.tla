------------------------ MODULE ParameterLinkProofs ------------------------
(***************************************************************************)
(* Proofs about the enumeration of devices over a link, for every set of   *)
(* devices, every number of parameters and chunks, every capacity, and     *)
(* however many frames are lost or late.                                   *)
(***************************************************************************)
EXTENDS ParameterLink, DeviceManagerProofs

(* What a device may have put on the line. *)
Reply ==
  {InfoFrame(d) : d \in Addr}
    \cup {EntryFrame(e.dev, e.param) : e \in {e \in Parameters : Chunks(e.dev, e.param) = 1}}
    \cup {ChunkFrame(f.dev, f.param, f.index) :
            f \in {f \in [dev : Addr, param : ParamId, index : Nat] :
                     /\ f.param \in Numbers(f.dev)
                     /\ Chunks(f.dev, f.param) > 1
                     /\ f.index \in 0..(Chunks(f.dev, f.param) - 1)}}

(* A device of the table is the one at the other end of the line: what is  *)
(* stored of it are parameters it has, and those that fit one frame are    *)
(* stored as it has them.                                                  *)
ShapedAs(d, dev) ==
  /\ dev.total = Total(d)
  /\ Stored(dev) \subseteq Numbers(d)
  /\ \A p \in Stored(dev) : Chunks(d, p) = 1 => dev.params[p] = EntryOf(d, p)

Shaped == \A d \in Addr : Known(d) => ShapedAs(d, devices[d])

(* The inductive invariant: the link brings only what its devices hold.    *)
LinkInv == IInv /\ Shaped /\ replies \in Seq(Reply)

LEMMA TotalType ==
  ASSUME NEW d \in Addr
  PROVE  Total(d) \in Nat /\ Total(d) \in ParamId /\ Numbers(d) \subseteq ParamId
BY LinkAssumption, ParamAssumption DEF Total, Numbers

LEMMA ChunksType ==
  ASSUME NEW d \in Addr, NEW p \in Numbers(d)
  PROVE  Chunks(d, p) \in Nat \ {0}
BY LinkAssumption, TotalType DEF Total, Numbers, Chunks

LEMMA ReplyCases ==
  ASSUME NEW frame \in Reply
  PROVE  /\ frame.dev \in Addr
         /\ frame.kind \in {"info", "entry", "chunk"}
         /\ frame.kind = "entry" =>
              frame.param \in Numbers(frame.dev) /\ Chunks(frame.dev, frame.param) = 1
         /\ frame.kind = "chunk" =>
              /\ frame.chunk \in Chunk
              /\ frame.chunk.param \in Numbers(frame.dev)
              /\ Chunks(frame.dev, frame.chunk.param) > 1
<1>1. CASE \E d \in Addr : frame = InfoFrame(d)
  BY <1>1 DEF InfoFrame
<1>2. ASSUME NEW e \in Parameters, Chunks(e.dev, e.param) = 1,
             frame = EntryFrame(e.dev, e.param)
      PROVE  /\ frame.dev \in Addr /\ frame.kind = "entry"
             /\ frame.param \in Numbers(frame.dev) /\ Chunks(frame.dev, frame.param) = 1
  BY <1>2, TotalType, ParamAssumption DEF EntryFrame, Parameters, Numbers
<1>3. ASSUME NEW f \in [dev : Addr, param : ParamId, index : Nat],
             f.param \in Numbers(f.dev), Chunks(f.dev, f.param) > 1,
             f.index \in 0..(Chunks(f.dev, f.param) - 1),
             frame = ChunkFrame(f.dev, f.param, f.index)
      PROVE  /\ frame.dev \in Addr /\ frame.kind = "chunk"
             /\ frame.chunk \in Chunk
             /\ frame.chunk.param \in Numbers(frame.dev)
             /\ Chunks(frame.dev, frame.chunk.param) > 1
  <2>1. frame.chunk \in Chunk
    BY <1>3, LinkAssumption
  <2>2. QED
    BY <1>3, <2>1 DEF ChunkFrame
<1>4. QED
  BY <1>1, <1>2, <1>3 DEF Reply

(* Whatever it is asked, a device sends only what it has. *)
LEMMA AnswerType ==
  ASSUME NEW d \in Addr, NEW frame
  PROVE  Answer(d, frame) \in Seq(Reply)
<1> DEFINE p == frame.read.param
           k == frame.read.chunk
<1>1. CASE frame.kind = "ping"
  BY <1>1 DEF Answer, Reply
<1>2. CASE frame.kind # "ping" /\ (p \notin Numbers(d) \/ k \notin 0..(Chunks(d, p) - 1))
  BY <1>2 DEF Answer
<1>3. CASE frame.kind # "ping" /\ p \in Numbers(d) /\ k \in 0..(Chunks(d, p) - 1)
  <2>1. p \in ParamId /\ p < Total(d) /\ Chunks(d, p) \in Nat \ {0} /\ k \in Nat
    BY <1>3, TotalType, ChunksType DEF Numbers
  <2>2. CASE Chunks(d, p) = 1
    <3> DEFINE e == [dev |-> d, param |-> p]
    <3>1. /\ e \in Parameters /\ Chunks(e.dev, e.param) = 1
          /\ EntryFrame(d, p) = EntryFrame(e.dev, e.param)
      BY <2>1, <2>2 DEF Parameters
    <3> HIDE DEF e
    <3>2. EntryFrame(d, p) \in Reply
      BY <3>1 DEF Reply
    <3>3. QED
      BY <1>3, <2>2, <3>2 DEF Answer
  <2>3. CASE Chunks(d, p) # 1
    <3>1. Chunks(d, p) > 1
      BY <2>1, <2>3
    <3>2. ChunkFrame(d, p, k) \in Reply
      <4> DEFINE f == [dev |-> d, param |-> p, index |-> k]
      <4>1. /\ f \in [dev : Addr, param : ParamId, index : Nat]
            /\ f.param \in Numbers(f.dev) /\ Chunks(f.dev, f.param) > 1
            /\ f.index \in 0..(Chunks(f.dev, f.param) - 1)
            /\ ChunkFrame(d, p, k) = ChunkFrame(f.dev, f.param, f.index)
        BY <1>3, <2>1, <3>1
      <4> HIDE DEF f
      <4>2. QED
        BY <4>1 DEF Reply
    <3>3. QED
      BY <1>3, <2>3, <3>2 DEF Answer
  <2>4. QED
    BY <2>2, <2>3
<1>4. QED
  BY <1>1, <1>2, <1>3

-----------------------------------------------------------------------------
(* What is stored of a device. *)

LEMMA WithParameterParams ==
  ASSUME NEW dev \in Device, NEW p \in ParamId, NEW content \in Content \cup {Stub},
         NEW other \in ParamId
  PROVE  LET with == WithParameter(dev, p, content) IN
         \/ with.params[other] = dev.params[other]
         \/ other = p /\ with.params[p] = content
<1> DEFINE added == AddParameter(dev, p, content)
<1>1. /\ added \in Device
      /\ \/ added.params[other] = dev.params[other]
         \/ other = p /\ added.params[p] = content
  <2>1. CASE added = dev
    BY <2>1
  <2>2. CASE added = [dev EXCEPT !.params[p] = content]
    BY <2>2 DEF Device
  <2>3. QED
    BY <2>1, <2>2 DEF AddParameter
<1> HIDE DEF added
<1>2. WithParameter(dev, p, content).params = added.params
  BY <1>1 DEF WithParameter, added, Device
<1>3. QED
  BY <1>1, <1>2

(* Storing what a device sent keeps its catalogue. *)
LEMMA StoreShaped ==
  ASSUME IInv, Shaped, NEW d \in Addr, Known(d), NEW p \in Numbers(d),
         NEW content \in Content \cup {Stub},
         Chunks(d, p) = 1 => content = EntryOf(d, p),
         devices' = [devices EXCEPT ![d] = WithParameter(devices[d], p, content)]
  PROVE  Shaped'
<1> DEFINE old == devices[d]
           dev == WithParameter(old, p, content)
<1>1. DeviceOK(old) /\ old \in Device /\ ShapedAs(d, old) /\ p \in ParamId
  BY KnownOK, TotalType DEF DeviceOK, Shaped
<1>2. /\ dev.total = old.total
      /\ Stored(dev) = Stored(old) \cup {p} \/ dev = old
  BY <1>1, WithParameterOK
<1>3. ASSUME NEW other \in Stored(dev), Chunks(d, other) = 1
      PROVE  dev.params[other] = EntryOf(d, other)
  <2>1. other \in ParamId /\ dev.params[other] # Absent
    BY <1>3 DEF Stored
  <2>2. CASE dev.params[other] = old.params[other]
    BY <1>1, <1>3, <2>1, <2>2 DEF ShapedAs, Stored
  <2>3. CASE other = p /\ dev.params[p] = content
    BY <1>3, <2>3
  <2>4. QED
    BY <1>1, <2>1, <2>2, <2>3, WithParameterParams
<1>4. ShapedAs(d, dev)
  BY <1>1, <1>2, <1>3 DEF ShapedAs
<1> HIDE DEF dev
<1>5. devices' = [devices EXCEPT ![d] = dev] /\ devices \in [Addr -> Device \cup {NoDevice}]
  BY DEF dev, IInv, TypeOK
<1>6. QED
  BY <1>4, <1>5 DEF Shaped, Known

LEMMA AnnounceShaped ==
  ASSUME IInv, Shaped, NEW d \in Addr, HandleDeviceInfo(d, Total(d))
  PROVE  Shaped'
<1> DEFINE dev == NewDevice(Total(d))
<1>1. ShapedAs(d, dev)
  BY NewDeviceOK, TotalType DEF ShapedAs
<1>2. devices' = [devices EXCEPT ![d] = dev] \/ devices' = devices
  BY DEF HandleDeviceInfo
<1> HIDE DEF dev
<1>3. QED
  BY <1>1, <1>2 DEF Shaped, Known, IInv, TypeOK

LEMMA ChunkShaped ==
  ASSUME IInv, Shaped, NEW d \in Addr, NEW chunk \in Chunk,
         chunk.param \in Numbers(d), Chunks(d, chunk.param) > 1,
         HandleParameterChunk(d, chunk)
  PROVE  Shaped'
<1>1. Chunks(d, chunk.param) # 1
  BY ChunksType
<1>2. CASE HandleStaleChunk(d, chunk) \/ HandlePartialChunk(d, chunk)
  BY <1>2 DEF HandleStaleChunk, HandlePartialChunk, Shaped, Known
<1>3. ASSUME NEW content \in Content, HandleCompletedEntry(d, chunk, content)
      PROVE  Shaped'
  BY <1>1, <1>3, StoreShaped DEF HandleCompletedEntry, AcceptsChunk
<1>4. CASE HandleFailedChunk(d, chunk)
  BY <1>1, <1>4, StoreShaped DEF HandleFailedChunk, AcceptsChunk
<1>5. QED
  BY <1>2, <1>3, <1>4 DEF HandleParameterChunk

-----------------------------------------------------------------------------
(* Every step of the link is one of the manager's, or none of its concern. *)

LEMMA ReceivedFrame ==
  ASSUME LinkInv, ReceiveFrame
  PROVE  \E d \in Addr :
           \/ HandleDeviceInfo(d, Total(d))
           \/ \E p \in Numbers(d) : /\ Chunks(d, p) = 1
                                    /\ HandleParameterEntry(d, p, EntryOf(d, p))
           \/ \E chunk \in Chunk : /\ chunk.param \in Numbers(d)
                                   /\ Chunks(d, chunk.param) > 1
                                   /\ HandleParameterChunk(d, chunk)
<1> DEFINE frame == Head(replies)
<1>1. frame \in Reply
  BY DEF LinkInv, ReceiveFrame
<1>2. /\ frame.dev \in Addr
      /\ frame.kind \in {"info", "entry", "chunk"}
  BY <1>1, ReplyCases
<1> DEFINE d == frame.dev
<1>3. CASE frame.kind = "info"
  <2>1. HandleDeviceInfo(d, Total(d))
    BY <1>3 DEF ReceiveFrame
  <2>2. QED
    BY <1>2, <2>1
<1>4. CASE frame.kind = "entry"
  <2>1. HandleParameterEntry(d, frame.param, EntryOf(d, frame.param))
    BY <1>4 DEF ReceiveFrame
  <2>2. frame.param \in Numbers(d) /\ Chunks(d, frame.param) = 1
    BY <1>1, <1>4, ReplyCases
  <2>3. QED
    BY <1>2, <2>1, <2>2
<1>5. CASE frame.kind = "chunk"
  <2>1. HandleParameterChunk(d, frame.chunk)
    BY <1>5 DEF ReceiveFrame
  <2>2. /\ frame.chunk \in Chunk
        /\ frame.chunk.param \in Numbers(d)
        /\ Chunks(d, frame.chunk.param) > 1
    BY <1>1, <1>5, ReplyCases
  <2>3. QED
    BY <1>2, <2>1, <2>2
<1>6. QED
  BY <1>2, <1>3, <1>4, <1>5

(* A timeout of zero is over before any time has passed. *)
LEMMA TickIsUpdate ==
  ASSUME IInv, UpdateTime(1)
  PROVE  (\E elapsed \in 1..Timeout : UpdateTime(elapsed)) \/ UNCHANGED vars
<1>1. CASE Timeout >= 1
  BY <1>1, TimingAssumption
<1>2. CASE ~ (Timeout >= 1)
  <2>1. Timeout = 0
    BY <1>2, TimingAssumption
  <2>2. ASSUME NEW s \in Slot
        PROVE  Older(pending[s], 1) = pending[s]
    <3>1. CASE pending[s] = NoRequest
      BY <3>1 DEF Older
    <3>2. CASE pending[s] # NoRequest
      <4>1. pending[s] \in Request /\ pending[s].age = 0
        BY <2>1, <3>2 DEF IInv, TypeOK, Request
      <4>2. Older(pending[s], 1) = [pending[s] EXCEPT !.age = 0]
        BY <2>1, <3>2, <4>1 DEF Older
      <4>3. QED
        BY <4>1, <4>2 DEF Request
    <3>3. QED
      BY <3>1, <3>2
  <2>3. pending' = pending
    BY <2>2 DEF UpdateTime, IInv, TypeOK
  <2>4. QED
    BY <2>3 DEF UpdateTime, vars
<1>3. QED
  BY <1>1, <1>2

LEMMA ManagerStep ==
  ASSUME LinkInv, [LinkNext]_allVars
  PROVE  [Next]_vars
<1>1. IInv
  BY DEF LinkInv
<1>2. CASE ReceiveFrame
  <2>1. HandlePacket
    BY <1>2, ReceivedFrame, TotalType, LinkAssumption DEF HandlePacket
  <2>2. QED
    BY <2>1 DEF Next
<1>3. CASE SendDrained \/ DropExpired
  BY <1>3 DEF SendDrained, DropExpired, Next, Housekeeping
<1>4. CASE TimePasses
  BY <1>1, <1>4, TickIsUpdate DEF TimePasses, Next, Housekeeping
<1>5. CASE \E d \in Addr : AskAll(d)
  BY <1>5 DEF AskAll, Next, CallerRequests
<1>6. CASE SendPing \/ Network \/ UNCHANGED allVars
  BY <1>6 DEF SendPing, Network, DeviceAnswers, LoseRequest, LoseReply, allVars
<1>7. QED
  BY <1>2, <1>3, <1>4, <1>5, <1>6 DEF LinkNext, Host

(* What a step does to the replies on the line. *)
LEMMA RepliesTyped ==
  ASSUME replies \in Seq(Reply), [LinkNext]_allVars
  PROVE  replies' \in Seq(Reply)
<1>1. CASE replies # << >> /\ replies' = Tail(replies)
  BY <1>1
<1>2. ASSUME NEW d \in Addr, DeviceAnswers(d)
      PROVE  replies' \in Seq(Reply)
  BY <1>2, AnswerType DEF DeviceAnswers
<1>3. CASE replies' = replies
  BY <1>3
<1>4. ReceiveFrame \/ LoseReply => replies # << >> /\ replies' = Tail(replies)
  BY DEF ReceiveFrame, LoseReply
<1>5. SendPing \/ SendDrained \/ DropExpired \/ TimePasses \/ UNCHANGED allVars
        => replies' = replies
  BY DEF SendPing, SendDrained, DropExpired, TimePasses, allVars, link
<1>6. \A d \in Addr : AskAll(d) \/ LoseRequest(d) => replies' = replies
  BY DEF AskAll, LoseRequest
<1>7. QED
  BY <1>1, <1>2, <1>3, <1>4, <1>5, <1>6 DEF LinkNext, Host, Network

(* Only a frame that is received changes the table. *)
LEMMA TableUnchanged ==
  ASSUME [LinkNext]_allVars, ~ ReceiveFrame
  PROVE  devices' = devices
BY DEF LinkNext, Host, Network, SendPing, SendDrained, DropExpired, TimePasses, AskAll,
       DeviceAnswers, LoseRequest, LoseReply, DrainAll, UpdateTime,
       RequestAllParameters, allVars, vars

LEMMA LinkInvStep == LinkInv /\ [LinkNext]_allVars => LinkInv'
<1> SUFFICES ASSUME LinkInv, [LinkNext]_allVars PROVE LinkInv'
  OBVIOUS
<1>1. IInv'
  BY ManagerStep, NextInv DEF LinkInv
<1>2. replies' \in Seq(Reply)
  BY RepliesTyped DEF LinkInv
<1>3. Shaped'
  <2>1. CASE ReceiveFrame
    <3>1. ASSUME NEW d \in Addr, NEW p \in Numbers(d), Chunks(d, p) = 1,
                 HandleParameterEntry(d, p, EntryOf(d, p))
          PROVE  Shaped'
      BY <3>1, StoreShaped, LinkAssumption DEF HandleParameterEntry, LinkInv
    <3>2. QED
      BY <2>1, <3>1, ReceivedFrame, AnnounceShaped, ChunkShaped DEF LinkInv
  <2>2. CASE ~ ReceiveFrame
    BY <2>2, TableUnchanged DEF Shaped, Known, LinkInv
  <2>3. QED
    BY <2>1, <2>2
<1>4. QED
  BY <1>1, <1>2, <1>3 DEF LinkInv

LEMMA LinkInvInit == LinkInit => LinkInv
<1> SUFFICES ASSUME LinkInit PROVE LinkInv
  OBVIOUS
<1>1. IInv
  BY InitInv DEF LinkInit
<1>2. Shaped
  BY DEF LinkInit, Init, Shaped, Known
<1>3. QED
  BY <1>1, <1>2 DEF LinkInit, LinkInv

LEMMA LinkInvInductive == LinkSpec => []LinkInv
BY LinkInvInit, LinkInvStep, PTL DEF LinkSpec

(* Enumerating over a link, the manager takes only steps that its own      *)
(* specification has, so all that is proved of it holds over the link.     *)
THEOREM LinkImplementsManager == LinkSpec => Spec
<1>1. LinkInit => Init
  BY DEF LinkInit
<1>2. LinkInv /\ [LinkNext]_allVars => [Next]_vars
  BY ManagerStep
<1>3. QED
  BY <1>1, <1>2, LinkInvInductive, PTL DEF LinkSpec, Spec

(* loaded is set for a device only when each of its parameters is stored,  *)
(* and nothing else, whatever the link loses, delays or mixes up.          *)
THEOREM LoadedTellsAll == LinkSpec => []LoadedMeansAll
<1>1. LinkInv => LoadedMeansAll
  <2> SUFFICES ASSUME LinkInv, NEW d \in Addr, Known(d), devices[d].loaded
               PROVE  Stored(devices[d]) = Numbers(d)
    BY DEF LoadedMeansAll
  <2> DEFINE dev == devices[d]
  <2>1. DeviceOK(dev) /\ dev.total = Total(d) /\ Stored(dev) \subseteq Numbers(d)
    BY KnownOK DEF LinkInv, Shaped, ShapedAs
  <2>2. Cardinality(Stored(dev)) >= Total(d)
    BY <2>1 DEF DeviceOK, Full
  <2>3. IsFiniteSet(Numbers(d)) /\ Cardinality(Numbers(d)) = Total(d)
    BY TotalType, FS_Interval DEF Numbers
  <2>4. QED
    BY <2>1, <2>2, <2>3, StoredFinite, TotalType, FS_Subset
<1>2. QED
  BY <1>1, LinkInvInductive, PTL

-----------------------------------------------------------------------------
(* Devices all of whose entries fit one frame. *)

Plain(d) == \A p \in Numbers(d) : Chunks(d, p) = 1

(* The entries of such devices are stored as they were sent, however many  *)
(* frames are lost or answered late and whatever the other devices do.     *)
THEOREM PlainFaithful ==
  ASSUME \A d \in Addr : Plain(d)
  PROVE  LinkSpec => []Faithful
<1>1. LinkInv => Faithful
  BY DEF LinkInv, Shaped, ShapedAs, Plain, Faithful
<1>2. QED
  BY <1>1, LinkInvInductive, PTL

(* No two of the requests are for the same parameter of d. *)
SingleFor(d, asked) ==
  \A s, t \in Slot :
    /\ asked[s] # NoRequest /\ asked[s].dev = d
    /\ asked[t] # NoRequest /\ asked[t].dev = d
    /\ asked[s].param = asked[t].param
    => s = t

(* An answer in one chunk starts no second request; the scan for the next  *)
(* parameter looks whether it is asked already.                            *)
LEMMA EnqueueSingle ==
  ASSUME NEW table, NEW q, QueuesOK(q, table), NEW d \in Addr, SingleFor(d, q.requests),
         NEW r \in Request, r.dev # d \/ Asked(q.requests, r.dev, r.param) = {}
  PROVE  SingleFor(d, Enqueue(q, r).requests)
<1>1. CASE FreeSlots(q.requests) = {}
  BY <1>1 DEF Enqueue
<1>2. CASE FreeSlots(q.requests) # {}
  <2> DEFINE free     == CHOOSE s \in Slot : q.requests[s] = NoRequest
             asked == [q.requests EXCEPT ![free] = r]
  <2>1. free \in Slot
    BY <1>2 DEF FreeSlots
  <2>2. Enqueue(q, r).requests = asked
    BY <1>2 DEF Enqueue
  <2> HIDE DEF free
  <2>3. \A s \in Slot : asked[s] = IF s = free THEN r ELSE q.requests[s]
    BY <2>1 DEF QueuesOK
  <2>4. SingleFor(d, asked)
    BY <2>1, <2>3 DEF SingleFor, Asked
  <2>5. QED
    BY <2>2, <2>4
<1>3. QED
  BY <1>1, <1>2

LEMMA EnqueueNextSingle ==
  ASSUME NEW table, NEW q, QueuesOK(q, table), NEW d \in Addr, SingleFor(d, q.requests),
         NEW a \in Addr, NEW dev \in Device
  PROVE  SingleFor(d, EnqueueNextParameter(q, a, dev).requests)
<1> DEFINE r == NewRequest(a, NextParameter(dev), 0)
<1>1. r \in Request /\ r.dev = a /\ r.param = NextParameter(dev)
  BY NextParameterMissing, NewRequestType
<1>2. CASE dev.loaded \/ Asked(q.requests, a, NextParameter(dev)) # {}
  BY <1>2 DEF EnqueueNextParameter
<1>3. CASE ~ (dev.loaded \/ Asked(q.requests, a, NextParameter(dev)) # {})
  <2>1. EnqueueNextParameter(q, a, dev) = Enqueue(q, r)
    BY <1>3 DEF EnqueueNextParameter
  <2> HIDE DEF r
  <2>2. QED
    BY <1>1, <1>3, <2>1, EnqueueSingle
<1>4. QED
  BY <1>2, <1>3

LEMMA RemovePendingSingle ==
  ASSUME NEW table, NEW q, QueuesOK(q, table), NEW d \in Addr, SingleFor(d, q.requests),
         NEW a, NEW p
  PROVE  SingleFor(d, RemovePending(q, a, p).requests)
BY DEF SingleFor, RemovePending, QueuesOK

LEMMA StoreSingle ==
  ASSUME IInv, NEW d \in Addr, NEW a \in Addr, Known(a),
         NEW p \in ParamId, NEW content \in Content \cup {Stub},
         NEW q, QueuesOK(q, devices), SingleFor(d, q.requests)
  PROVE  SingleFor(d, EnqueueNextParameter(q, a, WithParameter(devices[a], p, content)).requests)
BY KnownOK, WithParameterOK, EnqueueNextSingle DEF DeviceOK

LEMMA EntrySingle ==
  ASSUME IInv, NEW d \in Addr, SingleFor(d, pending),
         NEW a \in Addr, NEW p \in ParamId, NEW content \in Content,
         HandleParameterEntry(a, p, content)
  PROVE  SingleFor(d, pending')
<1> DEFINE dev  == WithParameter(devices[a], p, content)
           next == EnqueueNextParameter(Queues, a, dev)
<1>1. /\ Known(a)
      /\ devices' = [devices EXCEPT ![a] = dev]
      /\ pending' = RemovePending(next, a, p).requests
  BY DEF HandleParameterEntry, SetQueues
<1>2. QueuesOK(Queues, devices) /\ Queues.requests = pending
  BY IInvParts DEF Queues
<1>3. QueuesOK(next, devices') /\ SingleFor(d, next.requests)
  BY <1>1, <1>2, StoreInv, StoreSingle
<1> HIDE DEF next
<1>4. QED
  BY <1>1, <1>3, RemovePendingSingle

LEMMA DeviceInfoSingle ==
  ASSUME IInv, NEW d \in Addr, SingleFor(d, pending),
         NEW a \in Addr, NEW total \in ParamId, HandleDeviceInfo(a, total)
  PROVE  SingleFor(d, pending')
<1>1. NewDevice(total) \in Device
  BY NewDeviceOK DEF DeviceOK
<1>2. QueuesOK(Queues, devices) /\ Queues.requests = pending
  BY IInvParts DEF Queues
<1>3. SingleFor(d, EnqueueNextParameter(Queues, a, NewDevice(total)).requests)
  BY <1>1, <1>2, EnqueueNextSingle
<1>4. QED
  BY <1>3 DEF HandleDeviceInfo, SetQueues

(* A chunk starts a second request for its parameter, which is none of d's *)
(* when the entries of d all fit one frame.                                *)
LEMMA ChunkSingle ==
  ASSUME IInv, NEW d \in Addr, SingleFor(d, pending),
         NEW a \in Addr, a # d, NEW chunk \in Chunk, HandleParameterChunk(a, chunk)
  PROVE  SingleFor(d, pending')
<1> DEFINE left == QueuesForChunk(a, chunk)
<1>1. /\ QueuesOK(Queues, devices) /\ Queues.requests = pending
      /\ chunk.param \in ParamId /\ AsmOK(asm) /\ asm.param \in ParamId
  BY IInvParts DEF Queues, Chunk, AsmOK, Reassembler
<1>2. QueuesOK(left, devices)
  BY QueuesForChunkOK
<1>3. SingleFor(d, left.requests)
  BY <1>1, RemovePendingSingle DEF QueuesForChunk
<1> HIDE DEF left
<1>4. CASE HandleStaleChunk(a, chunk)
  BY <1>1, <1>4, RemovePendingSingle DEF HandleStaleChunk, SetQueues
<1>5. CASE HandlePartialChunk(a, chunk)
  <2> DEFINE r == NewRequest(a, chunk.param, ChunksReceived(asm'))
  <2>1. ~ Overflows(asm, chunk) /\ asm' = Buffer(asm, chunk)
        /\ pending' = Enqueue(left, r).requests
    BY <1>5 DEF HandlePartialChunk, SetQueues, left
  <2>2. r \in Request /\ r.dev = a
    BY <1>1, <2>1, BufferOK, NewRequestType
  <2> HIDE DEF r
  <2>3. QED
    BY <1>2, <1>3, <2>1, <2>2, EnqueueSingle
<1>6. ASSUME NEW content \in Content, HandleCompletedEntry(a, chunk, content)
      PROVE  SingleFor(d, pending')
  <2> DEFINE next == EnqueueNextParameter(left, a, WithParameter(devices[a], chunk.param, content))
  <2>1. /\ Known(a)
        /\ devices' = [devices EXCEPT ![a] = WithParameter(devices[a], chunk.param, content)]
        /\ pending' = RemovePending(next, a, chunk.param).requests
    BY <1>6 DEF HandleCompletedEntry, AcceptsChunk, SetQueues, left
  <2>2. QueuesOK(next, devices') /\ SingleFor(d, next.requests)
    BY <1>1, <1>2, <1>3, <2>1, StoreInv, StoreSingle
  <2> HIDE DEF next
  <2>3. QED
    BY <2>1, <2>2, RemovePendingSingle
<1>7. CASE HandleFailedChunk(a, chunk)
  <2> DEFINE rest == RemovePending(left, a, chunk.param)
  <2>1. /\ Known(a)
        /\ pending' = EnqueueNextParameter(rest, a,
                         WithParameter(devices[a], chunk.param, Stub)).requests
    BY <1>7 DEF HandleFailedChunk, AcceptsChunk, SetQueues, left
  <2>2. QueuesOK(rest, devices) /\ SingleFor(d, rest.requests)
    BY <1>1, <1>2, <1>3, RemovePendingOK, RemovePendingSingle
  <2> HIDE DEF rest
  <2>3. QED
    BY <1>1, <2>1, <2>2, StoreSingle
<1>8. QED
  BY <1>4, <1>5, <1>6, <1>7 DEF HandleParameterChunk

LEMMA AskAllSingle ==
  ASSUME IInv, NEW d \in Addr, SingleFor(d, pending),
         NEW a \in Addr, RequestAllParameters(a)
  PROVE  SingleFor(d, pending')
<1>1. /\ devices[a] \in Device
      /\ QueuesOK(Queues, devices) /\ Queues.requests = pending
  BY KnownOK, IInvParts DEF DeviceOK, RequestAllParameters, Queues
<1>2. SingleFor(d, RequestAllQueues(a).requests) /\ QueuesOK(RequestAllQueues(a), devices)
  BY <1>1, EnqueueNextSingle, EnqueueNextOK DEF RequestAllQueues, RequestAllParameters, Known
<1>3. pending' = RequestAllQueues(a).requests
  BY <1>2 DEF RequestAllParameters, SetQueues, QueuesOK
<1>4. QED
  BY <1>2, <1>3

(* Time passes and requests are retried in their slots. *)
LEMMA RetrySingle ==
  ASSUME IInv, NEW d \in Addr, SingleFor(d, pending),
         NEW asked,
         \A s \in Slot : asked[s] = NoRequest \/
            /\ pending[s] # NoRequest
            /\ asked[s].dev = pending[s].dev /\ asked[s].param = pending[s].param
  PROVE  SingleFor(d, asked)
BY DEF SingleFor

LEMMA ExpireKeeps ==
  ASSUME NEW r \in Request \cup {NoRequest}
  PROVE  \/ Expire(r) = NoRequest
         \/ r # NoRequest /\ Expire(r).dev = r.dev /\ Expire(r).param = r.param
BY DEF Expire, Due, Request

LEMMA OlderKeeps ==
  ASSUME NEW r \in Request \cup {NoRequest}
  PROVE  \/ Older(r, 1) = NoRequest
         \/ r # NoRequest /\ Older(r, 1).dev = r.dev /\ Older(r, 1).param = r.param
BY DEF Older, Request

LEMMA LinkSingle ==
  ASSUME LinkInv, [LinkNext]_allVars,
         NEW d \in Addr, Plain(d), SingleFor(d, pending)
  PROVE  SingleFor(d, pending')
<1>1. IInv /\ \A s \in Slot : pending[s] \in Request \cup {NoRequest}
  BY PendingFacts DEF LinkInv
<1>2. CASE ReceiveFrame
  <2>1. ASSUME NEW a \in Addr, HandleDeviceInfo(a, Total(a))
        PROVE  SingleFor(d, pending')
    BY <1>1, <2>1, TotalType, DeviceInfoSingle
  <2>2. ASSUME NEW a \in Addr, NEW p \in Numbers(a), HandleParameterEntry(a, p, EntryOf(a, p))
        PROVE  SingleFor(d, pending')
    BY <1>1, <2>2, TotalType, LinkAssumption, EntrySingle
  <2>3. ASSUME NEW a \in Addr, NEW chunk \in Chunk, chunk.param \in Numbers(a),
               Chunks(a, chunk.param) > 1, HandleParameterChunk(a, chunk)
        PROVE  SingleFor(d, pending')
    <3>1. a # d
      BY <2>3 DEF Plain
    <3>2. QED
      BY <1>1, <2>3, <3>1, ChunkSingle
  <2>4. QED
    BY <1>2, <2>1, <2>2, <2>3, ReceivedFrame
<1>3. CASE SendDrained \/ DropExpired
  <2>1. pending' = [s \in Slot |-> Expire(pending[s])]
    BY <1>3 DEF SendDrained, DropExpired, DrainAll
  <2>2. QED
    BY <1>1, <2>1, ExpireKeeps, RetrySingle
<1>4. CASE TimePasses
  <2>1. pending' = [s \in Slot |-> Older(pending[s], 1)]
    BY <1>4 DEF TimePasses, UpdateTime
  <2>2. QED
    BY <1>1, <2>1, OlderKeeps, RetrySingle
<1>5. CASE \E a \in Addr : AskAll(a)
  BY <1>1, <1>5, AskAllSingle DEF AskAll
<1>6. CASE SendPing \/ Network \/ UNCHANGED allVars
  BY <1>6 DEF SendPing, Network, DeviceAnswers, LoseRequest, LoseReply, allVars, vars
<1>7. QED
  BY <1>2, <1>3, <1>4, <1>5, <1>6 DEF LinkNext, Host

(* Where every entry fits one frame no read is ever tracked twice, however *)
(* many answers are lost, late, or set off by a second ping: process_timeouts *)
(* can resend one read per missing answer and no more.                     *)
THEOREM PlainReadsOnce ==
  ASSUME \A d \in Addr : Plain(d)
  PROVE  LinkSpec => []NoDuplicateReads
<1> DEFINE Single == \A d \in Addr : SingleFor(d, pending)
<1>1. LinkInit => Single
  BY DEF LinkInit, Init, SingleFor
<1>2. LinkInv /\ Single /\ [LinkNext]_allVars => Single'
  BY LinkSingle DEF SingleFor
<1>3. LinkInv /\ Single => NoDuplicateReads
  <2> SUFFICES ASSUME LinkInv, Single,
                      NEW s \in Slot, NEW t \in Slot, s # t,
                      pending[s] # NoRequest, pending[t] # NoRequest
               PROVE  ReadOf(pending[s]) # ReadOf(pending[t])
    BY DEF NoDuplicateReads
  <2>1. pending[s] \in Request
    BY PendingFacts DEF LinkInv
  <2>2. QED
    BY <2>1 DEF ReadOf, SingleFor, Request
<1> HIDE DEF Single
<1>4. QED
  BY <1>1, <1>2, <1>3, LinkInvInductive, PTL DEF LinkSpec
-----------------------------------------------------------------------------
(* Entries in chunks, of one device *)

(* What the one reassembler asks of its surroundings, since it looks       *)
(* neither at the sender nor at the number of a chunk: one device with     *)
(* entries in chunks, that announces itself once, answers in time, and     *)
(* none of whose frames are lost while an entry is half received.  And     *)
(* what is asked of the sizes, so that no read is dropped for want of      *)
(* room: with the sizes of the code (8 devices, 8 chunks, 16 pending       *)
(* reads, 8 packets, 64 parameters) it holds.                              *)
ChunksFit ==
  /\ \A d, e \in Addr : d # e => Plain(d) \/ Plain(e)
  /\ MaxPings = 0 /\ MaxLate = 0 /\ Asks = FALSE /\ LossMidAssembly = FALSE
  /\ Timeout > 0
  /\ IsFiniteSet(Slot)
  /\ MaxDevices + MaxChunks <= Cardinality(Slot) + 1
  /\ MaxDevices <= MaxOutput
  /\ \A d \in Addr : /\ Total(d) <= MaxParameters
                     /\ \A p \in Numbers(d) : Chunks(d, p) <= MaxChunks

(* The parameter the manager is about to read of a device, how many of its *)
(* chunks it has, and the read that is next.                               *)
Wanted(d) == NextParameter(devices[d])

Got(d) == IF Plain(d) \/ asm.param # Wanted(d) THEN 0 ELSE Len(asm.chunks)

NextRead(d) == [dev |-> d, param |-> Wanted(d), chunk |-> Got(d)]

(* The places of the frames of a device. *)
FramesOf(frames, d) == {i \in DOMAIN frames : frames[i].dev = d}

AtMostOne(S) == \A i, j \in S : i = j

OneFrame(d) ==
  /\ AtMostOne(FramesOf(output, d)) /\ AtMostOne(DOMAIN requests[d])
  /\ AtMostOne(FramesOf(replies, d))
  /\ FramesOf(output, d) = {} \/ requests[d] = << >>
  /\ FramesOf(output, d) = {} \/ FramesOf(replies, d) = {}
  /\ requests[d] = << >> \/ FramesOf(replies, d) = {}

OnLine(d) == FramesOf(output, d) # {} \/ requests[d] # << >> \/ FramesOf(replies, d) # {}

(* What is under way of a device is its announcement, or the next read or  *)
(* its answer.                                                             *)
Awaited(d) ==
  /\ \A i \in FramesOf(output, d) : Known(d) /\ output[i] = NextRead(d)
  /\ \A i \in DOMAIN requests[d] :
       \/ ~ Known(d) /\ requests[d][i] = Ping
       \/ Known(d) /\ requests[d][i] = ReadFrame(NextRead(d))
  /\ \A i \in FramesOf(replies, d) :
       \/ ~ Known(d) /\ replies[i] = InfoFrame(d)
       \/ Known(d) /\ replies[i] = EntryFrame(d, Wanted(d))
       \/ Known(d) /\ replies[i] = ChunkFrame(d, Wanted(d), Got(d))

(* The reads tracked of a device are those of the chunks it has answered,  *)
(* and the next, each once.                                                *)
Tracks(s, d) == pending[s] # NoRequest /\ pending[s].dev = d

Tracked(d) ==
  /\ \A s \in Slot : Tracks(s, d) => /\ pending[s].param = Wanted(d)
                                     /\ pending[s].chunk \in 0..Got(d)
  /\ \A s, t \in Slot :
       Tracks(s, d) /\ Tracks(t, d) /\ pending[s].chunk = pending[t].chunk => s = t

(* What the reassembler holds is the beginning of an entry, whose next     *)
(* chunk is under way, or an entry that is stored.                         *)
Assembled(d) ==
  ~ Plain(d) /\ ~ IsIdle(asm) =>
    /\ Known(d) /\ asm.param \in Numbers(d)
    /\ asm.chunks = [k \in 1..Len(asm.chunks) |-> FragmentOf(d, asm.param, k - 1)]
    /\ \/ asm.param \in Stored(devices[d])
       \/ asm.param = Wanted(d) /\ Len(asm.chunks) < Chunks(d, asm.param) /\ OnLine(d)

Silent == output = << >> /\ replies = << >> /\ \A d \in Addr : requests[d] = << >>

QuietWhenDue == (\E s \in Slot : Due(pending[s])) => Silent

KnownOnes == {a \in Addr : Known(a)}

InTurn(d) == OneFrame(d) /\ Awaited(d) /\ Tracked(d) /\ Assembled(d)

RequestFrame == {Ping} \cup {ReadFrame(r) : r \in Read}

AssemblyInv ==
  /\ LinkInv /\ requests \in [Addr -> Seq(RequestFrame)] /\ pings = 0
  /\ Cardinality(KnownOnes) <= MaxDevices
  /\ QuietWhenDue /\ Faithful
  /\ \A d \in Addr : InTurn(d)

(* What the tail of a sequence, and one frame more, leave of a device.     *)
LEMMA TailOf ==
  ASSUME NEW T, NEW f \in Seq(T), f # << >>, NEW d
  PROVE  /\ \A i \in FramesOf(Tail(f), d) : i + 1 \in FramesOf(f, d) /\ Tail(f)[i] = f[i + 1]
         /\ Head(f).dev # d /\ FramesOf(Tail(f), d) = {} => FramesOf(f, d) = {}
         /\ AtMostOne(FramesOf(f, d)) => AtMostOne(FramesOf(Tail(f), d))
         /\ AtMostOne(FramesOf(f, d)) /\ Head(f).dev = d => FramesOf(Tail(f), d) = {}
<1>1. /\ Len(f) \in Nat \ {0} /\ DOMAIN f = 1..Len(f) /\ DOMAIN Tail(f) = 1..(Len(f) - 1)
      /\ Head(f) = f[1]
      /\ \A i \in 1..(Len(f) - 1) : Tail(f)[i] = f[i + 1]
  OBVIOUS
<1>2. ASSUME NEW i \in FramesOf(Tail(f), d)
      PROVE  i \in Nat \ {0} /\ i + 1 \in FramesOf(f, d) /\ Tail(f)[i] = f[i + 1]
  BY <1>1, <1>2 DEF FramesOf
<1>3. ASSUME NEW i \in FramesOf(f, d), i # 1
      PROVE  i - 1 \in FramesOf(Tail(f), d)
  <2>1. i \in 1..Len(f) /\ i - 1 \in 1..(Len(f) - 1) /\ f[i].dev = d
    BY <1>1, <1>3 DEF FramesOf
  <2>2. Tail(f)[i - 1] = f[i]
    BY <1>1, <2>1
  <2>3. QED
    BY <1>1, <2>1, <2>2 DEF FramesOf
<1>4. ASSUME AtMostOne(FramesOf(f, d)),
             NEW i \in FramesOf(Tail(f), d), NEW j \in FramesOf(Tail(f), d)
      PROVE  i = j
  <2>1. i + 1 = j + 1
    BY <1>2, <1>4 DEF AtMostOne
  <2>2. QED
    BY <1>2, <2>1
<1>5. ASSUME AtMostOne(FramesOf(f, d)), Head(f).dev = d, NEW i \in FramesOf(Tail(f), d)
      PROVE  FALSE
  <2>1. 1 \in FramesOf(f, d)
    BY <1>1, <1>5 DEF FramesOf
  <2>2. i + 1 = 1
    BY <1>2, <1>5, <2>1 DEF AtMostOne
  <2>3. QED
    BY <1>2, <2>2
<1>6. Head(f).dev # d => 1 \notin FramesOf(f, d)
  BY <1>1 DEF FramesOf
<1>7. QED
  BY <1>2, <1>3, <1>4, <1>5, <1>6 DEF AtMostOne

(* g is f and one frame more, x. *)
Longer(g, f, x) ==
  /\ Len(f) \in Nat /\ DOMAIN f = 1..Len(f) /\ DOMAIN g = 1..(Len(f) + 1)
  /\ \A i \in 1..Len(f) : g[i] = f[i]
  /\ g[Len(f) + 1] = x

LEMMA LongerOther ==
  ASSUME NEW f, NEW g, NEW x, Longer(g, f, x), NEW d, x.dev # d
  PROVE  FramesOf(g, d) = FramesOf(f, d)
BY DEF Longer, FramesOf

LEMMA LongerKeeps ==
  ASSUME NEW f, NEW g, NEW x, Longer(g, f, x), NEW d
  PROVE  \A i \in FramesOf(f, d) : g[i] = f[i]
BY DEF Longer, FramesOf

LEMMA LongerOwn ==
  ASSUME NEW f, NEW g, NEW x, Longer(g, f, x), NEW d, x.dev = d, FramesOf(f, d) = {}
  PROVE  \E i : FramesOf(g, d) = {i} /\ g[i] = x
<1> DEFINE last == Len(f) + 1
<1>1. /\ \A i \in 1..Len(f) : g[i].dev # d
      /\ DOMAIN g = 1..last /\ g[last].dev = d /\ g[last] = x
  BY DEF Longer, FramesOf
<1>2. Len(f) \in Nat
  BY DEF Longer
<1>3. FramesOf(g, d) = {last}
  BY <1>1, <1>2 DEF FramesOf
<1>4. QED
  BY <1>1, <1>3

(* A device sees nothing of the frames of the others come and go.          *)
Passes(before, after, d) ==
  /\ FramesOf(after, d) = {} <=> FramesOf(before, d) = {}
  /\ AtMostOne(FramesOf(before, d)) => AtMostOne(FramesOf(after, d))
  /\ \A i \in FramesOf(after, d) : \E j \in FramesOf(before, d) : after[i] = before[j]

LEMMA TailPasses ==
  ASSUME NEW T, NEW f \in Seq(T), f # << >>, NEW d, Head(f).dev # d
  PROVE  Passes(f, Tail(f), d)
BY TailOf DEF Passes

LEMMA LongerPasses ==
  ASSUME NEW f, NEW g, NEW x, Longer(g, f, x), NEW d, x.dev # d
  PROVE  Passes(f, g, d)
<1>1. FramesOf(g, d) = FramesOf(f, d)
  BY LongerOther
<1>2. \A i \in FramesOf(f, d) : g[i] = f[i]
  BY LongerKeeps
<1>3. QED
  BY <1>1, <1>2 DEF Passes

LEMMA SamePasses == ASSUME NEW f, NEW d PROVE Passes(f, f, d)
BY DEF Passes

(* A device no step concerns goes on as before: nothing of it is           *)
(* tracked that was not, and the reassembler is not touched if it holds    *)
(* something of its.                                                       *)
KeepsTracks(d) ==
  \A s \in Slot : Tracks(s, d)' =>
    /\ Tracks(s, d)
    /\ pending'[s].param = pending[s].param /\ pending'[s].chunk = pending[s].chunk

Stays(d) ==
  /\ devices'[d] = devices[d]
  /\ Plain(d) \/ asm' = asm

LEMMA StaysSame ==
  ASSUME NEW d, Stays(d)
  PROVE  /\ Known(d)' <=> Known(d)
         /\ Wanted(d)' = Wanted(d) /\ Got(d)' = Got(d) /\ NextRead(d)' = NextRead(d)
         /\ ReadFrame(NextRead(d))' = ReadFrame(NextRead(d))
         /\ ChunkFrame(d, Wanted(d), Got(d))' = ChunkFrame(d, Wanted(d), Got(d))
         /\ EntryFrame(d, Wanted(d))' = EntryFrame(d, Wanted(d))
<1>1. Known(d)' <=> Known(d)
  BY DEF Stays, Known
<1>2. Wanted(d)' = Wanted(d)
  BY DEF Stays, Wanted
<1>3. Got(d)' = Got(d)
  BY <1>2 DEF Stays, Got
<1>4. NextRead(d)' = NextRead(d)
  BY <1>2, <1>3 DEF NextRead
<1>5. QED
  BY <1>1, <1>2, <1>3, <1>4

LEMMA TracksKept ==
  ASSUME NEW d, Stays(d), Tracked(d), KeepsTracks(d)
  PROVE  Tracked(d)'
<1>1. Wanted(d)' = Wanted(d) /\ Got(d)' = Got(d)
  BY StaysSame
<1>2. QED
  BY <1>1 DEF Tracked, KeepsTracks

LEMMA Bystander ==
  ASSUME NEW d, InTurn(d), Stays(d), KeepsTracks(d), requests'[d] = requests[d],
         Passes(output, output', d), Passes(replies, replies', d)
  PROVE  InTurn(d)'
<1>1. OneFrame(d)' /\ (OnLine(d)' <=> OnLine(d))
  BY DEF InTurn, OneFrame, OnLine, Passes
<1>2. Awaited(d)'
  <2>1. ASSUME NEW i \in FramesOf(output', d)
        PROVE  (Known(d) /\ output[i] = NextRead(d))'
    BY <2>1, StaysSame DEF InTurn, Awaited, Passes
  <2>2. ASSUME NEW i \in DOMAIN requests'[d]
        PROVE  (\/ ~ Known(d) /\ requests[d][i] = Ping
                \/ Known(d) /\ requests[d][i] = ReadFrame(NextRead(d)))'
    <3>1. \/ ~ Known(d) /\ requests[d][i] = Ping
          \/ Known(d) /\ requests[d][i] = ReadFrame(NextRead(d))
      BY <2>2 DEF InTurn, Awaited
    <3>2. requests'[d][i] = requests[d][i]
      OBVIOUS
    <3>3. QED
      BY <3>1, <3>2, StaysSame
  <2>3. ASSUME NEW i \in FramesOf(replies', d)
        PROVE  (\/ ~ Known(d) /\ replies[i] = InfoFrame(d)
                \/ Known(d) /\ replies[i] = EntryFrame(d, Wanted(d))
                \/ Known(d) /\ replies[i] = ChunkFrame(d, Wanted(d), Got(d)))'
    <3>1. PICK j \in FramesOf(replies, d) : replies'[i] = replies[j]
      BY <2>3 DEF Passes
    <3>2. \/ ~ Known(d) /\ replies[j] = InfoFrame(d)
          \/ Known(d) /\ replies[j] = EntryFrame(d, Wanted(d))
          \/ Known(d) /\ replies[j] = ChunkFrame(d, Wanted(d), Got(d))
      BY <3>1 DEF InTurn, Awaited
    <3>3. QED
      BY <3>1, <3>2, StaysSame
  <2>4. QED
    BY <2>1, <2>2, <2>3 DEF Awaited
<1>3. Tracked(d)'
  BY TracksKept DEF InTurn
<1>4. Assembled(d)'
  <2>1. CASE Plain(d)
    BY <2>1 DEF Assembled
  <2>2. CASE ~ Plain(d)
    <3>1. asm' = asm /\ devices'[d] = devices[d]
      BY <2>2 DEF Stays
    <3>2. QED
      BY <1>1, <3>1, StaysSame DEF InTurn, Assembled, IsIdle
  <2>3. QED
    BY <2>1, <2>2
<1>5. QED
  BY <1>1, <1>2, <1>3, <1>4 DEF InTurn

(* A device whose frame moves on, or is gone where none need be.           *)
LEMMA Onward ==
  ASSUME NEW d, InTurn(d), Stays(d), KeepsTracks(d), OneFrame(d)', Awaited(d)',
         OnLine(d)' \/ IsIdle(asm) \/ Plain(d) \/ asm.param \in Stored(devices[d])
  PROVE  InTurn(d)'
<1>1. Tracked(d)'
  BY TracksKept DEF InTurn
<1>2. Assembled(d)'
  <2>1. CASE Plain(d)
    BY <2>1 DEF Assembled
  <2>2. CASE ~ Plain(d)
    <3>1. asm' = asm /\ devices'[d] = devices[d]
      BY <2>2 DEF Stays
    <3>2. QED
      BY <2>2, <3>1, StaysSame DEF InTurn, Assembled, IsIdle
  <2>3. QED
    BY <2>1, <2>2
<1>3. QED
  BY <1>1, <1>2 DEF InTurn

LEMMA LinkFacts ==
  ASSUME AssemblyInv
  PROVE  /\ IInv /\ output \in Seq(Read) /\ replies \in Seq(Reply)
         /\ requests \in [Addr -> Seq(RequestFrame)]
         /\ \A d \in Addr : InTurn(d)
         /\ \A s \in Slot : pending[s] \in Request \cup {NoRequest}
BY PendingFacts DEF AssemblyInv, LinkInv, IInv, TypeOK

(* A device answers with one frame or none, and its parameters with one.   *)
LEMMA AnswerIs ==
  ASSUME NEW d \in Addr
  PROVE  /\ Answer(d, Ping) = << InfoFrame(d) >>
         /\ \A r \in Read :
              /\ \/ Answer(d, ReadFrame(r)) = << >>
                 \/ Answer(d, ReadFrame(r)) = << EntryFrame(d, r.param) >>
                 \/ Answer(d, ReadFrame(r)) = << ChunkFrame(d, r.param, r.chunk) >>
              /\ r.param \in Numbers(d) /\ r.chunk \in 0..(Chunks(d, r.param) - 1) =>
                   Answer(d, ReadFrame(r)) # << >>
<1>1. Answer(d, Ping) = << InfoFrame(d) >>
  BY DEF Answer, Ping
<1>2. ASSUME NEW r \in Read
      PROVE  Answer(d, ReadFrame(r)) =
               IF r.param \notin Numbers(d) \/ r.chunk \notin 0..(Chunks(d, r.param) - 1)
                 THEN << >>
               ELSE IF Chunks(d, r.param) = 1 THEN << EntryFrame(d, r.param) >>
               ELSE << ChunkFrame(d, r.param, r.chunk) >>
  BY DEF Answer, ReadFrame
<1>3. << EntryFrame(d, 0) >> # << >>
  OBVIOUS
<1>4. \A x : << x >> # << >>
  OBVIOUS
<1>5. QED
  BY <1>1, <1>2, <1>4, Zenon

LEMMA NextReadType ==
  ASSUME AssemblyInv, NEW d \in Addr, Known(d)
  PROVE  /\ NextRead(d) \in Read /\ NextRead(d).dev = d
         /\ NextRead(d).param = Wanted(d) /\ NextRead(d).chunk = Got(d)
         /\ Wanted(d) \in ParamId /\ Got(d) \in Nat
<1>1. devices[d] \in Device
  BY LinkFacts, KnownOK DEF DeviceOK
<1>2. Wanted(d) \in ParamId
  BY <1>1, NextParameterMissing DEF Wanted
<1>3. Got(d) \in Nat
  <2>1. asm.chunks \in Seq(Fragment)
    BY LinkFacts DEF IInv, TypeOK, Reassembler
  <2>2. QED
    BY <2>1 DEF Got
<1>4. QED
  BY <1>2, <1>3 DEF NextRead, Read

LEMMA FrameDev ==
  /\ \A d : InfoFrame(d).dev = d /\ InfoFrame(d).kind = "info"
  /\ \A d, p : EntryFrame(d, p).dev = d /\ EntryFrame(d, p).kind = "entry"
  /\ \A d, p, k : ChunkFrame(d, p, k).dev = d /\ ChunkFrame(d, p, k).kind = "chunk"
  /\ \A r : ReadFrame(r).kind = "read" /\ ReadFrame(r).read = r
  /\ Ping.kind = "ping"
BY DEF InfoFrame, EntryFrame, ChunkFrame, ReadFrame, Ping

(* The one frame on its way to a device. *)
LEMMA OnlyRequest ==
  ASSUME AssemblyInv, NEW d \in Addr, requests[d] # << >>
  PROVE  /\ Tail(requests[d]) = << >> /\ DOMAIN requests[d] = {1}
         /\ Head(requests[d]) = requests[d][1]
         /\ FramesOf(output, d) = {} /\ FramesOf(replies, d) = {}
         /\ \/ ~ Known(d) /\ Head(requests[d]) = Ping
            \/ Known(d) /\ Head(requests[d]) = ReadFrame(NextRead(d))
<1> DEFINE f == requests[d]
<1>1. f \in Seq(RequestFrame) /\ f # << >>
  BY LinkFacts
<1>2. AtMostOne(DOMAIN f) /\ FramesOf(output, d) = {} /\ FramesOf(replies, d) = {}
  BY LinkFacts DEF InTurn, OneFrame
<1>3. Len(f) = 1 /\ DOMAIN f = {1}
  <2>1. Len(f) \in Nat \ {0} /\ DOMAIN f = 1..Len(f)
    BY <1>1
  <2>2. 1 \in 1..Len(f) /\ Len(f) \in 1..Len(f)
    BY <2>1
  <2>3. Len(f) = 1
    BY <1>2, <2>1, <2>2 DEF AtMostOne
  <2>4. QED
    BY <2>1, <2>3
<1>4. Tail(f) = << >> /\ Head(f) = f[1]
  <2>1. Tail(f) \in Seq(RequestFrame) /\ Len(Tail(f)) = 0
    BY <1>1, <1>3
  <2>2. \A g \in Seq(RequestFrame) : Len(g) = 0 => g = << >>
    OBVIOUS
  <2>3. Head(f) = f[1]
    OBVIOUS
  <2>4. QED
    BY <2>1, <2>2, <2>3
<1>5. \/ ~ Known(d) /\ f[1] = Ping
      \/ Known(d) /\ f[1] = ReadFrame(NextRead(d))
  BY <1>3, LinkFacts DEF InTurn, Awaited
<1>6. QED
  BY <1>2, <1>3, <1>4, <1>5

LEMMA AnswerStep ==
  ASSUME AssemblyInv, NEW d \in Addr, DeviceAnswers(d), NEW e \in Addr
  PROVE  InTurn(e)'
<1>1. /\ UNCHANGED <<devices, pending, asm, output>>
      /\ requests[d] # << >> /\ requests' = [requests EXCEPT ![d] = Tail(@)]
      /\ replies' = replies \o Answer(d, Head(requests[d]))
  BY DEF DeviceAnswers, vars
<1>2. InTurn(e) /\ Stays(e) /\ KeepsTracks(e)
  BY <1>1, LinkFacts DEF Stays, KeepsTracks, Tracks
<1>3. PICK ans : ans = Answer(d, Head(requests[d]))
  OBVIOUS
<1>4. \/ ans = << >>
      \/ \E x \in Reply : x.dev = d /\ ans = << x >>
           /\ \/ ~ Known(d) /\ x = InfoFrame(d)
              \/ Known(d) /\ x = EntryFrame(d, Wanted(d))
              \/ Known(d) /\ x = ChunkFrame(d, Wanted(d), Got(d))
  <2>1. ans \in Seq(Reply)
    BY <1>3, AnswerType
  <2>2. \/ ans = << >>
        \/ \E x : x.dev = d /\ ans = << x >>
           /\ \/ ~ Known(d) /\ x = InfoFrame(d)
              \/ Known(d) /\ x = EntryFrame(d, Wanted(d))
              \/ Known(d) /\ x = ChunkFrame(d, Wanted(d), Got(d))
    <3>1. CASE ~ Known(d) /\ Head(requests[d]) = Ping
      BY <1>3, <3>1, AnswerIs, FrameDev
    <3>2. CASE Known(d) /\ Head(requests[d]) = ReadFrame(NextRead(d))
      BY <1>3, <3>2, AnswerIs, NextReadType, FrameDev
    <3>3. QED
      BY <1>1, <3>1, <3>2, OnlyRequest
  <2>3. \A x : << x >> \in Seq(Reply) => x \in Reply
    <3>1. ASSUME NEW x, << x >> \in Seq(Reply) PROVE x \in Reply
      <4>1. << x >>[1] \in Reply
        BY <3>1
      <4>2. QED
        BY <4>1
    <3>2. QED
      BY <3>1
  <2>4. QED
    BY <2>1, <2>2, <2>3
<1>5. \/ replies' = replies /\ ans = << >>
      \/ \E x \in Reply : x.dev = d /\ ans = << x >> /\ Longer(replies', replies, x)
           /\ \/ ~ Known(d) /\ x = InfoFrame(d)
              \/ Known(d) /\ x = EntryFrame(d, Wanted(d))
              \/ Known(d) /\ x = ChunkFrame(d, Wanted(d), Got(d))
  <2>1. replies \in Seq(Reply) /\ replies' = replies \o ans
    BY <1>1, <1>3, LinkFacts
  <2>2. replies \o << >> = replies
    BY <2>1
  <2>3. \A x \in Reply : Longer(replies \o << x >>, replies, x)
    BY <2>1 DEF Longer
  <2>4. QED
    BY <1>4, <2>1, <2>2, <2>3
<1>6. CASE e # d
  <2>1. requests'[e] = requests[e]
    BY <1>1, <1>6, LinkFacts
  <2>2. Passes(replies, replies', e)
    BY <1>5, <1>6, LongerPasses, SamePasses
  <2>3. Passes(output, output', e)
    BY <1>1, SamePasses
  <2>4. QED
    BY <1>2, <2>1, <2>2, <2>3, Bystander
<1>7. CASE e = d
  <2>1. requests'[d] = << >> /\ FramesOf(output, d) = {} /\ FramesOf(replies, d) = {}
    BY <1>1, OnlyRequest, LinkFacts
  <2>2. \/ replies' = replies
        \/ \E i : /\ FramesOf(replies', d) = {i}
                  /\ \/ ~ Known(d) /\ replies'[i] = InfoFrame(d)
                     \/ Known(d) /\ replies'[i] = EntryFrame(d, Wanted(d))
                     \/ Known(d) /\ replies'[i] = ChunkFrame(d, Wanted(d), Got(d))
    <3>1. CASE replies' = replies
      BY <3>1
    <3>2. ASSUME NEW x, Longer(replies', replies, x), x.dev = d
          PROVE  \E i : FramesOf(replies', d) = {i} /\ replies'[i] = x
      <4>1. FramesOf(replies, d) = {}
        BY <2>1
      <4>2. QED
        BY ONLY <3>2, <4>1, LongerOwn
    <3>3. QED
      BY <1>5, <3>1, <3>2
  <2>3. OneFrame(d)'
    <3>1. AtMostOne(FramesOf(replies, d)) /\ FramesOf(output', d) = {}
      BY <1>1, <2>1 DEF AtMostOne
    <3>2. AtMostOne(FramesOf(replies', d)) /\ AtMostOne(FramesOf(output', d))
      BY <2>2, <3>1 DEF AtMostOne
    <3>3. AtMostOne(DOMAIN requests'[d])
      BY <2>1 DEF AtMostOne
    <3>4. QED
      BY <2>1, <3>1, <3>2, <3>3 DEF OneFrame
  <2>4. Awaited(d)'
    <3>1. FramesOf(output', d) = {} /\ DOMAIN requests'[d] = {}
      BY <1>1, <2>1
    <3>2. \A i \in FramesOf(replies', d) :
             \/ ~ Known(d) /\ replies'[i] = InfoFrame(d)
             \/ Known(d) /\ replies'[i] = EntryFrame(d, Wanted(d))
             \/ Known(d) /\ replies'[i] = ChunkFrame(d, Wanted(d), Got(d))
      BY <2>1, <2>2
    <3>3. QED
      BY <1>2, <1>7, <3>1, <3>2, StaysSame DEF Awaited
  <2>5. ASSUME ~ IsIdle(asm), ~ Plain(d), asm.param \notin Stored(devices[d])
        PROVE  OnLine(d)'
    <3>1. /\ Known(d) /\ asm.param \in Numbers(d) /\ asm.param = Wanted(d)
          /\ Len(asm.chunks) < Chunks(d, asm.param)
      BY <1>2, <1>7, <2>5 DEF InTurn, Assembled
    <3>2. Got(d) = Len(asm.chunks)
      BY <2>5, <3>1 DEF Got
    <3>3. Chunks(d, asm.param) \in Nat /\ Got(d) \in 0..(Chunks(d, Wanted(d)) - 1)
      BY <3>1, <3>2, ChunksType, NextReadType
    <3>4. Head(requests[d]) = ReadFrame(NextRead(d))
      BY <1>1, <3>1, OnlyRequest
    <3>5. ans # << >>
      BY <1>3, <3>1, <3>3, <3>4, AnswerIs, NextReadType
    <3>7. replies' = replies => ans = << >>
      <4>1. \A x : Longer(replies', replies, x) =>
               Len(replies) + 1 \in DOMAIN replies' /\ Len(replies) + 1 \notin DOMAIN replies
        BY DEF Longer
      <4>2. QED
        BY <1>5, <4>1
    <3>6. FramesOf(replies', d) # {}
      BY <1>5, <2>1, <2>2, <3>5, <3>7
    <3>8. QED
      BY <3>6 DEF OnLine
  <2>6. QED
    BY <1>2, <1>7, <2>3, <2>4, <2>5, Onward
<1>8. QED
  BY <1>6, <1>7

(* The link takes a frame away, though not one of an entry that is half    *)
(* received.                                                               *)
LEMMA NotHalf ==
  ASSUME AssemblyInv, ChunksFit, NEW d \in Addr, NEW frame, Peer(frame) = d, Lose(frame)
  PROVE  IsIdle(asm) \/ Plain(d) \/ asm.param \in Stored(devices[d])
<1> SUFFICES ASSUME ~ IsIdle(asm), ~ Plain(d), asm.param \notin Stored(devices[d])
             PROVE  FALSE
  OBVIOUS
<1>1. asm.chunks = [k \in 1..Len(asm.chunks) |-> FragmentOf(d, asm.param, k - 1)]
  BY LinkFacts DEF InTurn, Assembled
<1>2. asm.chunks \in Seq(Fragment) /\ asm.chunks # << >>
  BY LinkFacts DEF IInv, TypeOK, Reassembler, IsIdle
<1>3. 1 \in 1..Len(asm.chunks) /\ Head(asm.chunks) = asm.chunks[1]
  BY <1>2
<1>4. asm.chunks[1] = FragmentOf(d, asm.param, 1 - 1)
  BY <1>1, <1>3
<1>5. Head(asm.chunks).dev = d
  BY <1>3, <1>4 DEF FragmentOf
<1>6. QED
  BY <1>5 DEF Lose, MidAssembly, ChunksFit

LEMMA Departs ==
  ASSUME NEW d, InTurn(d), Stays(d), KeepsTracks(d),
         FramesOf(output', d) = {}, requests'[d] = << >>, FramesOf(replies', d) = {},
         IsIdle(asm) \/ Plain(d) \/ asm.param \in Stored(devices[d])
  PROVE  InTurn(d)'
<1>1. OneFrame(d)'
  BY DEF OneFrame, AtMostOne
<1>2. Awaited(d)'
  BY DEF Awaited
<1>3. QED
  BY <1>1, <1>2, Onward

LEMMA OnlyReply ==
  ASSUME AssemblyInv, NEW d \in Addr, NEW i \in FramesOf(replies, d)
  PROVE  /\ FramesOf(replies, d) = {i}
         /\ FramesOf(output, d) = {} /\ requests[d] = << >>
         /\ \/ ~ Known(d) /\ replies[i] = InfoFrame(d)
            \/ Known(d) /\ replies[i] = EntryFrame(d, Wanted(d))
            \/ Known(d) /\ replies[i] = ChunkFrame(d, Wanted(d), Got(d))
<1>1. InTurn(d)
  BY LinkFacts
<1>2. AtMostOne(FramesOf(replies, d)) /\ FramesOf(output, d) = {} /\ requests[d] = << >>
  BY <1>1 DEF InTurn, OneFrame
<1>3. FramesOf(replies, d) = {i}
  BY <1>2 DEF AtMostOne
<1>4. QED
  BY <1>1, <1>2, <1>3 DEF InTurn, Awaited

LEMMA LoseRequestStep ==
  ASSUME AssemblyInv, ChunksFit, NEW d \in Addr, LoseRequest(d), NEW e \in Addr
  PROVE  InTurn(e)'
<1>1. /\ UNCHANGED <<devices, pending, asm, output, replies>>
      /\ requests[d] # << >> /\ requests' = [requests EXCEPT ![d] = Tail(@)]
      /\ Lose(Head(requests[d]))
  BY DEF LoseRequest, vars
<1>2. InTurn(e) /\ Stays(e) /\ KeepsTracks(e)
  BY <1>1, LinkFacts DEF Stays, KeepsTracks, Tracks
<1>3. CASE e # d
  <2>1. requests'[e] = requests[e]
    BY <1>1, <1>3, LinkFacts
  <2>2. QED
    BY <1>1, <1>2, <2>1, SamePasses, Bystander
<1>4. CASE e = d
  <2>1. Head(requests[d]) = ReadFrame(NextRead(d)) /\ Known(d)
    BY <1>1, OnlyRequest, FrameDev DEF Lose
  <2>2. Peer(Head(requests[d])) = d
    BY <2>1, FrameDev, NextReadType DEF Peer
  <2>3. requests'[d] = << >> /\ FramesOf(output', d) = {} /\ FramesOf(replies', d) = {}
    BY <1>1, OnlyRequest, LinkFacts
  <2>4. QED
    BY <1>1, <1>2, <1>4, <2>2, <2>3, NotHalf, Departs
<1>5. QED
  BY <1>3, <1>4

LEMMA HeadReply ==
  ASSUME AssemblyInv, replies # << >>
  PROVE  /\ Head(replies) \in Reply /\ Head(replies) = replies[1]
         /\ Head(replies).dev \in Addr
         /\ 1 \in FramesOf(replies, Head(replies).dev)
         /\ FramesOf(Tail(replies), Head(replies).dev) = {}
         /\ \A e : e # Head(replies).dev => Passes(replies, Tail(replies), e)
<1>1. replies \in Seq(Reply)
  BY LinkFacts
<1>2. Head(replies) \in Reply /\ Head(replies) = replies[1] /\ 1 \in DOMAIN replies
  BY <1>1
<1>3. Head(replies).dev \in Addr
  BY <1>2, ReplyCases
<1>4. 1 \in FramesOf(replies, Head(replies).dev)
  BY <1>2 DEF FramesOf
<1>5. AtMostOne(FramesOf(replies, Head(replies).dev))
  BY <1>3, LinkFacts DEF InTurn, OneFrame
<1>6. FramesOf(Tail(replies), Head(replies).dev) = {}
  BY <1>1, <1>5, TailOf
<1>7. ASSUME NEW e, e # Head(replies).dev
      PROVE  Passes(replies, Tail(replies), e)
  BY <1>1, <1>7, TailPasses
<1>8. QED
  BY <1>2, <1>3, <1>4, <1>6, <1>7

LEMMA LoseReplyStep ==
  ASSUME AssemblyInv, ChunksFit, LoseReply, NEW e \in Addr
  PROVE  InTurn(e)'
<1>1. /\ UNCHANGED <<devices, pending, asm, output, requests>>
      /\ replies # << >> /\ replies' = Tail(replies)
      /\ Lose(Head(replies))
  BY DEF LoseReply, vars
<1>2. InTurn(e) /\ Stays(e) /\ KeepsTracks(e)
  BY <1>1, LinkFacts DEF Stays, KeepsTracks, Tracks
<1>3. PICK d : d = Head(replies).dev
  OBVIOUS
<1>4. CASE e # d
  <2>1. Passes(replies, replies', e)
    BY <1>1, <1>3, <1>4, HeadReply
  <2>2. QED
    BY <1>1, <1>2, <2>1, SamePasses, Bystander
<1>5. CASE e = d
  <2>1. FramesOf(replies', d) = {}
    BY <1>1, <1>3, HeadReply
  <2>2. Peer(Head(replies)) = d
    BY <1>1, <1>3, HeadReply, ReplyCases DEF Peer
  <2>3. FramesOf(output', d) = {} /\ requests'[d] = << >>
    BY <1>1, <1>3, <1>5, HeadReply, OnlyReply
  <2>4. QED
    BY <1>1, <1>2, <1>5, <2>1, <2>2, <2>3, NotHalf, Departs
<1>6. QED
  BY <1>4, <1>5

-----------------------------------------------------------------------------
(* Nothing is under way when the count says so. *)
LEMMA NothingUnderWay ==
  ASSUME AssemblyInv, UnderWay <= 0
  PROVE  Silent
<1> DEFINE Places == {{d} \X DOMAIN requests[d] : d \in Addr}
<1>1. IsFiniteSet(Places)
  <2> DEFINE f == [d \in Addr |-> {d} \X DOMAIN requests[d]]
  <2>1. f \in Surjection(Addr, Places)
    BY DEF Surjection
  <2> HIDE DEF f, Places
  <2>2. QED
    BY <2>1, AddrAssumption, FS_Surjection
<1>2. ASSUME NEW P \in Places PROVE IsFiniteSet(P)
  <2>1. PICK d \in Addr : P = {d} \X DOMAIN requests[d]
    BY <1>2
  <2>2. requests[d] \in Seq(RequestFrame)
    BY LinkFacts
  <2>3. DOMAIN requests[d] = 1..Len(requests[d]) /\ 1 \in Int /\ Len(requests[d]) \in Int
    BY <2>2
  <2>4. IsFiniteSet(DOMAIN requests[d])
    BY <2>3, FS_Interval
  <2>5. IsFiniteSet({d})
    BY FS_Singleton
  <2>6. QED
    BY <2>1, <2>4, <2>5, FS_Product
<1>3. IsFiniteSet(UNION Places)
  <2> HIDE DEF Places
  <2>1. QED
    BY <1>1, <1>2, FS_UNION
<1>4. Cardinality(UNION Places) \in Nat
  BY <1>3, FS_CardinalityType
<1>5. /\ Len(output) \in Nat /\ Len(replies) \in Nat
      /\ output \in Seq(Read) /\ replies \in Seq(Reply)
  BY LinkFacts
<1>6. UnderWay = Len(output) + Len(replies) + Cardinality(UNION Places)
  BY DEF UnderWay
<1>7. Len(output) = 0 /\ Len(replies) = 0 /\ Cardinality(UNION Places) = 0
  <2> HIDE DEF Places
  <2>1. QED
    BY <1>4, <1>5, <1>6
<1>8. output = << >> /\ replies = << >>
  BY <1>5, <1>7
<1>9. UNION Places = {}
  <2> HIDE DEF Places
  <2>1. QED
    BY <1>3, <1>7, FS_EmptySet
<1>10. ASSUME NEW d \in Addr PROVE requests[d] = << >>
  <2>1. requests[d] \in Seq(RequestFrame)
    BY LinkFacts
  <2>2. DOMAIN requests[d] = {}
    <3>1. SUFFICES ASSUME NEW i \in DOMAIN requests[d] PROVE FALSE
      OBVIOUS
    <3>2. <<d, i>> \in UNION Places
      OBVIOUS
    <3>3. QED
      BY <1>9, <3>2
  <2>3. Len(requests[d]) = 0
    <3>1. DOMAIN requests[d] = 1..Len(requests[d]) /\ Len(requests[d]) \in Nat
      BY <2>1
    <3>2. Len(requests[d]) # 0 => 1 \in 1..Len(requests[d])
      BY <3>1
    <3>3. QED
      BY <2>2, <3>1, <3>2
  <2>4. QED
    BY <2>1, <2>3
<1>11. QED
  BY <1>8, <1>10 DEF Silent

(* Time and retries leave of a request what is asked by it. *)
LEMMA ExpireAlike ==
  ASSUME NEW r \in Request \cup {NoRequest}
  PROVE  \/ Expire(r) = NoRequest
         \/ /\ r # NoRequest
            /\ Expire(r).dev = r.dev /\ Expire(r).param = r.param /\ Expire(r).chunk = r.chunk
BY DEF Expire, Due, Request

LEMMA OlderAlike ==
  ASSUME NEW r \in Request \cup {NoRequest}
  PROVE  \/ Older(r, 1) = NoRequest
         \/ /\ r # NoRequest
            /\ Older(r, 1).dev = r.dev /\ Older(r, 1).param = r.param /\ Older(r, 1).chunk = r.chunk
BY DEF Older, Request

LEMMA NoneDue ==
  ASSUME Timeout > 0, NEW r \in Request \cup {NoRequest}
  PROVE  ~ Due(Expire(r))
<1>1. CASE r = NoRequest
  BY <1>1 DEF Expire, Due
<1>2. CASE r \in Request
  BY <1>2, TimingAssumption DEF Expire, Due, Request
<1>3. QED
  BY <1>1, <1>2

LEMMA TimePassesStep ==
  ASSUME AssemblyInv, ChunksFit, TimePasses
  PROVE  QuietWhenDue' /\ \A e \in Addr : InTurn(e)'
<1>1. UNCHANGED <<devices, asm, output, requests, replies>>
      /\ pending' = [s \in Slot |-> Older(pending[s], 1)]
  BY DEF TimePasses, UpdateTime, link
<1>2. Silent'
  <2>1. Silent
    BY NothingUnderWay DEF TimePasses, ChunksFit
  <2>2. QED
    BY <1>1, <2>1 DEF Silent
<1>3. ASSUME NEW e \in Addr PROVE InTurn(e)'
  <2>1. KeepsTracks(e)
    BY <1>1, LinkFacts, OlderAlike DEF KeepsTracks, Tracks
  <2>2. Stays(e) /\ InTurn(e)
    BY <1>1, LinkFacts DEF Stays
  <2>3. QED
    BY <1>1, <2>1, <2>2, SamePasses, Bystander
<1>4. QED
  BY <1>2, <1>3 DEF QuietWhenDue

LEMMA DropExpiredStep ==
  ASSUME AssemblyInv, ChunksFit, DropExpired
  PROVE  QuietWhenDue' /\ \A e \in Addr : InTurn(e)'
<1>1. UNCHANGED <<devices, asm, output, requests, replies>>
      /\ pending' = [s \in Slot |-> Expire(pending[s])]
  BY DEF DropExpired, DrainAll, link
<1>2. QuietWhenDue'
  BY <1>1, LinkFacts, NoneDue DEF ChunksFit, QuietWhenDue
<1>3. ASSUME NEW e \in Addr PROVE InTurn(e)'
  <2>1. KeepsTracks(e)
    BY <1>1, LinkFacts, ExpireAlike DEF KeepsTracks, Tracks
  <2>2. Stays(e) /\ InTurn(e)
    BY <1>1, LinkFacts DEF Stays
  <2>3. QED
    BY <1>1, <2>1, <2>2, SamePasses, Bystander
<1>4. QED
  BY <1>2, <1>3

(* What is wanted of a device is not stored. *)
LEMMA WantedMissing ==
  ASSUME AssemblyInv, NEW d \in Addr, Known(d)
  PROVE  Wanted(d) \notin Stored(devices[d])
<1>1. devices[d] \in Device /\ ShapedAs(d, devices[d])
  BY LinkFacts, KnownOK DEF DeviceOK, AssemblyInv, LinkInv, Shaped
<1> DEFINE missing == {p \in ParamId : p < devices[d].total /\ p \notin Stored(devices[d])}
<1>2. CASE missing = {}
  <2>1. Wanted(d) = Total(d)
    BY <1>1, <1>2 DEF Wanted, NextParameter, ShapedAs
  <2>2. QED
    BY <1>1, <2>1, TotalType DEF ShapedAs, Numbers
<1>3. CASE missing # {}
  BY <1>1, <1>3, NextParameterMissing DEF Wanted
<1>4. QED
  BY <1>2, <1>3

(* With nothing under way no entry is half received, and what is tracked   *)
(* of a device is its next read, once.                                     *)
LEMMA TrackedInSilence ==
  ASSUME AssemblyInv, Silent, NEW d \in Addr
  PROVE  /\ \A s \in Slot : Tracks(s, d) => Known(d) /\ ReadOf(pending[s]) = NextRead(d)
         /\ \A s, t \in Slot : Tracks(s, d) /\ Tracks(t, d) => s = t
<1>1. InTurn(d)
  BY LinkFacts
<1>2. ~ OnLine(d)
  BY DEF Silent, OnLine, FramesOf
<1>3. ASSUME Known(d) PROVE Got(d) = 0
  <2>1. CASE IsIdle(asm)
    BY <2>1 DEF Got, IsIdle
  <2>2. CASE ~ Plain(d) /\ asm.param \in Stored(devices[d])
    BY <1>3, <2>2, WantedMissing DEF Got
  <2>3. CASE Plain(d)
    BY <2>3 DEF Got
  <2>4. QED
    BY <1>1, <1>2, <2>1, <2>2, <2>3 DEF InTurn, Assembled
<1>4. ASSUME NEW s \in Slot, Tracks(s, d)
      PROVE  Known(d) /\ pending[s].param = Wanted(d) /\ pending[s].chunk = 0 /\ pending[s].dev = d
  <2>1. Known(d)
    BY <1>4, LinkFacts, PendingFacts DEF Tracks, Known
  <2>2. pending[s].chunk \in 0..0
    BY <1>1, <1>3, <1>4, <2>1 DEF InTurn, Tracked
  <2>3. QED
    BY <1>1, <1>4, <2>1, <2>2 DEF InTurn, Tracked, Tracks
<1>5. ASSUME NEW s \in Slot, Tracks(s, d)
      PROVE  Known(d) /\ ReadOf(pending[s]) = NextRead(d)
  BY <1>3, <1>4, <1>5 DEF ReadOf, NextRead
<1>6. ASSUME NEW s \in Slot, NEW t \in Slot, Tracks(s, d), Tracks(t, d)
      PROVE  s = t
  <2>1. pending[s].chunk = pending[t].chunk
    BY <1>4, <1>6
  <2>2. QED
    BY <1>1, <1>6, <2>1 DEF InTurn, Tracked
<1>7. QED
  BY <1>5, <1>6

(* A finite set is listed by SetToSeq, each member once.                   *)
LEMMA SlotsListed ==
  ASSUME NEW S, IsFiniteSet(S)
  PROVE  /\ SetToSeq(S) \in [1..Cardinality(S) -> S]
         /\ Cardinality(S) \in Nat
         /\ \A i, j \in 1..Cardinality(S) : SetToSeq(S)[i] = SetToSeq(S)[j] => i = j
<1> DEFINE n == Cardinality(S)
<1>1. n \in Nat /\ ExistsBijection(1..n, S)
  BY FS_CardinalityType
<1>2. PICK f \in Bijection(1..n, S) : TRUE
  BY <1>1 DEF ExistsBijection
<1>3. f \in [1..n -> S] /\ IsInjective(f)
  BY <1>2 DEF Bijection, Injection, IsInjective
<1>4. SetToSeq(S) \in [1..n -> S] /\ IsInjective(SetToSeq(S))
  BY <1>3 DEF SetToSeq
<1>5. QED
  BY <1>1, <1>4 DEF IsInjective

LEMMA InOrderNone == DOMAIN InOrder({}) = {}
<1>1. Cardinality({}) = 0 /\ 1..0 = {}
  BY FS_EmptySet
<1> DEFINE none == [i \in 1..0 |-> i]
<1>2. none \in [1..Cardinality({}) -> {}] /\ \A i, j \in DOMAIN none : i < j => none[i] < none[j]
  BY <1>1
<1> HIDE DEF none
<1>3. InOrder({}) \in [1..Cardinality({}) -> {}]
  BY <1>2 DEF InOrder
<1>4. QED
  BY <1>1, <1>3

LEMMA InOrderOne ==
  ASSUME NEW i
  PROVE  DOMAIN InOrder({i}) = {1} /\ InOrder({i})[1] = i
<1>1. Cardinality({i}) = 1 /\ 1..1 = {1}
  BY FS_Singleton
<1> DEFINE one == [k \in 1..1 |-> i]
<1>2. one \in [1..Cardinality({i}) -> {i}] /\ \A k, j \in DOMAIN one : k < j => one[k] < one[j]
  BY <1>1
<1> HIDE DEF one
<1>3. InOrder({i}) \in [1..Cardinality({i}) -> {i}]
  BY <1>2 DEF InOrder
<1>4. QED
  BY <1>1, <1>3

(* The host writes a device the one read that is for it.                   *)
LEMMA SentReads ==
  ASSUME NEW reads, SendReads(reads), NEW d \in Addr, requests[d] \in Seq(RequestFrame)
  PROVE  /\ FramesOf(reads, d) = {} => requests'[d] = requests[d]
         /\ \A i : FramesOf(reads, d) = {i} /\ requests[d] = << >> =>
                     requests'[d] = << ReadFrame(reads[i]) >>
<1> DEFINE own == InOrder(FramesOf(reads, d))
           sent == [i \in DOMAIN own |-> ReadFrame(reads[own[i]])]
<1>1. requests'[d] = requests[d] \o sent
  BY DEF SendReads, FramesOf
<1>2. CASE FramesOf(reads, d) = {}
  <2>1. DOMAIN own = {}
    BY <1>2, InOrderNone
  <2>2. sent = << >>
    BY <2>1
  <2>3. requests[d] \o << >> = requests[d]
    OBVIOUS
  <2> HIDE DEF sent
  <2>4. QED
    BY <1>1, <1>2, <2>2, <2>3
<1>3. ASSUME NEW i, FramesOf(reads, d) = {i}, requests[d] = << >>
      PROVE  requests'[d] = << ReadFrame(reads[i]) >>
  <2>1. DOMAIN own = {1} /\ own[1] = i
    BY <1>3, InOrderOne
  <2> HIDE DEF own
  <2>2. PICK frame : frame = ReadFrame(reads[i])
    OBVIOUS
  <2>3. sent = [k \in {1} |-> frame]
    BY <2>1, <2>2
  <2>4. << frame >> = [k \in {1} |-> frame]
    OBVIOUS
  <2>5. << >> \o << frame >> = << frame >>
    OBVIOUS
  <2> HIDE DEF sent
  <2>6. QED
    BY <1>1, <1>3, <2>2, <2>3, <2>4, <2>5
<1>4. QED
  BY <1>2, <1>3

(* drain_all returns at most one read of a device, its next one, and only  *)
(* when nothing else of it is under way.                                   *)
DrainedOnce(reads, d) ==
  \/ FramesOf(reads, d) = {} /\ FramesOf(output, d) = {}
  \/ /\ \E i : FramesOf(reads, d) = {i} /\ reads[i] = NextRead(d)
     /\ Known(d) /\ requests[d] = << >> /\ FramesOf(replies, d) = {}

LEMMA RetriedOnce ==
  ASSUME AssemblyInv, ChunksFit, Retried # {}, NEW d \in Addr
  PROVE  DrainedOnce(Drained, d)
<1>1. Silent
  BY DEF Retried, AssemblyInv, QuietWhenDue
<1>2. IsFiniteSet(Retried) /\ Retried \subseteq Slot
  BY FS_Subset DEF Retried, ChunksFit
<1> DEFINE n == Cardinality(Retried)
           list == SetToSeq(Retried)
           again == [i \in 1..n |-> ReadOf(pending[list[i]])]
<1>3. /\ list \in [1..n -> Retried] /\ n \in Nat
      /\ \A i, j \in 1..n : list[i] = list[j] => i = j
  BY <1>2, SlotsListed
<1> HIDE DEF n, list
<1>4. \A s \in Retried : /\ s \in Slot /\ pending[s] \in Request /\ pending[s] # NoRequest
                         /\ ReadOf(pending[s]) \in Read /\ ReadOf(pending[s]).dev = pending[s].dev
  <2>1. ASSUME NEW s \in Retried
        PROVE  s \in Slot /\ pending[s] \in Request /\ pending[s] # NoRequest
    BY <2>1, LinkFacts DEF Retried, Due
  <2>2. QED
    BY <2>1 DEF ReadOf, Read, Request
<1>5. again \in Seq(Read) /\ DOMAIN again = 1..n
  BY <1>3, <1>4
<1>6. Drained = again
  <2>1. Drained = again \o output
    BY DEF Drained, n, list
  <2>2. output = << >>
    BY <1>1 DEF Silent
  <2>3. again \o << >> = again
    <3> HIDE DEF again
    <3>1. QED
      BY <1>5
  <2> HIDE DEF again
  <2>4. QED
    BY <2>1, <2>2, <2>3
<1>7. ASSUME NEW i \in FramesOf(again, d)
      PROVE  /\ i \in 1..n /\ list[i] \in Slot /\ Tracks(list[i], d)
             /\ again[i] = ReadOf(pending[list[i]])
  <2>1. i \in 1..n /\ again[i].dev = d /\ again[i] = ReadOf(pending[list[i]])
    BY <1>7 DEF FramesOf
  <2>2. list[i] \in Retried
    BY <1>3, <2>1
  <2>3. pending[list[i]].dev = d
    BY <1>4, <2>1, <2>2
  <2>4. QED
    BY <1>4, <2>1, <2>2, <2>3 DEF Tracks
<1> HIDE DEF again
<1>8. ASSUME NEW i \in FramesOf(again, d), NEW j \in FramesOf(again, d) PROVE i = j
  <2>1. list[i] = list[j]
    BY <1>1, <1>7, <1>8, TrackedInSilence
  <2>2. QED
    BY <1>3, <1>7, <1>8, <2>1
<1>9. \A i \in FramesOf(again, d) : Known(d) /\ again[i] = NextRead(d)
  BY <1>1, <1>7, TrackedInSilence
<1>10. FramesOf(output, d) = {} /\ FramesOf(replies, d) = {} /\ requests[d] = << >>
  BY <1>1 DEF Silent, FramesOf
<1>11. FramesOf(again, d) = {} \/ \E i \in FramesOf(again, d) : FramesOf(again, d) = {i}
  BY <1>8
<1>12. QED
  BY <1>6, <1>9, <1>10, <1>11 DEF DrainedOnce

LEMMA OutputOnce ==
  ASSUME AssemblyInv, Retried = {}, NEW d \in Addr
  PROVE  DrainedOnce(Drained, d)
<1>1. Drained = output
  <2>1. Cardinality(Retried) = 0
    BY FS_EmptySet
  <2> DEFINE again == [i \in 1..Cardinality(Retried) |-> ReadOf(pending[SetToSeq(Retried)[i]])]
  <2>2. Drained = again \o output
    BY DEF Drained
  <2>3. again = << >>
    BY <2>1
  <2>4. output \in Seq(Read)
    BY LinkFacts
  <2>5. << >> \o output = output
    BY <2>4
  <2> HIDE DEF again
  <2>6. QED
    BY <2>2, <2>3, <2>5
<1>2. OneFrame(d) /\ Awaited(d)
  BY LinkFacts DEF InTurn
<1>3. FramesOf(output, d) = {} \/ \E i \in FramesOf(output, d) : FramesOf(output, d) = {i}
  BY <1>2 DEF OneFrame, AtMostOne
<1>4. QED
  BY <1>1, <1>2, <1>3 DEF OneFrame, Awaited, DrainedOnce

LEMMA SendDrainedStep ==
  ASSUME AssemblyInv, ChunksFit, SendDrained
  PROVE  /\ QuietWhenDue' /\ \A e \in Addr : InTurn(e)'
         /\ \A e \in Addr : requests'[e] \in Seq(RequestFrame)
<1>1. /\ UNCHANGED <<devices, asm, replies>> /\ output' = << >>
      /\ pending' = [s \in Slot |-> Expire(pending[s])]
  BY DEF SendDrained, DrainAll
<1>2. QuietWhenDue'
  BY <1>1, LinkFacts, NoneDue DEF ChunksFit, QuietWhenDue
<1>3. PICK reads : reads = Drained /\ SendReads(reads)
  BY DEF SendDrained
<1>4. ASSUME NEW e \in Addr PROVE InTurn(e)' /\ requests'[e] \in Seq(RequestFrame)
  <2>1. KeepsTracks(e)
    BY <1>1, LinkFacts, ExpireAlike DEF KeepsTracks, Tracks
  <2>2. Stays(e) /\ InTurn(e) /\ requests[e] \in Seq(RequestFrame)
    BY <1>1, LinkFacts DEF Stays
  <2>3. DrainedOnce(reads, e)
    BY <1>3, RetriedOnce, OutputOnce
  <2>4. FramesOf(output', e) = {}
    BY <1>1 DEF FramesOf
  <2>5. CASE FramesOf(reads, e) = {} /\ FramesOf(output, e) = {}
    <3>1. requests'[e] = requests[e]
      BY <1>3, <2>2, <2>5, SentReads
    <3>2. Passes(output, output', e)
      BY <2>4, <2>5 DEF Passes, AtMostOne
    <3>3. QED
      BY <1>1, <2>1, <2>2, <3>1, <3>2, SamePasses, Bystander
  <2>6. ASSUME NEW i, FramesOf(reads, e) = {i}, reads[i] = NextRead(e),
               Known(e), requests[e] = << >>, FramesOf(replies, e) = {}
        PROVE  InTurn(e)' /\ requests'[e] \in Seq(RequestFrame)
    <3>1. requests'[e] = << ReadFrame(NextRead(e)) >>
      <4>1. \A j : FramesOf(reads, e) = {j} /\ requests[e] = << >> =>
                      requests'[e] = << ReadFrame(reads[j]) >>
        BY <1>3, <2>2, SentReads, Zenon
      <4>2. requests'[e] = << ReadFrame(reads[i]) >>
        BY <2>6, <4>1, Zenon
      <4>3. QED
        BY <2>6, <4>2, Zenon
    <3>2. PICK frame : frame = ReadFrame(NextRead(e))
      OBVIOUS
    <3>3. requests'[e] = << frame >>
      BY <3>1, <3>2
    <3>4. DOMAIN requests'[e] = {1} /\ requests'[e][1] = frame /\ requests'[e] # << >>
      BY <3>3
    <3>5. OneFrame(e)' /\ OnLine(e)'
      BY <1>1, <2>4, <2>6, <3>4 DEF OneFrame, OnLine, AtMostOne
    <3>6. Awaited(e)'
      <4>1. Known(e)' /\ ReadFrame(NextRead(e))' = frame
        BY <2>2, <2>6, <3>2, StaysSame
      <4>2. FramesOf(replies', e) = {}
        BY <1>1, <2>6
      <4>3. QED
        BY <2>4, <3>4, <4>1, <4>2 DEF Awaited
    <3>7. InTurn(e)'
      BY <2>1, <2>2, <3>5, <3>6, Onward
    <3>8. frame \in RequestFrame
      BY <2>6, <3>2, NextReadType DEF RequestFrame
    <3>9. QED
      BY <3>3, <3>7, <3>8
  <2>7. QED
    BY <2>3, <2>5, <2>6 DEF DrainedOnce
<1>5. QED
  BY <1>2, <1>4

-----------------------------------------------------------------------------
(* A packet is received. *)

(* The request r is tracked in slot s, and its read is queued if there is  *)
(* room for it.                                                            *)
Takes(q, after, r, s) ==
  /\ q.requests[s] = NoRequest
  /\ \A t \in Slot : after.requests[t] = IF t = s THEN r ELSE q.requests[t]
  /\ after.packets = q.packets \/ Longer(after.packets, q.packets, ReadOf(r))

LEMMA EnqueueTakes ==
  ASSUME NEW table, NEW q, QueuesOK(q, table), NEW r \in Request
  PROVE  /\ Enqueue(q, r) = q \/ \E s \in Slot : Takes(q, Enqueue(q, r), r, s)
         /\ FreeSlots(q.requests) # {} /\ Len(q.packets) < MaxOutput =>
              \E s \in Slot : /\ Takes(q, Enqueue(q, r), r, s)
                              /\ Longer(Enqueue(q, r).packets, q.packets, ReadOf(r))
<1>1. CASE FreeSlots(q.requests) = {}
  BY <1>1 DEF Enqueue
<1>2. CASE FreeSlots(q.requests) # {}
  <2> DEFINE free     == CHOOSE s \in Slot : q.requests[s] = NoRequest
             requests1 == [q.requests EXCEPT ![free] = r]
             packets1 == IF Len(q.packets) < MaxOutput
                           THEN Append(q.packets, ReadOf(r)) ELSE q.packets
  <2>1. free \in Slot /\ q.requests[free] = NoRequest
    BY <1>2 DEF FreeSlots
  <2>2. Enqueue(q, r) = [requests |-> requests1, packets |-> packets1]
    BY <1>2 DEF Enqueue
  <2> HIDE DEF free
  <2>3. \A t \in Slot : requests1[t] = IF t = free THEN r ELSE q.requests[t]
    BY <2>1 DEF QueuesOK
  <2>4. ReadOf(r) \in Read /\ q.packets \in Seq(Read)
    BY DEF QueuesOK, ReadOf, Read, Request
  <2>5. PICK x \in Read : x = ReadOf(r)
    BY <2>4
  <2>6. Longer(Append(q.packets, x), q.packets, x)
    BY <2>4 DEF Longer
  <2>7. \/ packets1 = q.packets /\ ~ (Len(q.packets) < MaxOutput)
        \/ Longer(packets1, q.packets, ReadOf(r))
    BY <2>5, <2>6
  <2> HIDE DEF requests1, packets1
  <2>8. Enqueue(q, r).requests = requests1 /\ Enqueue(q, r).packets = packets1
    BY <2>2
  <2>9. QED
    BY <2>1, <2>3, <2>7, <2>8 DEF Takes
<1>3. QED
  BY <1>1, <1>2

(* What is tracked of d is r, at most once; the others are as they were.   *)
Turns(requests1, packets1, d, r) ==
  /\ \A s \in Slot : \/ requests1[s] = NoRequest
                     \/ requests1[s] = r
                     \/ requests1[s] = pending[s] /\ pending[s].dev # d
  /\ \A s, t \in Slot : requests1[s] = r /\ requests1[t] = r => s = t
  /\ packets1 = output \/ Longer(packets1, output, ReadOf(r))

LEMMA TakesTurns ==
  ASSUME NEW q, NEW d, NEW r, r # NoRequest, r.dev = d,
         q = Queues \/ \E s \in Slot : Takes(Queues, q, r, s),
         NEW p, p # r.param, \A s \in Slot : Tracks(s, d) => pending[s].param = p,
         NEW left, \A s \in Slot : left[s] = IF s \in Asked(q.requests, d, p)
                                               THEN NoRequest ELSE q.requests[s]
  PROVE  Turns(left, q.packets, d, r)
<1>1. Queues.requests = pending /\ Queues.packets = output
  BY DEF Queues
<1>2. \A s \in Slot : pending[s] # r
  BY DEF Tracks
<1>3. CASE q = Queues
  BY <1>1, <1>2, <1>3 DEF Turns, Asked, Tracks
<1>4. ASSUME NEW free \in Slot, Takes(Queues, q, r, free)
      PROVE  Turns(left, q.packets, d, r)
  <2>1. /\ \A t \in Slot : q.requests[t] = IF t = free THEN r ELSE pending[t]
        /\ q.packets = output \/ Longer(q.packets, output, ReadOf(r))
    BY <1>1, <1>4 DEF Takes
  <2>2. \A s \in Slot : \/ left[s] = NoRequest
                        \/ left[s] = r
                        \/ left[s] = pending[s] /\ pending[s].dev # d
    BY <2>1 DEF Asked, Tracks
  <2>3. \A s \in Slot : left[s] = r => s = free
    BY <1>2, <2>1
  <2>4. QED
    BY <2>1, <2>2, <2>3 DEF Turns
<1>5. QED
  BY <1>3, <1>4

(* An entry is stored: the next parameter is asked, and the requests for   *)
(* the one that was stored are forgotten.                                  *)
LEMMA NextAfter ==
  ASSUME IInv, NEW d \in Addr, Known(d), NEW dev, DeviceOK(dev), NEW p \in Stored(dev),
         \A s \in Slot : Tracks(s, d) => pending[s].param = p
  PROVE  LET q == RemovePending(EnqueueNextParameter(Queues, d, dev), d, p) IN
         Turns(q.requests, q.packets, d, NewRequest(d, NextParameter(dev), 0))
<1> DEFINE next == EnqueueNextParameter(Queues, d, dev)
           w    == NextParameter(dev)
           r    == NewRequest(d, w, 0)
<1>1. QueuesOK(Queues, devices) /\ Queues.requests = pending /\ Queues.packets = output
  BY IInvParts DEF Queues
<1>2. dev \in Device /\ w \in ParamId
  BY NextParameterMissing DEF DeviceOK
<1>3. r \in Request /\ r # NoRequest /\ r.dev = d /\ r.param = w
  BY <1>2, NewRequestType
<1>4. QueuesOK(next, devices)
  BY <1>1, <1>2, EnqueueNextOK DEF Known
<1>5. RemovePending(next, d, p).packets = next.packets
  BY RemovePendingAsksNothing
<1>6. \A s \in Slot : RemovePending(next, d, p).requests[s] =
                       IF s \in Asked(next.requests, d, p) THEN NoRequest ELSE next.requests[s]
  <2> HIDE DEF next
  <2>1. QED
    BY <1>4 DEF RemovePending, QueuesOK
<1>7. CASE dev.loaded
  <2>1. next = Queues
    BY <1>7 DEF EnqueueNextParameter
  <2>2. \A s \in Slot : \/ RemovePending(next, d, p).requests[s] = NoRequest
                        \/ /\ RemovePending(next, d, p).requests[s] = pending[s]
                           /\ pending[s].dev # d
    BY <1>1, <1>6, <2>1 DEF Asked, Tracks
  <2>3. next.packets = output
    BY <1>1, <2>1
  <2> HIDE DEF next, r
  <2>4. Turns(RemovePending(next, d, p).requests, next.packets, d, r)
    BY <1>3, <2>2, <2>3 DEF Turns
  <2>5. QED
    BY <1>5, <2>4 DEF next, r
<1>8. CASE ~ dev.loaded
  <2>1. w # p
    BY <1>8, GapIsMissing
  <2>2. Asked(pending, d, w) = {}
    BY <2>1 DEF Asked, Tracks
  <2>3. next = Enqueue(Queues, r)
    BY <1>1, <1>8, <2>2 DEF EnqueueNextParameter
  <2> HIDE DEF next, r, w
  <2>4. next = Queues \/ \E s \in Slot : Takes(Queues, next, r, s)
    BY <1>1, <1>3, <2>3, EnqueueTakes
  <2>5. Turns(RemovePending(next, d, p).requests, next.packets, d, r)
    BY <1>3, <1>6, <2>1, <2>4, TakesTurns
  <2>6. QED
    BY <1>5, <2>5 DEF next, r, w
<1>9. QED
  BY <1>7, <1>8

LEMMA GapMissing ==
  ASSUME NEW d \in Addr, NEW dev \in Device, ShapedAs(d, dev)
  PROVE  NextParameter(dev) \notin Stored(dev)
<1> DEFINE missing == {p \in ParamId : p < dev.total /\ p \notin Stored(dev)}
<1>1. CASE missing = {}
  <2>1. NextParameter(dev) = Total(d)
    BY <1>1 DEF NextParameter, ShapedAs
  <2>2. QED
    BY <2>1, TotalType DEF ShapedAs, Numbers
<1>2. CASE missing # {}
  BY <1>2, NextParameterMissing
<1>3. QED
  BY <1>1, <1>2

(* A step that asks only for d, and once. *)
OnlyFor(d) ==
  /\ \A s \in Slot : \/ pending'[s] = NoRequest
                     \/ pending'[s] = pending[s]
                     \/ pending'[s].dev = d /\ ~ Due(pending'[s])
  /\ output' = output \/ \E x : x.dev = d /\ Longer(output', output, x)

LEMMA OnlyForOthers ==
  ASSUME NEW d, OnlyFor(d), NEW e, e # d
  PROVE  KeepsTracks(e) /\ Passes(output, output', e)
<1>1. KeepsTracks(e)
  BY DEF OnlyFor, KeepsTracks, Tracks
<1>2. Passes(output, output', e)
  BY LongerPasses, SamePasses DEF OnlyFor
<1>3. QED
  BY <1>1, <1>2

LEMMA OnlyForQuiet ==
  ASSUME AssemblyInv, NEW d, OnlyFor(d), replies # << >>
  PROVE  QuietWhenDue'
<1>1. \A s \in Slot : ~ Due(pending[s])
  BY DEF AssemblyInv, QuietWhenDue, Silent
<1>2. \A s \in Slot : ~ Due(pending'[s])
  BY <1>1 DEF OnlyFor, Due
<1>3. QED
  BY <1>2 DEF QuietWhenDue

LEMMA NewNotDue ==
  ASSUME Timeout > 0, NEW d, NEW p, NEW k
  PROVE  ~ Due(NewRequest(d, p, k))
<1>1. NewRequest(d, p, k).age = 0
  BY DEF NewRequest
<1>2. ~ (0 >= Timeout)
  BY TimingAssumption
<1>3. QED
  BY <1>1, <1>2 DEF Due

LEMMA TurnsOnlyFor ==
  ASSUME NEW d, NEW r, r.dev = d, ~ Due(r), Turns(pending', output', d, r)
  PROVE  OnlyFor(d)
<1>1. ReadOf(r).dev = d
  BY DEF ReadOf
<1>2. QED
  BY <1>1 DEF Turns, OnlyFor

(* The answer is in, and the next read, if any, is the only one of d.      *)
LEMMA TurnEnds ==
  ASSUME NEW d, Known(d)', Got(d)' = 0,
         FramesOf(output, d) = {}, requests'[d] = << >>, FramesOf(replies', d) = {},
         Turns(pending', output', d, NewRequest(d, Wanted(d)', 0))
  PROVE  OneFrame(d)' /\ Awaited(d)' /\ Tracked(d)'
<1>1. PICK r : r = NewRequest(d, Wanted(d)', 0)
  OBVIOUS
<1>2. r.dev = d /\ r.param = Wanted(d)' /\ r.chunk = 0 /\ ReadOf(r) = NextRead(d)'
  BY <1>1 DEF NewRequest, ReadOf, NextRead
<1>3. ReadOf(r).dev = d
  BY <1>2 DEF ReadOf
<1>4. Turns(pending', output', d, r)
  BY <1>1
<1>5. \/ FramesOf(output', d) = {}
      \/ \E i : FramesOf(output', d) = {i} /\ output'[i] = ReadOf(r)
  <2>1. output' = output \/ Longer(output', output, ReadOf(r))
    BY <1>4 DEF Turns
  <2>2. CASE output' = output
    BY <2>2
  <2>3. CASE Longer(output', output, ReadOf(r))
    <3>1. PICK x, after, before : x = ReadOf(r) /\ after = output' /\ before = output
      OBVIOUS
    <3>2. Longer(after, before, x) /\ x.dev = d /\ FramesOf(before, d) = {}
      BY <1>3, <2>3, <3>1
    <3>3. \E i : FramesOf(after, d) = {i} /\ after[i] = x
      BY ONLY <3>2, LongerOwn
    <3>4. QED
      BY <3>1, <3>3
  <2>4. QED
    BY <2>1, <2>2, <2>3
<1>6. OneFrame(d)'
  BY <1>5 DEF OneFrame, AtMostOne
<1>7. Awaited(d)'
  BY <1>2, <1>5 DEF Awaited
<1>8. Tracked(d)'
  <2>1. \A s \in Slot : Tracks(s, d)' => pending'[s] = r
    BY <1>4 DEF Turns, Tracks
  <2>2. \A s, t \in Slot : Tracks(s, d)' /\ Tracks(t, d)' => s = t
    BY <1>4, <2>1 DEF Turns
  <2>3. 0 \in 0..Got(d)'
    OBVIOUS
  <2>4. QED
    BY <1>2, <2>1, <2>2, <2>3 DEF Tracked
<1>9. QED
  BY <1>6, <1>7, <1>8

(* The wanted entry is stored as the device sent it. *)
LEMMA WantedStored ==
  ASSUME AssemblyInv, ChunksFit, NEW d \in Addr, Known(d), Wanted(d) \in Numbers(d)
  PROVE  LET dev == WithParameter(devices[d], Wanted(d), EntryOf(d, Wanted(d))) IN
         /\ DeviceOK(dev) /\ ShapedAs(d, dev)
         /\ Stored(dev) = Stored(devices[d]) \cup {Wanted(d)}
         /\ \A p \in Stored(dev) : dev.params[p] = EntryOf(d, p)
<1> DEFINE old == devices[d]
           p   == Wanted(d)
           dev == WithParameter(old, p, EntryOf(d, p))
<1>1. DeviceOK(old) /\ old \in Device /\ ShapedAs(d, old)
  BY LinkFacts, KnownOK DEF DeviceOK, AssemblyInv, LinkInv, Shaped
<1>2. p \in ParamId /\ EntryOf(d, p) \in Content /\ p \notin Stored(old)
  BY TotalType, LinkAssumption, WantedMissing
<1>3. Cardinality(Stored(old)) < MaxParameters
  <2>1. IsFiniteSet(Numbers(d)) /\ Cardinality(Numbers(d)) = Total(d)
    BY TotalType, FS_Interval DEF Numbers
  <2>2. IsFiniteSet(Numbers(d) \ {p}) /\ Cardinality(Numbers(d) \ {p}) = Total(d) - 1
    BY <2>1, FS_RemoveElement
  <2>3. Stored(old) \subseteq Numbers(d) \ {p}
    BY <1>1, <1>2 DEF ShapedAs
  <2>4. Cardinality(Stored(old)) <= Total(d) - 1
    BY <2>2, <2>3, FS_Subset
  <2>5. Total(d) <= MaxParameters /\ Total(d) \in Nat /\ MaxParameters \in Nat
    BY TotalType, CapacityAssumption DEF ChunksFit
  <2>6. QED
    BY <2>4, <2>5, StoredFinite
<1> DEFINE added == AddParameter(old, p, EntryOf(d, p))
<1>4. added = [old EXCEPT !.params[p] = EntryOf(d, p)]
  BY <1>3 DEF AddParameter
<1> HIDE DEF p, old
<1>5. added \in Device /\ added.params[p] = EntryOf(d, p)
  BY <1>1, <1>2, <1>4 DEF Device
<1> HIDE DEF added
<1>6. dev.params[p] = EntryOf(d, p)
  BY <1>5 DEF WithParameter, added, Device
<1>7. /\ DeviceOK(dev) /\ dev.total = old.total
      /\ Stored(dev) = Stored(old) \cup {p} \/ dev = old
  BY <1>1, <1>2, WithParameterOK
<1>8. p \in Stored(dev)
  <2>1. EntryOf(d, p) # Absent
    BY <1>2, ContentAssumption
  <2>2. QED
    BY <1>2, <1>6, <2>1 DEF Stored
<1>9. Stored(dev) = Stored(old) \cup {p}
  BY <1>2, <1>7, <1>8
<1>10. ASSUME NEW other \in Stored(dev) PROVE dev.params[other] = EntryOf(d, other)
  <2>1. CASE other = p
    BY <1>6, <2>1
  <2>2. CASE other # p
    <3>1. other \in ParamId /\ other \in Stored(old)
      BY <1>9, <1>10, <2>2 DEF Stored
    <3>2. dev.params[other] = old.params[other]
      BY <1>1, <1>2, <2>2, <3>1, WithParameterParams
    <3>3. old.params[other] = EntryOf(d, other)
      BY <3>1 DEF AssemblyInv, Faithful, old
    <3>4. QED
      BY <3>2, <3>3
  <2>3. QED
    BY <2>1, <2>2
<1>11. ShapedAs(d, dev)
  <2>1. Stored(dev) \subseteq Numbers(d)
    BY <1>1, <1>9 DEF ShapedAs, p
  <2>2. QED
    BY <1>1, <1>7, <1>10, <2>1 DEF ShapedAs
<1>12. QED
  BY <1>7, <1>9, <1>10, <1>11 DEF p, old

(* There is room for the request of one chunk more. *)
LEMMA KnownOnesFinite ==
  ASSUME AssemblyInv, NEW d \in Addr, Known(d)
  PROVE  /\ IsFiniteSet(KnownOnes \ {d})
         /\ Cardinality(KnownOnes \ {d}) \in Nat /\ Cardinality(KnownOnes \ {d}) < MaxDevices
<1>1. IsFiniteSet(KnownOnes) /\ d \in KnownOnes
  BY AddrAssumption, FS_Subset DEF KnownOnes
<1>2. /\ IsFiniteSet(KnownOnes \ {d})
      /\ Cardinality(KnownOnes \ {d}) = Cardinality(KnownOnes) - 1
  BY <1>1, FS_RemoveElement
<1>3. Cardinality(KnownOnes) \in Nat /\ Cardinality(KnownOnes \ {d}) \in Nat /\ MaxDevices \in Nat
  BY <1>1, <1>2, FS_CardinalityType, CapacityAssumption
<1>4. QED
  BY <1>2, <1>3 DEF AssemblyInv

LEMMA SlotToSpare ==
  ASSUME AssemblyInv, ChunksFit, NEW d \in Addr, Known(d), ~ Plain(d), Got(d) + 2 <= MaxChunks
  PROVE  FreeSlots(pending) # {}
<1> SUFFICES ASSUME FreeSlots(pending) = {} PROVE FALSE
  OBVIOUS
<1> DEFINE Others == (KnownOnes \ {d}) \X {0}
           Own    == {d} \X (0..Got(d))
           f      == [s \in Slot |-> <<pending[s].dev, pending[s].chunk>>]
<1>1. Got(d) \in Nat
  BY NextReadType
<1>2. ASSUME NEW s \in Slot
      PROVE  /\ pending[s] \in Request /\ pending[s] # NoRequest
             /\ Tracks(s, pending[s].dev) /\ pending[s].dev \in KnownOnes
             /\ Tracked(pending[s].dev)
  <2>1. pending[s] # NoRequest /\ pending[s] \in Request
    BY LinkFacts DEF FreeSlots
  <2>2. pending[s].dev \in Addr
    BY <2>1 DEF Request
  <2>3. Known(pending[s].dev)
    BY <2>1, LinkFacts, PendingFacts DEF Known
  <2>4. QED
    BY <2>1, <2>2, <2>3, LinkFacts DEF Tracks, KnownOnes, InTurn
<1>3. ASSUME NEW s \in Slot
      PROVE  f[s] \in Others \cup Own
  <2>1. pending[s].chunk \in 0..Got(pending[s].dev)
    BY <1>2 DEF Tracked
  <2>2. CASE pending[s].dev = d
    BY <2>1, <2>2
  <2>3. CASE pending[s].dev # d
    <3>1. Plain(pending[s].dev)
      BY <1>2, <2>3 DEF ChunksFit, KnownOnes
    <3>2. pending[s].chunk = 0
      BY <2>1, <3>1 DEF Got
    <3>3. QED
      BY <1>2, <2>3, <3>2
  <2>4. QED
    BY <2>2, <2>3
<1>4. ASSUME NEW s \in Slot, NEW t \in Slot, f[s] = f[t]
      PROVE  s = t
  <2>1. pending[s].dev = pending[t].dev /\ pending[s].chunk = pending[t].chunk
    BY <1>4
  <2>2. QED
    BY <1>2, <2>1 DEF Tracked
<1>5. f \in Injection(Slot, Others \cup Own)
  <2>1. f \in [Slot -> Others \cup Own]
    BY <1>3
  <2> HIDE DEF f, Others, Own
  <2>2. QED
    BY <1>4, <2>1 DEF Injection, IsInjective
<1>6. /\ IsFiniteSet(Others) /\ Cardinality(Others) = Cardinality(KnownOnes \ {d})
      /\ Cardinality(Others) \in Nat
  <2>1. IsFiniteSet({0}) /\ Cardinality({0}) = 1
    BY FS_Singleton
  <2>2. IsFiniteSet(Others) /\ Cardinality(Others) = Cardinality(KnownOnes \ {d}) * 1
    BY <2>1, KnownOnesFinite, FS_Product
  <2> HIDE DEF Others
  <2>3. QED
    BY <2>2, KnownOnesFinite
<1>7. IsFiniteSet(Own) /\ Cardinality(Own) = Got(d) + 1
  <2>1. IsFiniteSet({d}) /\ Cardinality({d}) = 1
    BY FS_Singleton
  <2>2. IsFiniteSet(0..Got(d)) /\ Cardinality(0..Got(d)) = Got(d) + 1
    BY <1>1, FS_Interval
  <2>3. IsFiniteSet(Own) /\ Cardinality(Own) = Cardinality({d}) * Cardinality(0..Got(d))
    BY <2>1, <2>2, FS_Product, Zenon
  <2> HIDE DEF Own
  <2>4. QED
    BY <1>1, <2>1, <2>2, <2>3
<1> HIDE DEF Others, Own, f
<1>8. /\ IsFiniteSet(Others \cup Own)
      /\ Cardinality(Others \cup Own) <= Cardinality(KnownOnes \ {d}) + Got(d) + 1
  <2>1. IsFiniteSet(Others \cap Own)
    BY <1>6, FS_Intersection
  <2>2. Cardinality(Others \cap Own) \in Nat
    BY <2>1, FS_CardinalityType
  <2>3. /\ IsFiniteSet(Others \cup Own)
        /\ Cardinality(Others \cup Own)
             = Cardinality(Others) + Cardinality(Own) - Cardinality(Others \cap Own)
    BY <1>6, <1>7, FS_Union
  <2>4. QED
    BY <1>1, <1>6, <1>7, <2>2, <2>3
<1>9. Cardinality(Slot) <= Cardinality(Others \cup Own)
  BY <1>5, <1>8, FS_Injection
<1>10. Cardinality(Slot) \in Nat /\ Cardinality(Others \cup Own) \in Nat
  BY <1>8, FS_CardinalityType DEF ChunksFit
<1>11. /\ MaxDevices + MaxChunks <= Cardinality(Slot) + 1
       /\ MaxDevices \in Nat /\ MaxChunks \in Nat
       /\ Cardinality(KnownOnes \ {d}) \in Nat /\ Cardinality(KnownOnes \ {d}) < MaxDevices
  BY KnownOnesFinite, CapacityAssumption DEF ChunksFit
<1>12. QED
  BY <1>1, <1>8, <1>9, <1>10, <1>11

LEMMA OutputToSpare ==
  ASSUME AssemblyInv, ChunksFit, NEW d \in Addr, Known(d), FramesOf(output, d) = {}
  PROVE  Len(output) < MaxOutput
<1> DEFINE f == [i \in 1..Len(output) |-> output[i].dev]
<1>1. output \in Seq(Read) /\ Len(output) \in Nat /\ DOMAIN output = 1..Len(output)
  BY LinkFacts
<1>2. ASSUME NEW i \in 1..Len(output)
      PROVE  /\ output[i].dev \in KnownOnes \ {d}
             /\ i \in FramesOf(output, output[i].dev)
             /\ AtMostOne(FramesOf(output, output[i].dev))
  <2>1. output[i] \in Read /\ output[i].dev \in Addr
    <3>1. output[i] \in Read
      BY <1>1
    <3>2. QED
      BY <3>1 DEF Read
  <2>2. i \in FramesOf(output, output[i].dev)
    BY <1>1 DEF FramesOf
  <2>3. Known(output[i].dev) /\ AtMostOne(FramesOf(output, output[i].dev))
    BY <2>1, <2>2, LinkFacts DEF InTurn, Awaited, OneFrame
  <2>4. QED
    BY <2>1, <2>2, <2>3 DEF KnownOnes
<1>3. ASSUME NEW i \in 1..Len(output), NEW j \in 1..Len(output), f[i] = f[j]
      PROVE  i = j
  <2>1. output[i].dev = output[j].dev
    BY <1>3
  <2>2. QED
    BY <1>2, <2>1 DEF AtMostOne
<1>4. f \in Injection(1..Len(output), KnownOnes \ {d})
  <2>1. f \in [1..Len(output) -> KnownOnes \ {d}]
    BY <1>2
  <2> HIDE DEF f
  <2>2. QED
    BY <1>3, <2>1 DEF Injection, IsInjective
<1> HIDE DEF f
<1>5. Cardinality(1..Len(output)) <= Cardinality(KnownOnes \ {d})
  BY <1>4, KnownOnesFinite, FS_Injection
<1>6. Cardinality(1..Len(output)) = Len(output)
  <2>1. \A n \in Nat : Cardinality(1..n) = n
    BY FS_Interval
  <2>2. QED
    BY <1>1, <2>1
<1>7. MaxOutput \in Nat /\ MaxDevices \in Nat /\ MaxDevices <= MaxOutput
  BY CapacityAssumption DEF ChunksFit
<1>8. /\ Len(output) <= Cardinality(KnownOnes \ {d})
      /\ Cardinality(KnownOnes \ {d}) \in Nat /\ Cardinality(KnownOnes \ {d}) < MaxDevices
  BY <1>5, <1>6, KnownOnesFinite, Zenon
<1>9. QED
  BY <1>1, <1>7, <1>8

(* A device is announced. *)
LEMMA AnnounceTurns ==
  ASSUME IInv, NEW d \in Addr, ~ Known(d)
  PROVE  LET q == EnqueueNextParameter(Queues, d, NewDevice(Total(d))) IN
         Turns(q.requests, q.packets, d, NewRequest(d, NextParameter(NewDevice(Total(d))), 0))
<1> DEFINE dev == NewDevice(Total(d))
           w   == NextParameter(dev)
           r   == NewRequest(d, w, 0)
           q   == EnqueueNextParameter(Queues, d, dev)
<1>1. QueuesOK(Queues, devices) /\ Queues.requests = pending /\ Queues.packets = output
  BY IInvParts DEF Queues
<1>2. dev \in Device /\ ~ dev.loaded /\ w \in ParamId
  BY TotalType, NewDeviceOK, NextParameterMissing DEF DeviceOK
<1>3. r \in Request /\ r # NoRequest /\ r.dev = d
  BY <1>2, NewRequestType
<1>4. \A s \in Slot : ~ Tracks(s, d)
  BY PendingFacts DEF Tracks, Known
<1>5. q = Enqueue(Queues, r)
  BY <1>1, <1>2, <1>4 DEF EnqueueNextParameter, Asked, Tracks
<1> HIDE DEF q, r, w, dev
<1>6. q = Queues \/ \E s \in Slot : Takes(Queues, q, r, s)
  BY <1>1, <1>3, <1>5, EnqueueTakes
<1>7. ASSUME q = Queues
      PROVE  Turns(q.requests, q.packets, d, r)
  <2>1. q.requests = pending /\ q.packets = output
    BY <1>1, <1>7
  <2>2. \A s \in Slot : pending[s] # r /\ (pending[s] = NoRequest \/ pending[s].dev # d)
    BY <1>3, <1>4 DEF Tracks
  <2>3. Turns(pending, output, d, r)
    BY <2>2 DEF Turns
  <2>4. QED
    BY <2>1, <2>3
<1>8. ASSUME NEW free \in Slot, Takes(Queues, q, r, free)
      PROVE  Turns(q.requests, q.packets, d, r)
  <2>1. /\ \A t \in Slot : q.requests[t] = IF t = free THEN r ELSE pending[t]
        /\ q.packets = output \/ Longer(q.packets, output, ReadOf(r))
    BY <1>1, <1>8 DEF Takes
  <2>2. \A s \in Slot : pending[s] # r
    BY <1>3, <1>4 DEF Tracks
  <2>3. \A s \in Slot : q.requests[s] = r => s = free
    BY <2>1, <2>2
  <2>4. QED
    BY <1>4, <2>1, <2>3 DEF Turns, Tracks
<1>9. Turns(q.requests, q.packets, d, r)
  BY <1>6, <1>7, <1>8
<1>10. QED
  BY <1>9 DEF q, r, w, dev

LEMMA InfoStep ==
  ASSUME AssemblyInv, ChunksFit, NEW d \in Addr, ~ Known(d), HandleDeviceInfo(d, Total(d)),
         FramesOf(output, d) = {}, requests'[d] = << >>, FramesOf(replies', d) = {}
  PROVE  /\ InTurn(d)' /\ OnlyFor(d) /\ Faithful'
         /\ asm' = asm /\ Cardinality(KnownOnes') <= MaxDevices
         /\ \A e \in Addr : e # d => devices'[e] = devices[e]
<1> DEFINE dev == NewDevice(Total(d))
<1>1. asm' = asm
  BY DEF HandleDeviceInfo
<1>2. InTurn(d) /\ IInv /\ devices \in [Addr -> Device \cup {NoDevice}]
  BY LinkFacts DEF IInv, TypeOK
<1>3. IsIdle(asm) \/ Plain(d)
  BY <1>2 DEF InTurn, Assembled
<1>4. IsFiniteSet(KnownOnes) /\ d \notin KnownOnes
  BY AddrAssumption, FS_Subset DEF KnownOnes
<1>5. CASE UNCHANGED <<devices, pending, output>>
  <2>1. Stays(d) /\ KeepsTracks(d)
    BY <1>1, <1>5 DEF Stays, KeepsTracks, Tracks
  <2>2. FramesOf(output', d) = {}
    BY <1>5
  <2>3. InTurn(d)'
    BY <1>2, <1>3, <2>1, <2>2, Departs
  <2>4. OnlyFor(d)
    BY <1>5 DEF OnlyFor
  <2>5. Faithful' /\ KnownOnes' = KnownOnes
    BY <1>5 DEF AssemblyInv, Faithful, Known, KnownOnes
  <2>6. QED
    BY <1>1, <1>5, <2>3, <2>4, <2>5 DEF AssemblyInv
<1>6. CASE /\ Cardinality({a \in Addr : Known(a)}) < MaxDevices
           /\ devices' = [devices EXCEPT ![d] = dev]
           /\ SetQueues(EnqueueNextParameter(Queues, d, dev))
  <2>1. dev \in Device /\ Stored(dev) = {}
    BY TotalType, NewDeviceOK DEF DeviceOK
  <2> HIDE DEF dev
  <2>2. devices'[d] = dev /\ \A e \in Addr : e # d => devices'[e] = devices[e]
    BY <1>2, <1>6
  <2>3. Known(d)' /\ Wanted(d)' = NextParameter(dev)
    BY <2>1, <2>2, NullAssumption DEF Known, Wanted
  <2>4. Turns(pending', output', d, NewRequest(d, NextParameter(dev), 0))
    BY <1>2, <1>6, AnnounceTurns DEF SetQueues, dev
  <2>5. Got(d)' = 0
    BY <1>1, <1>3 DEF Got, IsIdle
  <2>6. OneFrame(d)' /\ Awaited(d)' /\ Tracked(d)'
    BY <2>3, <2>4, <2>5, TurnEnds
  <2>7. Assembled(d)'
    BY <1>1, <1>3 DEF Assembled
  <2>8. OnlyFor(d)
    <3>1. PICK r : r = NewRequest(d, NextParameter(dev), 0)
      OBVIOUS
    <3>2. r.dev = d /\ ~ Due(r)
      BY <3>1, NewNotDue DEF ChunksFit, NewRequest
    <3>3. QED
      BY <2>4, <3>1, <3>2, TurnsOnlyFor
  <2>9. Faithful'
    BY <2>1, <2>2 DEF AssemblyInv, Faithful, Known
  <2>10. Cardinality(KnownOnes') <= MaxDevices
    <3>1. KnownOnes' = KnownOnes \cup {d}
      BY <2>2, <2>3 DEF KnownOnes, Known
    <3>2. Cardinality(KnownOnes') = Cardinality(KnownOnes) + 1
      BY <1>4, <3>1, FS_AddElement
    <3>3. Cardinality(KnownOnes) \in Nat /\ MaxDevices \in Nat
      BY <1>4, FS_CardinalityType, CapacityAssumption
    <3>4. Cardinality(KnownOnes) < MaxDevices
      BY <1>6 DEF KnownOnes
    <3>5. QED
      BY <3>2, <3>3, <3>4
  <2>11. QED
    BY <1>1, <2>2, <2>6, <2>7, <2>8, <2>9, <2>10 DEF InTurn
<1>7. QED
  BY <1>5, <1>6 DEF HandleDeviceInfo

(* The wanted entry of d is in. *)
LEMMA StoreStep ==
  ASSUME AssemblyInv, ChunksFit, NEW d \in Addr, Known(d), NEW p, p = Wanted(d), p \in Numbers(d),
         FramesOf(output, d) = {}, requests'[d] = << >>, FramesOf(replies', d) = {},
         NEW dev, dev = WithParameter(devices[d], p, EntryOf(d, p)),
         devices' = [devices EXCEPT ![d] = dev],
         SetQueues(RemovePending(EnqueueNextParameter(Queues, d, dev), d, p)),
         ~ Plain(d) /\ ~ IsIdle(asm)' =>
           /\ asm'.param \in Numbers(d) /\ asm'.param \in Stored(dev)
           /\ asm'.chunks = [k \in 1..Len(asm'.chunks) |-> FragmentOf(d, asm'.param, k - 1)]
  PROVE  /\ InTurn(d)' /\ OnlyFor(d) /\ Faithful'
         /\ Cardinality(KnownOnes') <= MaxDevices
         /\ \A e \in Addr : e # d => devices'[e] = devices[e]
<1>1. InTurn(d) /\ IInv /\ devices \in [Addr -> Device \cup {NoDevice}]
  BY LinkFacts DEF IInv, TypeOK
<1>2. /\ DeviceOK(dev) /\ dev \in Device /\ ShapedAs(d, dev)
      /\ Stored(dev) = Stored(devices[d]) \cup {p}
      /\ \A q \in Stored(dev) : dev.params[q] = EntryOf(d, q)
  BY WantedStored DEF DeviceOK
<1>3. devices'[d] = dev /\ \A e \in Addr : e # d => devices'[e] = devices[e]
  BY <1>1
<1>4. Known(d)' /\ Wanted(d)' = NextParameter(dev) /\ Stored(devices[d])' = Stored(dev)
  BY <1>2, <1>3, NullAssumption DEF Known, Wanted
<1>5. Turns(pending', output', d, NewRequest(d, NextParameter(dev), 0))
  <2>1. \A s \in Slot : Tracks(s, d) => pending[s].param = p
    BY <1>1 DEF InTurn, Tracked
  <2>2. p \in Stored(dev)
    BY <1>2
  <2> DEFINE q == RemovePending(EnqueueNextParameter(Queues, d, dev), d, p)
  <2>3. Turns(q.requests, q.packets, d, NewRequest(d, NextParameter(dev), 0))
    BY <1>1, <1>2, <2>1, <2>2, NextAfter
  <2>4. pending' = q.requests /\ output' = q.packets
    BY DEF SetQueues
  <2> HIDE DEF q
  <2>5. QED
    BY <2>3, <2>4
<1>6. Got(d)' = 0
  <2>1. CASE Plain(d)
    BY <2>1 DEF Got
  <2>2. CASE IsIdle(asm)'
    BY <2>2 DEF Got, IsIdle
  <2>3. CASE ~ Plain(d) /\ ~ IsIdle(asm)'
    BY <1>2, <1>4, <2>3, GapMissing DEF Got
  <2>4. QED
    BY <2>1, <2>2, <2>3
<1>7. OneFrame(d)' /\ Awaited(d)' /\ Tracked(d)'
  BY <1>4, <1>5, <1>6, TurnEnds
<1>8. Assembled(d)'
  BY <1>4 DEF Assembled
<1>9. OnlyFor(d)
  <2>1. PICK r : r = NewRequest(d, NextParameter(dev), 0)
    OBVIOUS
  <2>2. r.dev = d /\ ~ Due(r)
    BY <2>1, NewNotDue DEF ChunksFit, NewRequest
  <2>3. QED
    BY <1>5, <2>1, <2>2, TurnsOnlyFor
<1>10. Faithful'
  BY <1>2, <1>3 DEF AssemblyInv, Faithful, Known
<1>11. KnownOnes' = KnownOnes
  BY <1>3, <1>4 DEF KnownOnes, Known
<1>12. QED
  BY <1>3, <1>7, <1>8, <1>9, <1>10, <1>11 DEF InTurn, AssemblyInv

(* The next chunk of the wanted entry of d comes in. *)
NextChunk(d) ==
  [param |-> Wanted(d), remaining |-> Chunks(d, Wanted(d)) - 1 - Got(d),
   payload |-> FragmentOf(d, Wanted(d), Got(d))]

Begun(d, p, n) == [i \in 1..n |-> FragmentOf(d, p, i - 1)]

LEMMA ChunkFits ==
  ASSUME AssemblyInv, ChunksFit, NEW d \in Addr, Known(d), Wanted(d) \in Numbers(d),
         Chunks(d, Wanted(d)) > 1, Got(d) < Chunks(d, Wanted(d)), NextChunk(d) \in Chunk
  PROVE  /\ Buffer(asm, NextChunk(d)).param = Wanted(d)
         /\ Buffer(asm, NextChunk(d)).chunks = Begun(d, Wanted(d), Got(d) + 1)
         /\ Len(Buffer(asm, NextChunk(d)).chunks) = Got(d) + 1
         /\ ~ Overflows(asm, NextChunk(d))
         /\ QueuesForChunk(d, NextChunk(d)) = Queues
<1> DEFINE p == Wanted(d)
           k == Got(d)
           chunk == NextChunk(d)
           admitted == Admit(asm, chunk)
<1>1. /\ k \in Nat /\ p \in ParamId /\ Chunks(d, p) \in Nat /\ Chunks(d, p) <= MaxChunks
      /\ MaxChunks \in Nat
  BY NextReadType, ChunksType, CapacityAssumption DEF ChunksFit
<1>2. ~ Plain(d) /\ chunk.param = p /\ chunk.payload = FragmentOf(d, p, k)
  BY <1>1 DEF Plain, NextChunk
<1>3. /\ asm \in Reassembler /\ asm.param \in ParamId /\ asm.chunks \in Seq(Fragment)
      /\ InTurn(d) /\ IInv
  BY LinkFacts DEF IInv, TypeOK, Reassembler
<1>4. chunk.payload \in Fragment
  BY DEF Chunk
<1>5. admitted.param = p /\ admitted.chunks = Begun(d, p, k) /\ Len(admitted.chunks) = k
      /\ admitted = [param |-> p, chunks |-> admitted.chunks] /\ admitted.chunks \in Seq(Fragment)
  <2>1. CASE IsIdle(asm) \/ asm.param # p
    <3>1. k = 0
      BY <2>1 DEF Got, IsIdle
    <3>2. admitted = [param |-> p, chunks |-> << >>]
      BY <1>2, <2>1 DEF Admit
    <3>3. Begun(d, p, 0) = << >>
      BY DEF Begun
    <3>4. QED
      BY <3>1, <3>2, <3>3
  <2>2. CASE ~ IsIdle(asm) /\ asm.param = p
    <3>1. k = Len(asm.chunks)
      BY <1>2, <2>2 DEF Got
    <3>2. admitted = asm
      BY <1>2, <2>2 DEF Admit
    <3>3. asm.chunks = Begun(d, p, k)
      BY <1>2, <1>3, <2>2, <3>1 DEF InTurn, Assembled, Begun
    <3>4. asm = [param |-> asm.param, chunks |-> asm.chunks]
      BY <1>3 DEF Reassembler
    <3>5. QED
      BY <1>3, <2>2, <3>1, <3>2, <3>3, <3>4
  <2>3. QED
    BY <2>1, <2>2
<1> HIDE DEF admitted
<1>6. /\ Buffer(asm, chunk).param = p
      /\ Buffer(asm, chunk).chunks = Append(admitted.chunks, chunk.payload)
  BY <1>5 DEF Buffer, admitted
<1>7. Append(admitted.chunks, chunk.payload) = Begun(d, p, k + 1)
  <2>1. PICK x, seq : x = chunk.payload /\ seq = admitted.chunks
    OBVIOUS
  <2>2. x = FragmentOf(d, p, k) /\ seq = Begun(d, p, k) /\ Len(seq) = k
        /\ seq \in Seq(Fragment) /\ x \in Fragment
    BY <1>2, <1>4, <1>5, <2>1
  <2>3. /\ DOMAIN Append(seq, x) = 1..(k + 1)
        /\ \A i \in 1..k : Append(seq, x)[i] = seq[i]
        /\ Append(seq, x)[k + 1] = x
    BY <2>2
  <2>7. Append(seq, x) = [i \in 1..(k + 1) |-> Append(seq, x)[i]]
    <3>1. PICK g : g = Append(seq, x)
      OBVIOUS
    <3>2. g \in Seq(Fragment) /\ DOMAIN g = 1..(k + 1)
      BY <2>2, <2>3, <3>1
    <3>3. \A h \in Seq(Fragment) : h = [i \in DOMAIN h |-> h[i]]
      OBVIOUS
    <3>4. QED
      BY <3>1, <3>2, <3>3
  <2>4. \A i \in 1..k : seq[i] = FragmentOf(d, p, i - 1)
    BY <2>2 DEF Begun
  <2>5. \A i \in 1..(k + 1) : Append(seq, x)[i] = FragmentOf(d, p, i - 1)
    <3>1. ASSUME NEW i \in 1..(k + 1) PROVE Append(seq, x)[i] = FragmentOf(d, p, i - 1)
      <4>1. CASE i \in 1..k
        BY <2>3, <2>4, <4>1
      <4>2. CASE i = k + 1
        <5>1. i - 1 = k
          BY <1>1, <4>2
        <5>2. QED
          BY <2>2, <2>3, <4>2, <5>1
      <4>3. i \in 1..k \/ i = k + 1
        BY <1>1
      <4>4. QED
        BY <4>1, <4>2, <4>3
    <3>2. QED
      BY <3>1
  <2>6. QED
    BY <2>1, <2>3, <2>5, <2>7 DEF Begun
<1>8. Len(Buffer(asm, chunk).chunks) = k + 1
  <2>1. \A n \in Nat : Len(Begun(d, p, n)) = n
    BY DEF Begun
  <2>2. QED
    BY <1>1, <1>6, <1>7, <2>1
<1>9. ~ Overflows(asm, chunk)
  BY <1>1, <1>5 DEF Overflows, ChunksReceived, admitted
<1>10. QueuesForChunk(d, chunk) = Queues
  <2>1. CASE ~ IsIdle(asm) /\ asm.param # chunk.param
    <3>1. Asked(pending, d, asm.param) = {}
      BY <1>2, <1>3, <2>1 DEF InTurn, Tracked, Asked, Tracks
    <3>2. pending = [s \in Slot |-> pending[s]]
      BY <1>3 DEF IInv, TypeOK
    <3>3. RemovePending(Queues, d, asm.param) = Queues
      BY <3>1, <3>2 DEF RemovePending, Queues
    <3>4. QED
      BY <2>1, <3>3 DEF QueuesForChunk
  <2>2. CASE ~ (~ IsIdle(asm) /\ asm.param # chunk.param)
    BY <2>2 DEF QueuesForChunk
  <2>3. QED
    BY <2>1, <2>2
<1>11. QED
  BY <1>6, <1>7, <1>8, <1>9, <1>10

(* One chunk of several: the next one is asked for, and there is room.     *)
LEMMA PartialStep ==
  ASSUME AssemblyInv, ChunksFit, NEW d \in Addr, Known(d), Wanted(d) \in Numbers(d),
         Chunks(d, Wanted(d)) > 1, Got(d) < Chunks(d, Wanted(d)), NextChunk(d) \in Chunk,
         HandlePartialChunk(d, NextChunk(d)),
         FramesOf(output, d) = {}, requests'[d] = << >>, FramesOf(replies', d) = {}
  PROVE  /\ InTurn(d)' /\ OnlyFor(d) /\ Faithful'
         /\ Cardinality(KnownOnes') <= MaxDevices
         /\ \A e \in Addr : e # d => devices'[e] = devices[e]
<1> DEFINE p == Wanted(d)
           k == Got(d)
<1>1. /\ k \in Nat /\ p \in ParamId /\ Chunks(d, p) \in Nat /\ Chunks(d, p) <= MaxChunks
      /\ MaxChunks \in Nat /\ ~ Plain(d)
  BY NextReadType, ChunksType, CapacityAssumption DEF ChunksFit, Plain
<1>2. InTurn(d) /\ IInv
  BY LinkFacts
<1>3. k + 1 < Chunks(d, p)
  BY <1>1 DEF HandlePartialChunk, Completes, NextChunk
<1>4. /\ devices' = devices /\ asm'.param = p
      /\ asm'.chunks = Begun(d, p, k + 1) /\ Len(asm'.chunks) = k + 1
  BY ChunkFits DEF HandlePartialChunk
<1>5. PICK r : r = NewRequest(d, p, k + 1)
  OBVIOUS
<1>6. /\ r \in Request /\ r # NoRequest /\ r.dev = d /\ r.param = p /\ r.chunk = k + 1 /\ ~ Due(r)
      /\ ReadOf(r) = [dev |-> d, param |-> p, chunk |-> k + 1] /\ ReadOf(r).dev = d
  <2>1. r \in Request /\ r # NoRequest /\ r.dev = d /\ r.param = p
    BY <1>1, <1>5, NewRequestType
  <2>2. r.chunk = k + 1
    BY <1>5 DEF NewRequest
  <2>3. ~ Due(r)
    BY <1>5, NewNotDue DEF ChunksFit
  <2>4. QED
    BY <2>1, <2>2, <2>3 DEF ReadOf
<1>7. SetQueues(Enqueue(Queues, r))
  <2>1. SetQueues(Enqueue(QueuesForChunk(d, NextChunk(d)),
                          NewRequest(d, NextChunk(d).param, ChunksReceived(asm'))))
    BY DEF HandlePartialChunk
  <2>2. NextChunk(d).param = p
    BY DEF NextChunk
  <2>3. ChunksReceived(asm') = k + 1
    BY <1>4 DEF ChunksReceived
  <2>4. QueuesForChunk(d, NextChunk(d)) = Queues
    BY ChunkFits
  <2>5. QED
    BY <1>5, <2>1, <2>2, <2>3, <2>4
<1>8. PICK free \in Slot : /\ pending[free] = NoRequest
                           /\ \A t \in Slot : pending'[t] = IF t = free THEN r ELSE pending[t]
                           /\ Longer(output', output, ReadOf(r))
  <2>1. QueuesOK(Queues, devices) /\ Queues.requests = pending /\ Queues.packets = output
    BY <1>2, IInvParts DEF Queues
  <2>2. FreeSlots(pending) # {} /\ Len(output) < MaxOutput
    BY <1>1, <1>3, SlotToSpare, OutputToSpare
  <2>3. PICK free \in Slot : /\ Takes(Queues, Enqueue(Queues, r), r, free)
                             /\ Longer(Enqueue(Queues, r).packets, output, ReadOf(r))
    BY <1>6, <2>1, <2>2, EnqueueTakes
  <2>4. QED
    BY <1>7, <2>1, <2>3 DEF Takes, SetQueues
<1>9. /\ Known(d)' /\ Wanted(d)' = p /\ Got(d)' = k + 1
      /\ NextRead(d)' = ReadOf(r)
  <2>1. Known(d)' /\ Wanted(d)' = p
    BY <1>4 DEF Known, Wanted
  <2>2. Got(d)' = k + 1
    BY <1>1, <1>4, <2>1 DEF Got
  <2>3. QED
    BY <1>6, <2>1, <2>2 DEF NextRead
<1>10. \E i : FramesOf(output', d) = {i} /\ output'[i] = ReadOf(r)
  <2>1. PICK x, after, before : x = ReadOf(r) /\ after = output' /\ before = output
    OBVIOUS
  <2>2. Longer(after, before, x) /\ x.dev = d /\ FramesOf(before, d) = {}
    BY <1>6, <1>8, <2>1
  <2>3. \E i : FramesOf(after, d) = {i} /\ after[i] = x
    BY ONLY <2>2, LongerOwn
  <2>4. QED
    BY <2>1, <2>3
<1>11. OneFrame(d)' /\ OnLine(d)'
  BY <1>10 DEF OneFrame, OnLine, AtMostOne
<1>12. Awaited(d)'
  BY <1>9, <1>10 DEF Awaited
<1>13. Tracked(d)'
  <2>1. ASSUME NEW s \in Slot, Tracks(s, d)'
        PROVE  /\ pending'[s].param = p
               /\ \/ s = free /\ pending'[s].chunk = k + 1
                  \/ /\ s # free /\ Tracks(s, d)
                     /\ pending'[s] = pending[s] /\ pending[s].chunk \in 0..k
    <3>1. CASE s = free
      <4>1. pending'[s] = r
        BY <1>8, <3>1
      <4>2. pending'[s].param = p /\ pending'[s].chunk = k + 1
        BY <1>6, <4>1
      <4>3. QED
        BY <3>1, <4>2
    <3>2. CASE s # free
      <4>1. pending'[s] = pending[s] /\ Tracks(s, d)
        BY <1>8, <2>1, <3>2 DEF Tracks
      <4>2. QED
        BY <1>2, <3>2, <4>1 DEF InTurn, Tracked
    <3>3. QED
      BY <3>1, <3>2
  <2>2. ASSUME NEW s \in Slot, NEW t \in Slot, Tracks(s, d)', Tracks(t, d)',
               pending'[s].chunk = pending'[t].chunk
        PROVE  s = t
    <3>1. k + 1 \notin 0..k
      BY <1>1
    <3>2. s = free <=> t = free
      BY <2>1, <2>2, <3>1
    <3>3. CASE s # free /\ t # free
      BY <1>2, <2>1, <2>2, <3>3 DEF InTurn, Tracked
    <3>4. QED
      BY <3>2, <3>3
  <2>3. \A n \in 0..k : n \in 0..(k + 1)
    BY <1>1
  <2>4. k + 1 \in 0..(k + 1)
    BY <1>1
  <2>5. ASSUME NEW s \in Slot, Tracks(s, d)'
        PROVE  pending'[s].param = Wanted(d)' /\ pending'[s].chunk \in 0..Got(d)'
    BY <1>9, <2>1, <2>3, <2>4, <2>5
  <2>6. QED
    BY <2>2, <2>5 DEF Tracked
<1>14. Assembled(d)'
  BY <1>3, <1>4, <1>9, <1>11 DEF Assembled, Begun
<1>15. OnlyFor(d)
  BY <1>6, <1>8 DEF OnlyFor
<1>16. Faithful' /\ KnownOnes' = KnownOnes
  BY <1>4 DEF AssemblyInv, Faithful, Known, KnownOnes
<1>17. QED
  BY <1>4, <1>11, <1>12, <1>13, <1>14, <1>15, <1>16 DEF InTurn, AssemblyInv

LEMMA CompletedStep ==
  ASSUME AssemblyInv, ChunksFit, NEW d \in Addr, Known(d), Wanted(d) \in Numbers(d),
         Chunks(d, Wanted(d)) > 1, Got(d) < Chunks(d, Wanted(d)), NextChunk(d) \in Chunk,
         NEW content \in Content, HandleCompletedEntry(d, NextChunk(d), content),
         FramesOf(output, d) = {}, requests'[d] = << >>, FramesOf(replies', d) = {}
  PROVE  /\ InTurn(d)' /\ OnlyFor(d) /\ Faithful'
         /\ Cardinality(KnownOnes') <= MaxDevices
         /\ \A e \in Addr : e # d => devices'[e] = devices[e]
<1> DEFINE p == Wanted(d)
           k == Got(d)
           dev == WithParameter(devices[d], p, EntryOf(d, p))
<1>1. k \in Nat /\ Chunks(d, p) \in Nat
  BY NextReadType, ChunksType
<1>2. k + 1 = Chunks(d, p) /\ NextChunk(d).param = p
  BY <1>1 DEF HandleCompletedEntry, Completes, NextChunk
<1>3. asm'.param = p /\ asm'.chunks = Begun(d, p, k + 1) /\ Len(asm'.chunks) = k + 1
  BY ChunkFits DEF HandleCompletedEntry
<1>4. asm'.chunks = FragmentsOf(d, p)
  BY <1>2, <1>3 DEF Begun, FragmentsOf
<1>5. content = EntryOf(d, p)
  BY <1>4, ParseAssumption DEF HandleCompletedEntry
<1>6. /\ devices' = [devices EXCEPT ![d] = dev]
      /\ SetQueues(RemovePending(EnqueueNextParameter(Queues, d, dev), d, p))
  BY <1>2, <1>5, ChunkFits DEF HandleCompletedEntry
<1>7. p \in Stored(dev)
  BY WantedStored
<1>8. asm'.chunks = [i \in 1..Len(asm'.chunks) |-> FragmentOf(d, asm'.param, i - 1)]
  BY <1>3 DEF Begun
<1> HIDE DEF dev
<1>9. QED
  BY <1>3, <1>6, <1>7, <1>8, StoreStep DEF dev

(* A reply is received, and is the announcement of an unknown device, or   *)
(* the entry or the chunk that is wanted of a known one.                   *)
LEMMA EntryStep ==
  ASSUME AssemblyInv, ChunksFit, NEW d \in Addr, Known(d), Wanted(d) \in Numbers(d),
         Chunks(d, Wanted(d)) = 1,
         HandleParameterEntry(d, Wanted(d), EntryOf(d, Wanted(d))),
         FramesOf(output, d) = {}, requests'[d] = << >>, FramesOf(replies', d) = {}
  PROVE  /\ InTurn(d)' /\ OnlyFor(d) /\ Faithful'
         /\ asm' = asm /\ Cardinality(KnownOnes') <= MaxDevices
         /\ \A e \in Addr : e # d => devices'[e] = devices[e]
<1> DEFINE p == Wanted(d)
           dev == WithParameter(devices[d], p, EntryOf(d, p))
<1>1. /\ devices' = [devices EXCEPT ![d] = dev] /\ asm' = asm
      /\ SetQueues(RemovePending(EnqueueNextParameter(Queues, d, dev), d, p))
  BY DEF HandleParameterEntry
<1>2. Stored(dev) = Stored(devices[d]) \cup {p}
  BY WantedStored
<1>3. InTurn(d) /\ asm.chunks \in Seq(Fragment)
  BY LinkFacts DEF IInv, TypeOK, Reassembler
<1>4. ASSUME ~ Plain(d), ~ IsIdle(asm)
      PROVE  /\ asm.param \in Numbers(d) /\ asm.param \in Stored(dev)
             /\ asm.chunks = [k \in 1..Len(asm.chunks) |-> FragmentOf(d, asm.param, k - 1)]
  <2>1. Len(asm.chunks) # 0
    BY <1>3, <1>4 DEF IsIdle
  <2>2. ~ (asm.param = p /\ Len(asm.chunks) < Chunks(d, asm.param))
    BY <1>3, <2>1
  <2>3. asm.param \in Stored(devices[d])
    BY <1>3, <1>4, <2>2 DEF InTurn, Assembled
  <2>4. QED
    BY <1>2, <1>3, <1>4, <2>3 DEF InTurn, Assembled
<1>5. ~ Plain(d) /\ ~ IsIdle(asm)' =>
        /\ asm'.param \in Numbers(d) /\ asm'.param \in Stored(dev)
        /\ asm'.chunks = [k \in 1..Len(asm'.chunks) |-> FragmentOf(d, asm'.param, k - 1)]
  BY <1>1, <1>4 DEF IsIdle
<1> HIDE DEF dev
<1>6. QED
  BY <1>1, <1>5, StoreStep DEF dev

LEMMA ChunkStep ==
  ASSUME AssemblyInv, ChunksFit, NEW d \in Addr, Known(d), Wanted(d) \in Numbers(d),
         Chunks(d, Wanted(d)) > 1, Got(d) < Chunks(d, Wanted(d)), NextChunk(d) \in Chunk,
         HandleParameterChunk(d, NextChunk(d)),
         FramesOf(output, d) = {}, requests'[d] = << >>, FramesOf(replies', d) = {}
  PROVE  /\ InTurn(d)' /\ OnlyFor(d) /\ Faithful'
         /\ Cardinality(KnownOnes') <= MaxDevices
         /\ \A e \in Addr : e # d => devices'[e] = devices[e]
<1>1. ~ HandleStaleChunk(d, NextChunk(d))
  BY WantedMissing DEF HandleStaleChunk, NextChunk
<1>2. ~ HandleFailedChunk(d, NextChunk(d))
  <2> SUFFICES ASSUME HandleFailedChunk(d, NextChunk(d)) PROVE FALSE
    OBVIOUS
  <2>1. /\ NextChunk(d).remaining = 0
        /\ Failed \in Parsed(Buffer(asm, NextChunk(d)).chunks)
    BY ChunkFits DEF HandleFailedChunk, Completes
  <2>2. Got(d) \in Nat /\ Chunks(d, Wanted(d)) \in Nat
    BY NextReadType, ChunksType
  <2>3. Got(d) + 1 = Chunks(d, Wanted(d))
    BY <2>1, <2>2 DEF NextChunk
  <2>4. Buffer(asm, NextChunk(d)).chunks = FragmentsOf(d, Wanted(d))
    BY <2>3, ChunkFits DEF Begun, FragmentsOf
  <2>5. Failed = EntryOf(d, Wanted(d))
    BY <2>1, <2>4, ParseAssumption
  <2>6. QED
    BY <2>5, LinkAssumption, ContentAssumption
<1>3. CASE HandlePartialChunk(d, NextChunk(d))
  BY <1>3, PartialStep
<1>4. ASSUME NEW content \in Content, HandleCompletedEntry(d, NextChunk(d), content)
      PROVE  /\ InTurn(d)' /\ OnlyFor(d) /\ Faithful'
             /\ Cardinality(KnownOnes') <= MaxDevices
             /\ \A e \in Addr : e # d => devices'[e] = devices[e]
  BY <1>4, CompletedStep
<1>5. QED
  BY <1>1, <1>2, <1>3, <1>4 DEF HandleParameterChunk

LEMMA ChunkReply ==
  ASSUME NEW d \in Addr, NEW p, NEW k, ChunkFrame(d, p, k) \in Reply
  PROVE  /\ ChunkFrame(d, p, k).chunk \in Chunk
         /\ p \in Numbers(d) /\ Chunks(d, p) > 1 /\ k \in 0..(Chunks(d, p) - 1)
<1>1. ChunkFrame(d, p, k).kind = "chunk" /\ ChunkFrame(d, p, k).dev = d
      /\ ChunkFrame(d, p, k).chunk.param = p /\ ChunkFrame(d, p, k).chunk.payload.index = k
  BY DEF ChunkFrame, FragmentOf
<1>2. PICK f \in [dev : Addr, param : ParamId, index : Nat] :
        /\ f.param \in Numbers(f.dev) /\ Chunks(f.dev, f.param) > 1
        /\ f.index \in 0..(Chunks(f.dev, f.param) - 1)
        /\ ChunkFrame(d, p, k) = ChunkFrame(f.dev, f.param, f.index)
  BY <1>1, FrameDev DEF Reply
<1>3. f.dev = d /\ f.param = p /\ f.index = k
  BY <1>1, <1>2 DEF ChunkFrame, FragmentOf
<1>4. QED
  BY <1>1, <1>2, <1>3, ReplyCases

LEMMA EntryReply ==
  ASSUME NEW d \in Addr, NEW p, EntryFrame(d, p) \in Reply
  PROVE  p \in Numbers(d) /\ Chunks(d, p) = 1
<1>1. EntryFrame(d, p).kind = "entry" /\ EntryFrame(d, p).dev = d /\ EntryFrame(d, p).param = p
  BY DEF EntryFrame
<1>2. QED
  BY <1>1, ReplyCases

LEMMA ReceiveStep ==
  ASSUME AssemblyInv, ChunksFit, ReceiveFrame
  PROVE  /\ QuietWhenDue' /\ Faithful' /\ Cardinality(KnownOnes') <= MaxDevices
         /\ \A e \in Addr : InTurn(e)'
<1>1. replies # << >> /\ replies' = Tail(replies) /\ requests' = requests
  BY DEF ReceiveFrame
<1>2. PICK d \in Addr : d = Head(replies).dev
  BY <1>1, HeadReply
<1>3. /\ FramesOf(output, d) = {} /\ requests'[d] = << >> /\ FramesOf(replies', d) = {}
      /\ \/ ~ Known(d) /\ Head(replies) = InfoFrame(d)
         \/ Known(d) /\ Head(replies) = EntryFrame(d, Wanted(d))
         \/ Known(d) /\ Head(replies) = ChunkFrame(d, Wanted(d), Got(d))
  BY <1>1, <1>2, HeadReply, OnlyReply
<1>4. /\ InTurn(d)' /\ OnlyFor(d) /\ Faithful' /\ Cardinality(KnownOnes') <= MaxDevices
      /\ \A e \in Addr : e # d => devices'[e] = devices[e]
      /\ asm' = asm \/ ~ Plain(d)
  <2>1. CASE ~ Known(d) /\ Head(replies) = InfoFrame(d)
    <3>1. HandleDeviceInfo(d, Total(d))
      <4>1. Head(replies).kind = "info"
        BY <2>1, FrameDev
      <4>2. QED
        BY <1>2, <4>1 DEF ReceiveFrame
    <3>2. QED
      BY <1>3, <2>1, <3>1, InfoStep
  <2>2. CASE Known(d) /\ Head(replies) = EntryFrame(d, Wanted(d))
    <3>1. HandleParameterEntry(d, Wanted(d), EntryOf(d, Wanted(d)))
      <4>1. Head(replies).kind = "entry" /\ Head(replies).param = Wanted(d)
        BY <2>2 DEF EntryFrame
      <4>2. QED
        BY <1>2, <4>1 DEF ReceiveFrame
    <3>2. Wanted(d) \in Numbers(d) /\ Chunks(d, Wanted(d)) = 1
      BY <1>1, <2>2, HeadReply, EntryReply
    <3>3. QED
      BY <1>3, <2>2, <3>1, <3>2, EntryStep
  <2>3. CASE Known(d) /\ Head(replies) = ChunkFrame(d, Wanted(d), Got(d))
    <3>1. ChunkFrame(d, Wanted(d), Got(d)).chunk = NextChunk(d)
      BY DEF ChunkFrame, NextChunk
    <3>2. HandleParameterChunk(d, NextChunk(d))
      <4>1. Head(replies).kind = "chunk" /\ Head(replies).chunk = NextChunk(d)
        BY <2>3, <3>1, FrameDev
      <4>2. QED
        BY <1>2, <4>1 DEF ReceiveFrame
    <3>3. /\ Wanted(d) \in Numbers(d) /\ Chunks(d, Wanted(d)) > 1 /\ NextChunk(d) \in Chunk
          /\ Got(d) \in 0..(Chunks(d, Wanted(d)) - 1)
      BY <1>1, <2>3, <3>1, HeadReply, ChunkReply
    <3>4. Got(d) < Chunks(d, Wanted(d)) /\ ~ Plain(d)
      BY <3>3, ChunksType DEF Plain
    <3>5. QED
      BY <1>3, <2>3, <3>2, <3>3, <3>4, ChunkStep
  <2>4. QED
    BY <1>3, <2>1, <2>2, <2>3
<1>5. QuietWhenDue'
  BY <1>1, <1>4, OnlyForQuiet
<1>6. ASSUME NEW e \in Addr, e # d PROVE InTurn(e)'
  <2>1. Stays(e)
    BY <1>4, <1>6 DEF Stays, ChunksFit
  <2>2. KeepsTracks(e) /\ Passes(output, output', e)
    BY <1>4, <1>6, OnlyForOthers
  <2>3. Passes(replies, replies', e)
    BY <1>1, <1>2, <1>6, HeadReply
  <2>4. QED
    BY <1>1, <2>1, <2>2, <2>3, LinkFacts, Bystander
<1>7. QED
  BY <1>4, <1>5, <1>6

-----------------------------------------------------------------------------
LEMMA AssemblyInit == LinkInit => AssemblyInv
<1> SUFFICES ASSUME LinkInit PROVE AssemblyInv
  OBVIOUS
<1>1. /\ devices = [d \in Addr |-> NoDevice] /\ pending = [s \in Slot |-> NoRequest]
      /\ asm = Idle /\ output = << >>
      /\ requests = [d \in Addr |-> << Ping >>] /\ replies = << >> /\ pings = 0
  BY DEF LinkInit, Init
<1>2. \A d \in Addr : ~ Known(d)
  BY <1>1 DEF Known
<1>3. Cardinality(KnownOnes) <= MaxDevices
  <2>1. KnownOnes = {}
    BY <1>2 DEF KnownOnes
  <2>2. Cardinality(KnownOnes) = 0
    BY <2>1, FS_EmptySet
  <2>3. QED
    BY <2>2, CapacityAssumption
<1>4. requests \in [Addr -> Seq(RequestFrame)]
  BY <1>1 DEF RequestFrame
<1>5. QuietWhenDue
  BY <1>1 DEF QuietWhenDue, Due
<1>6. Faithful
  BY <1>2 DEF Faithful
<1>7. ASSUME NEW d \in Addr PROVE InTurn(d)
  <2>1. FramesOf(output, d) = {} /\ FramesOf(replies, d) = {}
    BY <1>1 DEF FramesOf
  <2>2. DOMAIN requests[d] = {1} /\ requests[d][1] = Ping
    BY <1>1
  <2>3. OneFrame(d)
    BY <2>1, <2>2 DEF OneFrame, AtMostOne
  <2>4. Awaited(d)
    BY <1>2, <2>1, <2>2 DEF Awaited
  <2>5. Tracked(d)
    BY <1>1 DEF Tracked, Tracks
  <2>6. Assembled(d)
    BY <1>1 DEF Assembled, IsIdle, Idle
  <2>7. QED
    BY <2>3, <2>4, <2>5, <2>6 DEF InTurn
<1>8. QED
  BY <1>1, <1>3, <1>4, <1>5, <1>6, <1>7, LinkInvInit DEF AssemblyInv

(* The steps of the network, and none at all, change nothing at the host.  *)
LEMMA NetworkStep ==
  ASSUME AssemblyInv, ChunksFit, Network \/ UNCHANGED allVars
  PROVE  /\ QuietWhenDue' /\ Faithful' /\ Cardinality(KnownOnes') <= MaxDevices
         /\ requests' \in [Addr -> Seq(RequestFrame)]
         /\ \A e \in Addr : InTurn(e)'
<1>1. UNCHANGED vars /\ pings' = pings
  BY DEF Network, DeviceAnswers, LoseRequest, LoseReply, allVars, link
<1>2. Faithful' /\ KnownOnes' = KnownOnes
  BY <1>1 DEF vars, AssemblyInv, Faithful, Known, KnownOnes
<1>3. \/ \E d \in Addr : requests[d] # << >> /\ requests' = [requests EXCEPT ![d] = Tail(@)]
      \/ replies # << >> /\ requests' = requests
      \/ UNCHANGED allVars
  BY DEF Network, DeviceAnswers, LoseRequest, LoseReply
<1>4. requests' \in [Addr -> Seq(RequestFrame)]
  <2>1. requests \in [Addr -> Seq(RequestFrame)]
    BY LinkFacts
  <2>2. ASSUME NEW d \in Addr, requests[d] # << >>, requests' = [requests EXCEPT ![d] = Tail(@)]
        PROVE  requests' \in [Addr -> Seq(RequestFrame)]
    <3>1. \A f \in Seq(RequestFrame) : f # << >> => Tail(f) \in Seq(RequestFrame)
      OBVIOUS
    <3>2. Tail(requests[d]) \in Seq(RequestFrame)
      BY <2>1, <2>2, <3>1
    <3>3. PICK rest \in Seq(RequestFrame) : rest = Tail(requests[d])
      BY <3>2
    <3>4. requests' = [requests EXCEPT ![d] = rest]
      BY <2>2, <3>3
    <3>5. QED
      BY <2>1, <3>4
  <2>3. requests' = requests => requests' \in [Addr -> Seq(RequestFrame)]
    BY <2>1
  <2>4. QED
    BY <1>3, <2>2, <2>3 DEF allVars, link
<1>5. QuietWhenDue'
  <2>1. CASE UNCHANGED allVars
    BY <2>1 DEF AssemblyInv, QuietWhenDue, Silent, allVars, vars, link
  <2>2. CASE ~ Silent
    BY <1>1, <2>2 DEF AssemblyInv, QuietWhenDue, vars
  <2>3. QED
    BY <1>3, <2>1, <2>2 DEF Silent
<1>6. ASSUME NEW e \in Addr PROVE InTurn(e)'
  <2>1. CASE UNCHANGED allVars
    <3>1. /\ UNCHANGED <<devices, pending, asm, output>>
          /\ requests' = requests /\ replies' = replies
      BY <2>1 DEF allVars, vars, link
    <3>2. Stays(e) /\ KeepsTracks(e) /\ InTurn(e)
      BY <3>1, LinkFacts DEF Stays, KeepsTracks, Tracks
    <3>3. QED
      BY <3>1, <3>2, SamePasses, Bystander
  <2>2. QED
    BY <2>1, AnswerStep, LoseRequestStep, LoseReplyStep DEF Network
<1>7. QED
  BY <1>2, <1>4, <1>5, <1>6 DEF AssemblyInv

LEMMA AssemblyStep ==
  ASSUME ChunksFit, AssemblyInv, [LinkNext]_allVars
  PROVE  AssemblyInv'
<1> DEFINE Rest == /\ QuietWhenDue' /\ Faithful' /\ Cardinality(KnownOnes') <= MaxDevices
                   /\ requests' \in [Addr -> Seq(RequestFrame)]
                   /\ pings' = 0
                   /\ \A e \in Addr : InTurn(e)'
<1>1. LinkInv'
  BY LinkInvStep DEF AssemblyInv
<1>2. pings = 0 /\ requests \in [Addr -> Seq(RequestFrame)]
  BY DEF AssemblyInv
<1> SUFFICES Rest
  BY <1>1 DEF AssemblyInv
<1>3. CASE SendPing \/ \E d \in Addr : AskAll(d)
  <2>1. ~ SendPing
    <3>1. ~ (pings < MaxPings)
      BY <1>2 DEF ChunksFit
    <3>2. QED
      BY <3>1 DEF SendPing
  <2>2. \A d \in Addr : ~ AskAll(d)
    BY DEF AskAll, ChunksFit
  <2>3. QED
    BY <1>3, <2>1, <2>2
<1>4. CASE ReceiveFrame
  BY <1>2, <1>4, ReceiveStep DEF ReceiveFrame
<1>5. CASE SendDrained \/ DropExpired \/ TimePasses
  <2>1. devices' = devices /\ pings' = pings
    BY <1>5 DEF SendDrained, DropExpired, TimePasses, DrainAll, UpdateTime, link
  <2>2. Faithful' /\ KnownOnes' = KnownOnes
    BY <2>1 DEF AssemblyInv, Faithful, Known, KnownOnes
  <2>3. QuietWhenDue' /\ \A e \in Addr : InTurn(e)'
    BY <1>5, SendDrainedStep, DropExpiredStep, TimePassesStep
  <2>4. requests' \in [Addr -> Seq(RequestFrame)]
    <3>1. CASE SendDrained
      <4>1. PICK reads : SendReads(reads)
        BY <3>1 DEF SendDrained
      <4>2. DOMAIN requests' = Addr /\ requests' = [d \in Addr |-> requests'[d]]
        BY <4>1 DEF SendReads
      <4>3. \A d \in Addr : requests'[d] \in Seq(RequestFrame)
        BY <3>1, SendDrainedStep
      <4>4. QED
        BY <4>2, <4>3
    <3>2. CASE DropExpired \/ TimePasses
      BY <1>2, <3>2 DEF DropExpired, TimePasses, link
    <3>3. QED
      BY <1>5, <3>1, <3>2
  <2>5. QED
    BY <1>2, <2>1, <2>2, <2>3, <2>4 DEF AssemblyInv
<1>6. CASE Network \/ UNCHANGED allVars
  <2>1. pings' = pings
    BY <1>6 DEF Network, DeviceAnswers, LoseRequest, LoseReply, allVars, link
  <2>2. QED
    BY <1>2, <1>6, <2>1, NetworkStep
<1>7. QED
  BY <1>3, <1>4, <1>5, <1>6 DEF LinkNext, Host

(* One device may have entries in chunks: with its frames in order and in  *)
(* time, and none lost while an entry is half received, every parameter    *)
(* the manager stores, of it and of the others, is the one the device      *)
(* sent, however many other frames are lost and asked for again.           *)
THEOREM ChunkedFaithful ==
  ASSUME ChunksFit
  PROVE  LinkSpec => []Faithful
<1>1. AssemblyInv /\ [LinkNext]_allVars => AssemblyInv'
  BY AssemblyStep
<1>2. AssemblyInv => Faithful
  BY DEF AssemblyInv
<1>3. QED
  BY <1>1, <1>2, AssemblyInit, PTL DEF LinkSpec

(* Then, too, no read is tracked twice: the requests of the chunks of one  *)
(* entry differ in their chunk.                                            *)
THEOREM ChunkedReadsOnce ==
  ASSUME ChunksFit
  PROVE  LinkSpec => []NoDuplicateReads
<1>1. AssemblyInv /\ [LinkNext]_allVars => AssemblyInv'
  BY AssemblyStep
<1>2. AssemblyInv => NoDuplicateReads
  <2> SUFFICES ASSUME AssemblyInv,
                      NEW s \in Slot, NEW t \in Slot, s # t,
                      pending[s] # NoRequest, pending[t] # NoRequest
               PROVE  ReadOf(pending[s]) # ReadOf(pending[t])
    BY DEF NoDuplicateReads
  <2>1. pending[s].dev \in Addr
    BY LinkFacts DEF Request
  <2>2. Tracked(pending[s].dev)
    BY <2>1, LinkFacts DEF InTurn
  <2>3. QED
    BY <2>2 DEF ReadOf, Tracked, Tracks
<1>3. QED
  BY <1>1, <1>2, AssemblyInit, PTL DEF LinkSpec
=============================================================================
