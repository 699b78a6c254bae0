--------------------------- MODULE ParameterLink ---------------------------
(***************************************************************************)
(* A DeviceManager at one end of a serial link and the devices it          *)
(* enumerates at the other.  The host side is the loop of the examples     *)
(* (examples/device_manager_demo.rs, examples/param_tui.rs): ping, feed    *)
(* each packet to handle_packet, advance the time, send what drain_all and *)
(* request_all_parameters return.  The devices are external: each answers  *)
(* a ping with its DeviceInformation and a ParameterRead with the entry,   *)
(* or with the chunk that was asked of an entry too long for one frame.    *)
(***************************************************************************)
EXTENDS DeviceManager, SequencesExt, FiniteSetsExt

CONSTANTS
  Shape,     \* [Addr -> Seq(Nat \ {0})]: chunks in each parameter of a device
  Garbage,   \* a parsed entry that no device sent
  MaxPings,  \* bound: pings after the one that discovers the devices
  MaxLoss,   \* bound: frames the link loses
  LossMidAssembly,  \* BOOLEAN: also frames of a device whose entry is half received
  MaxLate,   \* bound: frames still under way when the time advances
  Asks       \* BOOLEAN: the host calls request_all_parameters

VARIABLES
  requests,  \* frames on their way to each device, in order
  replies,   \* frames on their way to the host, in order
  pings,     \* pings sent after the first
  losses     \* frames lost so far

link == <<requests, replies, pings, losses>>
allVars == <<vars, link>>

Ping == [kind |-> "ping"]
ReadFrame(r) == [kind |-> "read", read |-> r]

Total(d) == Len(Shape[d])
Numbers(d) == 0..(Total(d) - 1)
Chunks(d, p) == Shape[d][p + 1]

EntryOf(d, p) == [dev |-> d, param |-> p]
FragmentOf(d, p, k) == [dev |-> d, param |-> p, index |-> k]
FragmentsOf(d, p) == [k \in 1..Chunks(d, p) |-> FragmentOf(d, p, k - 1)]

Parameters == {e \in [dev : Addr, param : ParamId] : e.param < Total(e.dev)}

(* Fragments in their order are the entry they were cut from.  Anything    *)
(* else fails to parse or, worse, does not.                                *)
ParsedFragments(fragments) ==
  LET whole == {e \in Parameters : FragmentsOf(e.dev, e.param) = fragments} IN
  IF whole # {} THEN whole ELSE {Garbage, Failed}

-----------------------------------------------------------------------------
(* What a device sends. *)
InfoFrame(d) == [kind |-> "info", dev |-> d]
EntryFrame(d, p) == [kind |-> "entry", dev |-> d, param |-> p]
ChunkFrame(d, p, k) ==
  [kind |-> "chunk", dev |-> d,
   chunk |-> [param |-> p, remaining |-> Chunks(d, p) - 1 - k,
              payload |-> FragmentOf(d, p, k)]]

(* A device numbers its parameters and their chunks within a u8, and sends *)
(* nothing that its own catalogue has not.                                 *)
ASSUME LinkAssumption ==
  \A d \in Addr :
    /\ Shape[d] \in Seq(Nat \ {0})
    /\ Total(d) \in ParamId
    /\ \A p \in Numbers(d) :
         /\ EntryOf(d, p) \in Content
         /\ Chunks(d, p) > 1 =>
              \A k \in 0..(Chunks(d, p) - 1) : ChunkFrame(d, p, k).chunk \in Chunk

(* The parse puts together again what the device has cut. *)
ASSUME ParseAssumption ==
  \A d \in Addr : \A p \in Numbers(d) :
    Chunks(d, p) > 1 => Parsed(FragmentsOf(d, p)) = {EntryOf(d, p)}

(* The answer of device d to one frame: a sequence of at most one frame.   *)
Answer(d, frame) ==
  IF frame.kind = "ping" THEN << InfoFrame(d) >>
  ELSE LET p == frame.read.param
           k == frame.read.chunk
       IN  IF p \notin Numbers(d) \/ k \notin 0..(Chunks(d, p) - 1) THEN << >>
           ELSE IF Chunks(d, p) = 1 THEN << EntryFrame(d, p) >>
           ELSE << ChunkFrame(d, p, k) >>

DeviceAnswers(d) ==
  /\ requests[d] # << >>
  /\ requests' = [requests EXCEPT ![d] = Tail(@)]
  /\ replies' = replies \o Answer(d, Head(requests[d]))
  /\ UNCHANGED <<vars, pings, losses>>

(* The device a read is sent to, or an answer comes from. *)
Peer(frame) == IF frame.kind = "read" THEN frame.read.dev ELSE frame.dev

(* The reassembler holds the beginning of an entry of d and not its end. *)
MidAssembly(d) ==
  /\ ~ IsIdle(asm)
  /\ Head(asm.chunks).dev = d
  /\ asm.param \notin Stored(devices[d])

(* The link may drop a read or its answer.  The frames of discovery are    *)
(* not dropped: a host whose ping is lost pings again until it is not, and *)
(* nothing has happened before that.                                       *)
Lose(frame) ==
  /\ losses < MaxLoss
  /\ frame.kind \notin {"ping", "info"}
  /\ MidAssembly(Peer(frame)) => LossMidAssembly
  /\ losses' = losses + 1

LoseRequest(d) ==
  /\ requests[d] # << >>
  /\ Lose(Head(requests[d]))
  /\ requests' = [requests EXCEPT ![d] = Tail(@)]
  /\ UNCHANGED <<vars, replies, pings>>

LoseReply ==
  /\ replies # << >>
  /\ Lose(Head(replies))
  /\ replies' = Tail(replies)
  /\ UNCHANGED <<vars, requests, pings>>

-----------------------------------------------------------------------------
(* The places in S, in ascending order. *)
InOrder(S) ==
  CHOOSE place \in [1..Cardinality(S) -> S] :
    \A i, j \in DOMAIN place : i < j => place[i] < place[j]

(* The host writes these reads, in this order. *)
SendReads(reads) ==
  requests' = [d \in Addr |->
    LET own == InOrder({i \in DOMAIN reads : reads[i].dev = d}) IN
    requests[d] \o [i \in DOMAIN own |-> ReadFrame(reads[own[i]])]]

(* The host pings again, as device_manager_demo.rs does all along: every    *)
(* device announces itself once more.                                      *)
SendPing ==
  /\ pings < MaxPings
  /\ pings' = pings + 1
  /\ requests' = [d \in Addr |-> Append(requests[d], Ping)]
  /\ UNCHANGED <<vars, replies, losses>>

ReceiveFrame ==
  /\ replies # << >>
  /\ replies' = Tail(replies)
  /\ LET frame == Head(replies) IN
       CASE frame.kind = "info"  -> HandleDeviceInfo(frame.dev, Total(frame.dev))
         [] frame.kind = "entry" -> HandleParameterEntry(frame.dev, frame.param,
                                                         EntryOf(frame.dev, frame.param))
         [] frame.kind = "chunk" -> HandleParameterChunk(frame.dev, frame.chunk)
  /\ UNCHANGED <<requests, pings, losses>>

(* What drain_all returns. *)
Drained ==
  [i \in 1..Cardinality(Retried) |-> ReadOf(pending[SetToSeq(Retried)[i]])] \o output

(* for packet in manager.drain_all() { write(packet) }; TLC evaluates the  *)
(* one member of a set only once.                                          *)
SendDrained ==
  /\ Retried # {} \/ output # << >>
  /\ \E reads \in {Drained} : SendReads(reads)
  /\ DrainAll
  /\ UNCHANGED <<replies, pings, losses>>

(* drain_all with nothing to send may still drop requests out of retries.  *)
DropExpired ==
  /\ Retried = {} /\ output = << >>
  /\ DrainAll
  /\ UNCHANGED link

(* if let Some(packet) = manager.request_all_parameters(d) { write(packet) } *)
AskAll(d) ==
  /\ Asks
  /\ RequestAllParameters(d)
  /\ LET packets == RequestAllQueues(d).packets IN
       SendReads(IF packets = << >> THEN << >> ELSE << Last(packets) >>)
  /\ UNCHANGED <<replies, pings, losses>>

UnderWay ==
  Len(output) + Len(replies) + Cardinality(UNION {{d} \X DOMAIN requests[d] : d \in Addr})

(* A tick is a timeout or a part of it: with MaxLate = 0 every answer is   *)
(* in before the time of its request is over, with more it may be late.    *)
TimePasses ==
  /\ UnderWay <= MaxLate
  /\ UpdateTime(1)
  /\ UNCHANGED link

-----------------------------------------------------------------------------
LinkInit ==
  /\ Init
  /\ requests = [d \in Addr |-> << Ping >>]
  /\ replies = << >>
  /\ pings = 0
  /\ losses = 0

Host ==
  \/ SendPing
  \/ ReceiveFrame
  \/ SendDrained
  \/ DropExpired
  \/ TimePasses
  \/ \E d \in Addr : AskAll(d)

Network == \E d \in Addr : DeviceAnswers(d) \/ LoseRequest(d) \/ LoseReply

LinkNext == Host \/ Network

(* A ReceiveFrame step, told by what it does to the link: only it takes a  *)
(* reply off the line without losing it.                                   *)
TakesReply ==
  /\ replies # << >>
  /\ replies' = Tail(replies)
  /\ UNCHANGED losses

(* The loop of the host always comes round again, and a frame that is not  *)
(* lost is delivered and answered.                                         *)
Fairness ==
  /\ WF_<<replies, losses>>(TakesReply)
  /\ WF_allVars(SendDrained)
  /\ WF_allVars(DropExpired)
  /\ WF_allVars(TimePasses)
  /\ \A d \in Addr : WF_allVars(AskAll(d)) /\ WF_allVars(DeviceAnswers(d))

LinkSpec == LinkInit /\ [][LinkNext]_allVars /\ Fairness

-----------------------------------------------------------------------------
(* Every parameter that the manager stores is the one the device has under *)
(* that number: no placeholder, nothing put together from other fragments, *)
(* though the reassembler looks at neither the sender nor the number of a  *)
(* chunk.                                                                  *)
Faithful ==
  \A d \in Addr : Known(d) =>
    \A p \in Stored(devices[d]) : devices[d].params[p] = EntryOf(d, p)

(* parameters_loaded counts the stored entries, and never looks at their   *)
(* numbers; still it is only ever set when each parameter of the device,   *)
(* and no other number, is stored.                                         *)
LoadedMeansAll ==
  \A d \in Addr : Known(d) /\ devices[d].loaded =>
    Stored(devices[d]) = Numbers(d)

(* Every device is discovered and loaded in the end, and stays so, however *)
(* losses, late answers, full queues and retries interleave.               *)
EventuallyLoaded == \A d \in Addr : <>[](Known(d) /\ devices[d].loaded)

(* request_all_parameters returns one packet to its caller and, as its     *)
(* comment has it, leaves the others for drain_output.                     *)
AskAllKeepsTheRest ==
  [][\A d \in Addr :
       AskAll(d) => Len(output') >= Len(RequestAllQueues(d).packets) - 1]_allVars
=============================================================================
