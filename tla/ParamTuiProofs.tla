--------------------------- MODULE ParamTuiProofs ---------------------------
(***************************************************************************)
(* Theorems about ParamTui, for a device of any size, kinds, order of the  *)
(* parameters and options, any line of commands and any bounds: that every *)
(* variable is of its type, and that a parameter is read by one request at *)
(* a time, on which ParamTuiSafetyProofs builds.                           *)
(***************************************************************************)
EXTENDS ParamTui, DeviceManagerProofs

-----------------------------------------------------------------------------
(* The inductive invariant.                                                *)
(*                                                                         *)
(* The manager's tables hold what concerns this device only; as long as it *)
(* is not loaded there is a parameter to ask for.                          *)
OwnRequest == {r \in Request : r.dev = Dev /\ r.param \in DOMAIN Kind}
OwnRead == {r \in Read : r.dev = Dev /\ r.param \in DOMAIN Kind}

BrowsedOK(dev) ==
  /\ dev \in Device /\ dev.total = Total
  /\ Stored(dev) \subseteq DOMAIN Kind
  /\ dev.loaded \/ \E p \in DOMAIN Kind : p \notin Stored(dev)

OwnQueues(q) ==
  /\ q = [requests |-> q.requests, packets |-> q.packets]
  /\ q.requests \in [Slot -> OwnRequest \cup {NoRequest}]
  /\ q.packets \in Seq(OwnRead) /\ Len(q.packets) <= MaxOutput

AssemblyOK(a) == AsmOK(a) /\ (~ IsIdle(a) => a.param \in Long)

ManagerOK ==
  /\ devices \in [Addr -> Device \cup {NoDevice}]
  /\ BrowsedOK(Device0)
  /\ OwnQueues(Queues) /\ AssemblyOK(asm)

(* The frames on the line are those the program and the device make. *)
Reading == [kind : {"read"}, param : DOMAIN Kind, chunk : Nat, data : {0}]
Writing == {f \in [kind : {"write"}, param : DOMAIN Kind, chunk : {0}, data : Nat] :
              Kind[f.param] # "folder"}
Telling == {f \in [kind : {"entry"}, param : DOMAIN Kind \ Long, value : Nat] :
              f.value \in Values(f.param)}
Chunking == {f \in [kind : {"chunk"}, chunk : Chunk] : f.chunk.param \in Long}

LineOK ==
  /\ toDevice \in Seq(Reading \cup Writing)
  /\ toHost \in Seq(Telling \cup Chunking)
  /\ held \in [DOMAIN Kind -> Nat] /\ \A p \in DOMAIN Kind : held[p] \in Values(p)
  /\ losses \in 0..MaxLoss

Browser(a) ==
  /\ DOMAIN a = {"path", "cursor", "editing", "confirming", "buffer", "waiting"}
  /\ a.path \in Seq(DOMAIN Kind) /\ a.cursor \in Nat
  /\ a.editing \in BOOLEAN /\ a.confirming \in BOOLEAN
  /\ a.waiting \subseteq DOMAIN Kind

Past == [edits : 0..MaxEdits, refreshes : 0..MaxRefresh, stalled : BOOLEAN,
         givenUp : SUBSET DOMAIN Kind, hasty : BOOLEAN, cut : BOOLEAN,
         strays : SUBSET DOMAIN Kind]

Asking == app.editing \/ app.confirming

AppOK ==
  /\ line \in CommandLines
  /\ phase \in {"start", "load", "tui", "verify", "get", "exit"}
  /\ Browser(app) /\ app.path # << >> /\ app.path[1] = 0
  /\ ~ (app.editing /\ app.confirming)
  /\ Asking => phase = "tui"

JobOK ==
  /\ DOMAIN job = {"ids", "remaining", "told", "asked", "late"}
  /\ job.ids \in Seq(DOMAIN Kind)
  /\ DOMAIN job.told \subseteq ToSet(job.ids) /\ job.remaining \subseteq ToSet(job.ids)
  /\ phase \in {"start", "load"} => DOMAIN job.told = {} /\ job.remaining = {}

TypeInv == ManagerOK /\ LineOK /\ AppOK /\ JobOK /\ past \in Past

(* While the manager enumerates, for the browser or before `set` begins, a *)
(* parameter that fits a frame is read by one request at a time: of the    *)
(* tracked request, its packet in the queue, the frame on its way to the   *)
(* device and the entry on its way back there is one each, and one of the  *)
(* last three at most; and none once it is stored.  (Not so of the root,   *)
(* number 0, whose first read may be doubled before the first loop.)       *)
Enumerating == phase \in {"tui", "load"}

Plain == DOMAIN Kind \ Long

Queued(packets, p) == {i \in DOMAIN packets : packets[i].param = p}
Sent(frames, kind, p) ==
  {i \in DOMAIN frames : frames[i].kind = kind /\ frames[i].param = p}

AtMostOne(S) == \A i, j \in S : i = j

OneRead(q, out, in, p) ==
  LET asked == Asked(q.requests, Dev, p)
      queued == Queued(q.packets, p)
      reads == Sent(out, "read", p)
      entries == Sent(in, "entry", p)
  IN  /\ AtMostOne(asked)
      /\ AtMostOne(queued) /\ AtMostOne(reads) /\ AtMostOne(entries)
      /\ queued # {} => reads = {} /\ entries = {}
      /\ reads # {} => entries = {}
      /\ queued \cup reads \cup entries # {} =>
           \E s \in asked : q.requests[s].age < Timeout

EachOnce ==
  Enumerating => \A p \in Plain \ {0} :
    /\ OneRead(Queues, toDevice, toHost, p)
    /\ p \in Shown => Asked(pending, Dev, p) = {}

(* The root may be read twice, but each answer says the same of it. *)
RootKept ==
  Enumerating /\ 0 \in Plain \cap Shown => Device0.params[0] = Entry(0, 0)

ReadOnce == EachOnce /\ RootKept

(* What executing a command does. *)
AimOf(p) == IF ValueOf(p) = ConfirmationNeeded THEN Confirm ELSE Start
-----------------------------------------------------------------------------
(* The device and its parameters *)

LEMMA KindFacts ==
  /\ DOMAIN Kind \subseteq ParamId /\ IsFiniteSet(DOMAIN Kind)
  /\ 0 \in DOMAIN Kind /\ Total \in Nat /\ Total \in ParamId /\ Total > 0
  /\ \A p \in ParamId : p \in DOMAIN Kind <=> p < Total
  /\ DOMAIN Kind = 0..(Total - 1)
<1>1. Total \in Nat /\ Total <= MaxParamId /\ Total # 0 /\ MaxParamId \in Nat
  BY DeviceAssumption, ParamAssumption
<1>2. \A p \in ParamId : p \in Nat
  BY ParamAssumption
<1>3. IsFiniteSet(DOMAIN Kind)
  BY <1>1, DeviceAssumption, FS_Interval
<1> DEFINE total == Total
<1>4. total \in Nat /\ total <= MaxParamId /\ total # 0 /\ DOMAIN Kind = 0..(total - 1)
  BY <1>1, DeviceAssumption
<1> HIDE DEF total
<1>5. /\ DOMAIN Kind \subseteq ParamId /\ 0 \in DOMAIN Kind /\ total > 0
      /\ \A p \in ParamId : p \in DOMAIN Kind <=> p < total
  BY <1>1, <1>2, <1>4, ParamAssumption
<1>6. QED
  BY <1>1, <1>3, <1>4, <1>5, DeviceAssumption DEF total

(* The parameter the enumeration asks for next is one of the device's.     *)
LEMMA NextIsOwn ==
  ASSUME NEW dev, BrowsedOK(dev), ~ dev.loaded
  PROVE  NextParameter(dev) \in DOMAIN Kind /\ NextParameter(dev) \notin Stored(dev)
<1> DEFINE missing == {p \in ParamId : p < dev.total /\ p \notin Stored(dev)}
<1>1. missing # {}
  BY KindFacts DEF BrowsedOK
<1>2. missing \subseteq Nat
  BY ParamAssumption
<1>3. \E p \in missing : \A other \in missing : p <= other
  BY <1>1, <1>2, Smallest
<1>4. NextParameter(dev) = CHOOSE p \in missing : \A other \in missing : p <= other
  BY <1>1 DEF NextParameter
<1>5. NextParameter(dev) \in missing
  BY <1>3, <1>4
<1>6. QED
  BY <1>5, KindFacts DEF BrowsedOK

(* ... and it stays so when an entry, or a stub, of one of its parameters  *)
(* is stored, or some are forgotten.                                       *)
LEMMA WithParameterBrowsed ==
  ASSUME NEW dev, BrowsedOK(dev),
         NEW p \in DOMAIN Kind, NEW content \in Content \cup {Stub}
  PROVE  LET with == WithParameter(dev, p, content) IN
         /\ BrowsedOK(with)
         /\ \A x \in ParamId \ {p} : with.params[x] = dev.params[x]
         /\ with.params[p] \in {dev.params[p], content}
         /\ Stored(with) \in {Stored(dev), Stored(dev) \cup {p}}
<1> DEFINE added == AddParameter(dev, p, content)
           with == WithParameter(dev, p, content)
<1>1. dev \in Device /\ p \in ParamId /\ content # Absent
  BY KindFacts, ContentAssumption DEF BrowsedOK
<1>2. /\ added \in Device /\ added.total = Total /\ added.loaded = dev.loaded
      /\ \A x \in ParamId \ {p} : added.params[x] = dev.params[x]
      /\ added.params[p] \in {dev.params[p], content}
  BY <1>1 DEF AddParameter, Device, BrowsedOK
<1>3. Stored(added) \in {Stored(dev), Stored(dev) \cup {p}}
  <2>1. \A x \in ParamId \ {p} : x \in Stored(added) <=> x \in Stored(dev)
    BY <1>2 DEF Stored
  <2>2. p \in Stored(dev) => p \in Stored(added)
    BY <1>1, <1>2 DEF Stored
  <2>3. Stored(added) \subseteq ParamId /\ Stored(dev) \subseteq ParamId
    BY DEF Stored
  <2>4. QED
    BY <1>1, <2>1, <2>2, <2>3
<1> HIDE DEF added
<1>4. with = IF Full(added) THEN [added EXCEPT !.loaded = TRUE] ELSE added
  BY DEF WithParameter, added
<1>5. /\ with \in Device /\ with.total = Total /\ with.params = added.params
      /\ Full(added) \/ ~ with.loaded => Full(added) \/ with = added
      /\ Full(added) => with.loaded
  BY <1>2, <1>4 DEF Device
<1> HIDE DEF with
<1>6. Stored(with) = Stored(added)
  BY <1>5 DEF Stored
<1>7. Stored(with) \subseteq DOMAIN Kind
  BY <1>3, <1>6 DEF BrowsedOK
<1>8. with.loaded \/ \E x \in DOMAIN Kind : x \notin Stored(with)
  <2> SUFFICES ASSUME ~ with.loaded, Stored(with) = DOMAIN Kind PROVE FALSE
    BY <1>7
  <2>1. ~ (Cardinality(Stored(added)) >= Total)
    BY <1>2, <1>5 DEF Full
  <2>2. Cardinality(Stored(added)) = Total
    BY <1>6 DEF Total
  <2>3. QED
    BY <2>1, <2>2, KindFacts
<1>9. QED
  BY <1>2, <1>3, <1>5, <1>6, <1>7, <1>8 DEF BrowsedOK, with

LEMMA WithoutBrowsed ==
  ASSUME NEW dev, BrowsedOK(dev), NEW ps
  PROVE  /\ Without(dev, ps) \in Device /\ Without(dev, ps).total = Total
         /\ Without(dev, ps).loaded = dev.loaded
         /\ Stored(Without(dev, ps)) = Stored(dev) \ ps
         /\ \A x \in ParamId \ ps : Without(dev, ps).params[x] = dev.params[x]
         /\ BrowsedOK(Without(dev, ps))
<1>1. dev \in Device
  BY DEF BrowsedOK
<1>2. /\ Without(dev, ps) \in Device /\ Without(dev, ps).total = dev.total
      /\ Without(dev, ps).loaded = dev.loaded
      /\ Without(dev, ps).params = [p \in ParamId |-> IF p \in ps THEN Absent ELSE dev.params[p]]
  BY <1>1 DEF Without, Device
<1>3. Stored(Without(dev, ps)) = Stored(dev) \ ps
  BY <1>2 DEF Stored
<1>4. QED
  BY <1>2, <1>3 DEF BrowsedOK
-----------------------------------------------------------------------------
(* Lists *)

(* InOrder lists the members of a finite set of numbers.                   *)
LEMMA InOrderType ==
  ASSUME NEW S, S \subseteq Nat, IsFiniteSet(S)
  PROVE  InOrder(S) \in [1..Cardinality(S) -> S] /\ Cardinality(S) \in Nat
<1> DEFINE n == Cardinality(S)
           Below(p) == {q \in S : q < p}
           Ranked(i) == \E p \in S : Cardinality(Below(p)) = i - 1
           unranked == {i \in 1..n : ~ Ranked(i)}
<1>1. n \in Nat
  BY FS_CardinalityType
<1>2. \A p \in S : IsFiniteSet(Below(p)) /\ Cardinality(Below(p)) \in Nat
  BY FS_Subset, FS_CardinalityType
<1>3. unranked = {}
  <2> SUFFICES ASSUME unranked # {} PROVE FALSE
    OBVIOUS
  <2>1. unranked \subseteq Nat
    BY <1>1
  <2> HIDE DEF unranked
  <2>2. PICK i \in unranked : \A j \in unranked : i <= j
    BY <2>1, Smallest
  <2>3. i \in 1..n /\ ~ Ranked(i)
    BY <2>2 DEF unranked
  <2>4. CASE i = 1
    <3>1. S # {}
      BY <1>1, <2>3, FS_EmptySet
    <3>2. PICK p \in S : \A q \in S : p <= q
      BY <3>1, Smallest
    <3>3. \A q \in S : q \in Nat /\ p \in Nat /\ ~ (q < p)
      BY <3>2
    <3>4. Below(p) = {}
      BY <3>3
    <3>5. Cardinality(Below(p)) = i - 1
      BY <2>4, <3>4, FS_EmptySet
    <3>6. QED
      BY <2>3, <3>2, <3>5
  <2>5. CASE i # 1
    <3>1. i - 1 \in 1..n /\ i - 1 \notin unranked
      BY <1>1, <2>2, <2>3, <2>5
    <3>2. PICK p \in S : Cardinality(Below(p)) = (i - 1) - 1
      BY <3>1 DEF unranked
    <3> DEFINE upto == Below(p) \cup {p}
    <3>3. p \notin Below(p) /\ upto \subseteq S /\ p \in Nat
      BY <3>2
    <3>4. Cardinality(upto) = Cardinality(Below(p)) + 1
      BY <1>2, <3>2, <3>3, FS_AddElement
    <3>5. i \in Int /\ Cardinality(upto) = i - 1 /\ i <= n
      BY <1>1, <2>3, <3>2, <3>4
    <3>6. S # upto
      BY <1>1, <3>5
    <3> DEFINE above == S \ upto
    <3>7. above # {} /\ above \subseteq Nat
      BY <3>3, <3>6
    <3> HIDE DEF above
    <3>8. PICK x \in above : \A y \in above : x <= y
      BY <3>7, Smallest
    <3>9. x \in S /\ x \in Nat /\ ~ (x < p) /\ x # p
      BY <3>8 DEF above
    <3>10. ASSUME NEW q \in S PROVE q < x <=> q \in upto
      <4>1. q \in Nat
        OBVIOUS
      <4>2. q \notin upto => x <= q
        BY <3>8 DEF above
      <4>3. q \in upto => q <= p
        BY <3>3, <4>1
      <4>4. QED
        BY <3>3, <3>9, <4>1, <4>2, <4>3
    <3>11. Below(x) = upto
      BY <3>3, <3>10
    <3>12. QED
      BY <2>3, <3>5, <3>9, <3>11
  <2>6. QED
    BY <2>4, <2>5
<1>4. \A i \in 1..n : (CHOOSE p \in S : Cardinality(Below(p)) = i - 1) \in S
  BY <1>3
<1>5. QED
  BY <1>1, <1>4 DEF InOrder

(* Some places of a sequence make a sequence of some of its entries.       *)
LEMMA AtType ==
  ASSUME NEW T, NEW seq \in Seq(T), NEW places, places \subseteq DOMAIN seq
  PROVE  /\ At(seq, places) \in Seq(T) /\ Len(At(seq, places)) <= Len(seq)
         /\ \A i \in DOMAIN At(seq, places) : \E k \in places : At(seq, places)[i] = seq[k]
<1> DEFINE n == Cardinality(places)
<1>1. DOMAIN seq = 1..Len(seq) /\ Len(seq) \in Nat
  OBVIOUS
<1>2. places \subseteq Nat /\ IsFiniteSet(places) /\ n <= Len(seq)
  <2>1. places \subseteq 1..Len(seq) /\ places \subseteq Nat
    BY <1>1
  <2>2. IsFiniteSet(1..Len(seq)) /\ Cardinality(1..Len(seq)) = Len(seq)
    <3>1. \A k \in Nat : IsFiniteSet(1..k) /\ Cardinality(1..k) = k
      BY FS_Interval
    <3>2. QED
      BY <1>1, <3>1
  <2>3. QED
    BY <2>1, <2>2, FS_Subset
<1>3. InOrder(places) \in [1..n -> places] /\ n \in Nat
  BY <1>2, InOrderType
<1> HIDE DEF n
<1>4. At(seq, places) = [i \in 1..n |-> seq[InOrder(places)[i]]]
  BY <1>3 DEF At
<1>5. \A i \in 1..n : InOrder(places)[i] \in places /\ seq[InOrder(places)[i]] \in T
  BY <1>3
<1>6. QED
  BY <1>2, <1>3, <1>4, <1>5

(* A finite set is listed by SetToSeq, each member once.                   *)
LEMMA Listed ==
  ASSUME NEW S, IsFiniteSet(S)
  PROVE  /\ SetToSeq(S) \in [1..Cardinality(S) -> S]
         /\ Cardinality(S) \in Nat
         /\ Len(SetToSeq(S)) = Cardinality(S)
         /\ \A i, j \in 1..Cardinality(S) : SetToSeq(S)[i] = SetToSeq(S)[j] => i = j
<1> DEFINE n == Cardinality(S)
<1>1. n \in Nat /\ ExistsBijection(1..n, S)
  BY FS_CardinalityType
<1>2. PICK f \in Bijection(1..n, S) : TRUE
  BY <1>1 DEF ExistsBijection
<1>3. f \in [1..n -> S] /\ IsInjective(f)
  BY <1>2 DEF Bijection, Injection, IsInjective
<1>4. SetToSeq(S) \in [1..n -> S] /\ IsInjective(SetToSeq(S))
  BY <1>3 DEF SetToSeq
<1>5. QED
  BY <1>1, <1>4 DEF IsInjective
-----------------------------------------------------------------------------
(* The manager's queues *)

LEMMA NewOwnRequest ==
  ASSUME NEW p \in DOMAIN Kind, NEW k \in Nat
  PROVE  /\ NewRequest(Dev, p, k) \in OwnRequest
         /\ NewRequest(Dev, p, k).param = p
         /\ NewRequest(Dev, p, k).age < Timeout
<1>1. p \in ParamId /\ Dev \in Addr
  BY KindFacts, DeviceAssumption
<1>2. NewRequest(Dev, p, k) \in Request /\ NewRequest(Dev, p, k).dev = Dev
      /\ NewRequest(Dev, p, k).param = p
  BY <1>1, NewRequestType
<1>3. NewRequest(Dev, p, k).age = 0 /\ Timeout > 0
  BY ProgramAssumption DEF NewRequest
<1>4. QED
  BY <1>2, <1>3 DEF OwnRequest

(* What Enqueue does, read from the one slot it may take.                  *)
LEMMA EnqueueOwn ==
  ASSUME NEW q, OwnQueues(q), NEW r \in OwnRequest
  PROVE  /\ OwnQueues(Enqueue(q, r))
         /\ \/ Enqueue(q, r) = q
            \/ \E s \in Slot :
                 /\ q.requests[s] = NoRequest
                 /\ Enqueue(q, r).requests = [q.requests EXCEPT ![s] = r]
                 /\ Enqueue(q, r).packets \in {q.packets, Append(q.packets, ReadOf(r))}
<1>1. CASE FreeSlots(q.requests) = {}
  BY <1>1 DEF Enqueue
<1>2. CASE FreeSlots(q.requests) # {}
  <2> DEFINE s == CHOOSE s \in Slot : q.requests[s] = NoRequest
             requests == [q.requests EXCEPT ![s] = r]
             packets == IF Len(q.packets) < MaxOutput
                          THEN Append(q.packets, ReadOf(r)) ELSE q.packets
  <2>1. s \in Slot /\ q.requests[s] = NoRequest
    BY <1>2 DEF FreeSlots
  <2>2. Enqueue(q, r) = [requests |-> requests, packets |-> packets]
    BY <1>2 DEF Enqueue
  <2> HIDE DEF s
  <2>3. requests \in [Slot -> OwnRequest \cup {NoRequest}]
    BY <2>1 DEF OwnQueues
  <2>4. ReadOf(r) \in OwnRead
    BY DEF ReadOf, OwnRead, OwnRequest, Read, Request
  <2>5. packets \in Seq(OwnRead) /\ Len(packets) <= MaxOutput
    BY <2>4, CapacityAssumption DEF OwnQueues
  <2>6. packets \in {q.packets, Append(q.packets, ReadOf(r))}
    OBVIOUS
  <2>7. Enqueue(q, r).requests = requests /\ Enqueue(q, r).packets = packets
    BY <2>2
  <2> HIDE DEF packets
  <2>8. OwnQueues(Enqueue(q, r))
    BY <2>2, <2>3, <2>5, <2>7 DEF OwnQueues
  <2>9. QED
    BY <2>1, <2>6, <2>7, <2>8
<1>3. QED
  BY <1>1, <1>2

LEMMA RemoveOwn ==
  ASSUME NEW q, OwnQueues(q), NEW x
  PROVE  LET left == RemovePending(q, Dev, x) IN
         /\ OwnQueues(left) /\ left.packets = q.packets
         /\ \A s \in Slot : left.requests[s] =
              IF q.requests[s] # NoRequest /\ q.requests[s].param = x
                THEN NoRequest ELSE q.requests[s]
<1> DEFINE requests == [s \in Slot |-> IF s \in Asked(q.requests, Dev, x)
                                         THEN NoRequest ELSE q.requests[s]]
<1>1. RemovePending(q, Dev, x) = [requests |-> requests, packets |-> q.packets]
  BY DEF RemovePending, OwnQueues
<1>2. requests \in [Slot -> OwnRequest \cup {NoRequest}]
  BY DEF OwnQueues
<1>3. \A s \in Slot : requests[s] =
        IF q.requests[s] # NoRequest /\ q.requests[s].param = x
          THEN NoRequest ELSE q.requests[s]
  BY DEF OwnQueues, OwnRequest, Asked
<1> HIDE DEF requests
<1>4. QED
  BY <1>1, <1>2, <1>3 DEF OwnQueues

(* The requests and frames of request_parameter() for each of ps.          *)
LEMMA RequestEachOwn ==
  ASSUME NEW requests \in [Slot -> OwnRequest \cup {NoRequest}],
         NEW ps \in Seq(DOMAIN Kind)
  PROVE  LET q == RequestEach(requests, ps) IN
         /\ q.requests \in [Slot -> OwnRequest \cup {NoRequest}]
         /\ q.packets \in Seq(Reading) /\ Len(q.packets) <= Len(ps)
         /\ \A i \in DOMAIN q.packets : q.packets[i].param = ps[i]
<1> DEFINE free == SetToSeq(FreeSlots(requests))
           taken == IF Len(ps) < Len(free) THEN 1..Len(ps) ELSE DOMAIN free
           asked == [i \in taken |-> NewRequest(Dev, ps[i], 0)]
           q == RequestEach(requests, ps)
<1>1. IsFiniteSet(FreeSlots(requests))
  BY ProgramAssumption, FS_Subset DEF FreeSlots
<1>2. DOMAIN free = 1..Len(free) /\ Len(free) \in Nat /\ Len(ps) \in Nat
  BY <1>1, Listed
<1>3. \E n \in Nat : taken = 1..n /\ n <= Len(ps)
  BY <1>2
<1>4. PICK n \in Nat : taken = 1..n /\ n <= Len(ps)
  BY <1>3
<1>5. /\ q.requests = [s \in Slot |-> IF \E i \in taken : free[i] = s
                                        THEN asked[CHOOSE i \in taken : free[i] = s]
                                        ELSE requests[s]]
      /\ q.packets = [i \in taken |-> ReadFrame(asked[i])]
  BY DEF RequestEach
<1> HIDE DEF taken, free, q
<1>6. \A i \in 1..n : ps[i] \in DOMAIN Kind
  BY <1>4
<1>7. \A i \in taken : asked[i] \in OwnRequest /\ asked[i].param = ps[i]
  BY <1>4, <1>6, NewOwnRequest
<1> HIDE DEF asked
<1>8. q.requests \in [Slot -> OwnRequest \cup {NoRequest}]
  BY <1>5, <1>7
<1>9. \A i \in taken : ReadFrame(asked[i]) \in Reading /\ ReadFrame(asked[i]).param = ps[i]
  BY <1>7 DEF ReadFrame, Reading, OwnRequest, Request
<1>10. q.packets \in Seq(Reading) /\ Len(q.packets) = n /\ DOMAIN q.packets = taken
  BY <1>4, <1>5, <1>9
<1>11. QED
  BY <1>4, <1>5, <1>8, <1>9, <1>10 DEF q

(* ... and of one: in a slot that was free, if there is one.               *)
LEMMA RequestOne ==
  ASSUME NEW requests \in [Slot -> OwnRequest \cup {NoRequest}], NEW x \in DOMAIN Kind
  PROVE  LET q == RequestEach(requests, <<x>>) IN
         \/ q.requests = requests /\ q.packets = << >>
         \/ \E s \in Slot : /\ requests[s] = NoRequest
                            /\ q.requests = [requests EXCEPT ![s] = NewRequest(Dev, x, 0)]
                            /\ Len(q.packets) = 1
<1> DEFINE free == SetToSeq(FreeSlots(requests))
           n == Cardinality(FreeSlots(requests))
           q == RequestEach(requests, <<x>>)
<1>1. IsFiniteSet(FreeSlots(requests))
  BY ProgramAssumption, FS_Subset DEF FreeSlots
<1>2. free \in [1..n -> FreeSlots(requests)] /\ Len(free) = n /\ n \in Nat
  BY <1>1, Listed
<1>3. Len(<<x>>) = 1 /\ <<x>>[1] = x
  OBVIOUS
<1> HIDE DEF n
<1> DEFINE taken == IF Len(<<x>>) < Len(free) THEN 1..Len(<<x>>) ELSE DOMAIN free
           asked == [i \in taken |-> NewRequest(Dev, <<x>>[i], 0)]
<1>4. /\ q.requests = [s \in Slot |-> IF \E i \in taken : free[i] = s
                                        THEN asked[CHOOSE i \in taken : free[i] = s]
                                        ELSE requests[s]]
      /\ q.packets = [i \in taken |-> ReadFrame(asked[i])]
  BY DEF RequestEach
<1>5. taken = IF n = 0 THEN {} ELSE {1}
  <2>1. taken = IF 1 < n THEN 1..1 ELSE 1..n
    BY <1>2, <1>3
  <2>2. 1..1 = {1} /\ (n = 0 => 1..n = {}) /\ (n = 1 => 1..n = {1})
    OBVIOUS
  <2>3. \/ n = 0 /\ ~ (1 < n)
        \/ n = 1 /\ ~ (1 < n)
        \/ n # 0 /\ 1 < n
    BY <1>2
  <2> HIDE DEF taken
  <2>4. QED
    BY <2>1, <2>2, <2>3
<1> HIDE DEF taken, free, q
<1>6. CASE n = 0
  <2>1. q.requests = requests
    BY <1>4, <1>5, <1>6
  <2>2. q.packets = << >>
    BY <1>4, <1>5, <1>6
  <2>3. QED
    BY <2>1, <2>2 DEF q
<1>7. CASE n # 0
  <2>1. free[1] \in Slot /\ requests[free[1]] = NoRequest
    BY <1>2, <1>7 DEF FreeSlots
  <2>2. asked[1] = NewRequest(Dev, x, 0)
    BY <1>3, <1>5, <1>7
  <2>3. q.requests = [requests EXCEPT ![free[1]] = NewRequest(Dev, x, 0)]
    <3>1. \A s \in Slot : q.requests[s] =
            IF free[1] = s THEN asked[1] ELSE requests[s]
      BY <1>4, <1>5, <1>7
    <3>2. DOMAIN q.requests = Slot /\ q.requests = [s \in Slot |-> q.requests[s]]
      BY <1>4
    <3> HIDE DEF asked
    <3>3. QED
      BY <2>2, <3>1, <3>2
  <2>4. Len(q.packets) = 1
    BY <1>4, <1>5, <1>7
  <2>5. QED
    BY <2>1, <2>3, <2>4 DEF q
<1>8. QED
  BY <1>6, <1>7
-----------------------------------------------------------------------------
(* Frames on the line *)

LEMMA SentConcat ==
  ASSUME NEW T, NEW f \in Seq(T), NEW g \in Seq(T), NEW kind, NEW p
  PROVE  /\ \A i : i \in Sent(f \o g, kind, p) <=>
               \/ i \in Sent(f, kind, p)
               \/ i \in Nat /\ i - Len(f) \in Sent(g, kind, p)
         /\ \A i \in Sent(f, kind, p) : i \in 1..Len(f) /\ (f \o g)[i] = f[i]
         /\ \A i \in Sent(g, kind, p) : i \in 1..Len(g)
<1>1. /\ Len(f) \in Nat /\ Len(g) \in Nat /\ f \o g \in Seq(T)
      /\ DOMAIN f = 1..Len(f) /\ DOMAIN g = 1..Len(g)
      /\ DOMAIN (f \o g) = 1..(Len(f) + Len(g))
  OBVIOUS
<1>2. \A i \in 1..(Len(f) + Len(g)) :
        (f \o g)[i] = IF i <= Len(f) THEN f[i] ELSE g[i - Len(f)]
  OBVIOUS
<1>3. \A i \in Sent(f, kind, p) : i \in 1..Len(f) /\ (f \o g)[i] = f[i]
  BY <1>1, <1>2 DEF Sent
<1>4. \A i \in Sent(g, kind, p) : i \in 1..Len(g)
  BY <1>1 DEF Sent
<1>5. ASSUME NEW i
      PROVE  i \in Sent(f \o g, kind, p) <=>
               \/ i \in Sent(f, kind, p)
               \/ i \in Nat /\ i - Len(f) \in Sent(g, kind, p)
  <2>1. ASSUME i \in Sent(f \o g, kind, p)
        PROVE  \/ i \in Sent(f, kind, p)
               \/ i \in Nat /\ i - Len(f) \in Sent(g, kind, p)
    <3>1. i \in 1..(Len(f) + Len(g)) /\ (f \o g)[i].kind = kind /\ (f \o g)[i].param = p
      BY <1>1, <2>1 DEF Sent
    <3>2. CASE i <= Len(f)
      <4>1. i \in 1..Len(f) /\ (f \o g)[i] = f[i]
        BY <1>1, <1>2, <3>1, <3>2
      <4>2. QED
        BY <1>1, <3>1, <4>1 DEF Sent
    <3>3. CASE ~ (i <= Len(f))
      <4>1. i - Len(f) \in 1..Len(g) /\ i \in Nat
        BY <1>1, <3>1, <3>3
      <4>2. QED
        BY <1>1, <1>2, <3>1, <3>3, <4>1 DEF Sent
    <3>4. QED
      BY <3>2, <3>3
  <2>2. ASSUME i \in Sent(f, kind, p) PROVE i \in Sent(f \o g, kind, p)
    <3>1. i \in 1..Len(f) /\ i \in 1..(Len(f) + Len(g)) /\ i <= Len(f)
      BY <1>1, <2>2 DEF Sent
    <3>2. QED
      BY <1>1, <1>2, <2>2, <3>1 DEF Sent
  <2>3. ASSUME i \in Nat, i - Len(f) \in Sent(g, kind, p) PROVE i \in Sent(f \o g, kind, p)
    <3>1. i - Len(f) \in 1..Len(g) /\ i \in 1..(Len(f) + Len(g)) /\ ~ (i <= Len(f))
      BY <1>1, <2>3 DEF Sent
    <3>2. QED
      BY <1>1, <1>2, <2>3, <3>1 DEF Sent
  <2>4. QED
    BY <2>1, <2>2, <2>3
<1>6. QED
  BY <1>3, <1>4, <1>5

(* What joining frames that are on the line with others does to the frames *)
(* of one kind and parameter.                                              *)
LEMMA SentJoined ==
  ASSUME NEW T, NEW f \in Seq(T), NEW g \in Seq(T), NEW kind, NEW p
  PROVE  /\ Sent(g, kind, p) = {} => Sent(f \o g, kind, p) = Sent(f, kind, p)
         /\ Sent(f \o g, kind, p) = {} <=> Sent(f, kind, p) = {} /\ Sent(g, kind, p) = {}
         /\ Sent(f, kind, p) = {} /\ AtMostOne(Sent(g, kind, p)) =>
              AtMostOne(Sent(f \o g, kind, p))
<1>1. Len(f) \in Nat
  OBVIOUS
<1>2. \A i \in Sent(g, kind, p) : i \in Nat /\ (i + Len(f)) - Len(f) = i /\ i + Len(f) \in Nat
  BY <1>1, SentConcat
<1>3. ASSUME Sent(g, kind, p) = {} PROVE Sent(f \o g, kind, p) = Sent(f, kind, p)
  <2>1. \A i : i \in Sent(f \o g, kind, p) <=> i \in Sent(f, kind, p)
    BY <1>3, SentConcat
  <2>2. QED
    BY <2>1
<1>4. \A i \in Sent(f, kind, p) : i \in Sent(f \o g, kind, p)
  BY SentConcat
<1>5. \A i \in Sent(g, kind, p) : i + Len(f) \in Sent(f \o g, kind, p)
  BY <1>2, SentConcat
<1>6. ASSUME Sent(f, kind, p) = {}, AtMostOne(Sent(g, kind, p)),
             NEW i \in Sent(f \o g, kind, p), NEW j \in Sent(f \o g, kind, p)
      PROVE  i = j
  <2>1. i \in Nat /\ j \in Nat /\ i - Len(f) \in Sent(g, kind, p) /\ j - Len(f) \in Sent(g, kind, p)
    BY <1>6, SentConcat
  <2>2. i - Len(f) = j - Len(f)
    BY <1>6, <2>1 DEF AtMostOne
  <2>3. QED
    BY <1>1, <2>1, <2>2
<1>7. Sent(f, kind, p) = {} /\ AtMostOne(Sent(g, kind, p)) => AtMostOne(Sent(f \o g, kind, p))
  BY <1>6 DEF AtMostOne
<1>8. Sent(f \o g, kind, p) = {} <=> Sent(f, kind, p) = {} /\ Sent(g, kind, p) = {}
  BY <1>3, <1>4, <1>5
<1>9. QED
  BY <1>3, <1>7, <1>8

(* ... and taking the first frame off the line.                            *)
LEMMA SentTail ==
  ASSUME NEW T, NEW f \in Seq(T), f # << >>, NEW kind, NEW p
  PROVE  /\ \A i : i \in Sent(Tail(f), kind, p) <=> i \in Nat \ {0} /\ i + 1 \in Sent(f, kind, p)
         /\ \A i \in Sent(Tail(f), kind, p) : i \in Nat /\ Tail(f)[i] = f[i + 1]
         /\ \A i \in Sent(f, kind, p) : i \in Nat \ {0}
         /\ 1 \in Sent(f, kind, p) <=> Head(f).kind = kind /\ Head(f).param = p
<1>1. /\ Len(f) \in Nat \ {0} /\ Tail(f) \in Seq(T) /\ Len(Tail(f)) = Len(f) - 1
      /\ DOMAIN f = 1..Len(f) /\ DOMAIN Tail(f) = 1..(Len(f) - 1) /\ Head(f) = f[1]
  OBVIOUS
<1>2. \A i \in 1..(Len(f) - 1) : Tail(f)[i] = f[i + 1]
  OBVIOUS
<1>3. ASSUME NEW i
      PROVE  i \in Sent(Tail(f), kind, p) <=> i \in Nat \ {0} /\ i + 1 \in Sent(f, kind, p)
  <2>1. i \in 1..(Len(f) - 1) <=> i \in Nat \ {0} /\ i + 1 \in 1..Len(f)
    BY <1>1
  <2>2. QED
    BY <1>1, <1>2, <2>1 DEF Sent
<1>4. \A i \in Sent(Tail(f), kind, p) : i \in Nat /\ Tail(f)[i] = f[i + 1]
  BY <1>1, <1>2 DEF Sent
<1>5. \A i \in Sent(f, kind, p) : i \in Nat \ {0}
  BY <1>1 DEF Sent
<1>6. 1 \in Sent(f, kind, p) <=> Head(f).kind = kind /\ Head(f).param = p
  BY <1>1 DEF Sent
<1>7. QED
  BY <1>3, <1>4, <1>5, <1>6

LEMMA SentTailed ==
  ASSUME NEW T, NEW f \in Seq(T), f # << >>, NEW kind, NEW p
  PROVE  /\ Sent(f, kind, p) = {} => Sent(Tail(f), kind, p) = {}
         /\ AtMostOne(Sent(f, kind, p)) => AtMostOne(Sent(Tail(f), kind, p))
         /\ AtMostOne(Sent(f, kind, p)) /\ Head(f).kind = kind /\ Head(f).param = p =>
              Sent(Tail(f), kind, p) = {}
<1>1. ASSUME AtMostOne(Sent(f, kind, p)),
             NEW i \in Sent(Tail(f), kind, p), NEW j \in Sent(Tail(f), kind, p)
      PROVE  i = j
  <2>1. i \in Nat /\ j \in Nat /\ i + 1 \in Sent(f, kind, p) /\ j + 1 \in Sent(f, kind, p)
    BY SentTail
  <2>2. i + 1 = j + 1
    BY <1>1, <2>1 DEF AtMostOne
  <2>3. QED
    BY <2>1, <2>2
<1>2. ASSUME AtMostOne(Sent(f, kind, p)), Head(f).kind = kind, Head(f).param = p,
             NEW i \in Sent(Tail(f), kind, p)
      PROVE  FALSE
  <2>1. i \in Nat \ {0} /\ i + 1 \in Sent(f, kind, p) /\ 1 \in Sent(f, kind, p)
    BY <1>2, SentTail
  <2>2. i + 1 = 1
    BY <1>2, <2>1 DEF AtMostOne
  <2>3. QED
    BY <2>1, <2>2
<1>3. Sent(f, kind, p) = {} => Sent(Tail(f), kind, p) = {}
  BY SentTail
<1>4. AtMostOne(Sent(f, kind, p)) => AtMostOne(Sent(Tail(f), kind, p))
  BY <1>1 DEF AtMostOne
<1>5. AtMostOne(Sent(f, kind, p)) /\ Head(f).kind = kind /\ Head(f).param = p =>
        Sent(Tail(f), kind, p) = {}
  BY <1>2
<1>6. QED
  BY <1>3, <1>4, <1>5
-----------------------------------------------------------------------------
(* One read at a time *)

(* What is said of a parameter and the set of those that are stored.       *)
ReadOnceOf(q, out, in, stored, p) ==
  OneRead(q, out, in, p) /\ (p \in stored => Asked(q.requests, Dev, p) = {})

LEMMA QueuedAppend ==
  ASSUME NEW packets \in Seq(OwnRead), NEW read \in OwnRead, NEW p
  PROVE  Queued(Append(packets, read), p) =
           IF read.param = p THEN Queued(packets, p) \cup {Len(packets) + 1}
                             ELSE Queued(packets, p)
<1> DEFINE later == Append(packets, read)
<1>1. /\ Len(packets) \in Nat /\ DOMAIN packets = 1..Len(packets)
      /\ DOMAIN later = 1..(Len(packets) + 1)
      /\ later[Len(packets) + 1] = read
      /\ \A i \in 1..Len(packets) : later[i] = packets[i]
  OBVIOUS
<1>2. \A i \in 1..(Len(packets) + 1) : i \in 1..Len(packets) \/ i = Len(packets) + 1
  BY <1>1
<1>3. 1..Len(packets) \subseteq 1..(Len(packets) + 1) /\ Len(packets) + 1 \in 1..(Len(packets) + 1)
  BY <1>1
<1> HIDE DEF later
<1>4. \A i : i \in Queued(later, p) <=>
               i \in Queued(packets, p) \/ (i = Len(packets) + 1 /\ read.param = p)
  BY <1>1, <1>2, <1>3 DEF Queued
<1>5. QED
  BY <1>4 DEF later

(* A request that is new leaves the reads of other parameters alone, and   *)
(* is the only one of its own.                                             *)
LEMMA EnqueueReadOnce ==
  ASSUME NEW q, OwnQueues(q), NEW r \in OwnRequest, r.age < Timeout,
         NEW out, NEW in, NEW p, OneRead(q, out, in, p),
         r.param = p => Asked(q.requests, Dev, p) = {}
  PROVE  /\ OneRead(Enqueue(q, r), out, in, p)
         /\ r.param # p => Asked(Enqueue(q, r).requests, Dev, p) = Asked(q.requests, Dev, p)
<1> DEFINE later == Enqueue(q, r)
<1>1. CASE later = q
  BY <1>1
<1>2. ASSUME NEW s \in Slot, q.requests[s] = NoRequest,
             later.requests = [q.requests EXCEPT ![s] = r],
             later.packets \in {q.packets, Append(q.packets, ReadOf(r))}
      PROVE  /\ OneRead(later, out, in, p)
             /\ r.param # p => Asked(later.requests, Dev, p) = Asked(q.requests, Dev, p)
  <2>1. /\ q.requests \in [Slot -> OwnRequest \cup {NoRequest}]
        /\ q.packets \in Seq(OwnRead)
        /\ r # NoRequest /\ r.dev = Dev
        /\ ReadOf(r) \in OwnRead /\ ReadOf(r).param = r.param
    BY NullAssumption DEF OwnQueues, OwnRequest, OwnRead, ReadOf, Request, Read
  <2> HIDE DEF later
  <2>2. later.requests[s] = r /\ \A t \in Slot \ {s} : later.requests[t] = q.requests[t]
    BY <1>2, <2>1
  <2>3. Asked(later.requests, Dev, p) =
          IF r.param = p THEN Asked(q.requests, Dev, p) \cup {s} ELSE Asked(q.requests, Dev, p)
    BY <1>2, <2>1, <2>2 DEF Asked
  <2>4. s \notin Asked(q.requests, Dev, p)
    BY <1>2 DEF Asked
  <2>5. \/ Queued(later.packets, p) = Queued(q.packets, p)
        \/ /\ r.param = p
           /\ Queued(later.packets, p) = Queued(q.packets, p) \cup {Len(q.packets) + 1}
    <3>1. Queued(Append(q.packets, ReadOf(r)), p) =
            IF ReadOf(r).param = p THEN Queued(q.packets, p) \cup {Len(q.packets) + 1}
                                   ELSE Queued(q.packets, p)
      BY <2>1, QueuedAppend
    <3>2. QED
      BY <1>2, <2>1, <3>1
  <2>6. CASE r.param = p
    <3>1. /\ Queued(q.packets, p) = {} /\ Sent(out, "read", p) = {}
          /\ Sent(in, "entry", p) = {}
      BY <2>6 DEF OneRead
    <3>2. /\ Asked(later.requests, Dev, p) = {s}
          /\ later.requests[s].age < Timeout
          /\ AtMostOne(Queued(later.packets, p))
      BY <2>2, <2>3, <2>5, <2>6, <3>1 DEF AtMostOne
    <3>3. QED
      BY <2>6, <3>1, <3>2 DEF OneRead, AtMostOne
  <2>7. CASE r.param # p
    <3>1. /\ Queued(later.packets, p) = Queued(q.packets, p)
          /\ Asked(later.requests, Dev, p) = Asked(q.requests, Dev, p)
      BY <2>3, <2>5, <2>7
    <3>2. \A t \in Asked(q.requests, Dev, p) : later.requests[t] = q.requests[t]
      BY <2>2, <2>4 DEF Asked
    <3>3. QED
      BY <3>1, <3>2 DEF OneRead
  <2>8. QED
    BY <2>6, <2>7
<1>3. QED
  BY <1>1, <1>2, EnqueueOwn

(* The enumeration asks for a parameter only if it is not asked for and    *)
(* not stored.                                                             *)
LEMMA EnqueueNextReadOnce ==
  ASSUME NEW q, OwnQueues(q), NEW dev, BrowsedOK(dev)
  PROVE  /\ OwnQueues(EnqueueNextParameter(q, Dev, dev))
         /\ \A out, in, p :
              ReadOnceOf(q, out, in, Stored(dev), p) =>
                ReadOnceOf(EnqueueNextParameter(q, Dev, dev), out, in, Stored(dev), p)
         /\ \A p : Asked(q.requests, Dev, p) # {} =>
              /\ Asked(EnqueueNextParameter(q, Dev, dev).requests, Dev, p) # {}
              /\ Queued(EnqueueNextParameter(q, Dev, dev).packets, p) = Queued(q.packets, p)
<1> DEFINE next == NextParameter(dev)
           r == NewRequest(Dev, next, 0)
           later == EnqueueNextParameter(q, Dev, dev)
<1>1. CASE dev.loaded \/ Asked(q.requests, Dev, next) # {}
  <2>1. later = q
    BY <1>1 DEF EnqueueNextParameter
  <2>2. QED
    BY <2>1 DEF ReadOnceOf
<1>2. CASE ~ dev.loaded /\ Asked(q.requests, Dev, next) = {}
  <2>1. later = Enqueue(q, r)
    BY <1>2 DEF EnqueueNextParameter
  <2>2. next \in DOMAIN Kind /\ next \notin Stored(dev)
    BY <1>2, NextIsOwn
  <2>3. r \in OwnRequest /\ r.param = next /\ r.age < Timeout
    BY <2>2, NewOwnRequest
  <2> HIDE DEF r, next, later
  <2>4. OwnQueues(later)
    BY <2>1, <2>3, EnqueueOwn
  <2>5. ASSUME NEW out, NEW in, NEW p, OneRead(q, out, in, p)
        PROVE  /\ OneRead(later, out, in, p)
               /\ p # next => Asked(later.requests, Dev, p) = Asked(q.requests, Dev, p)
    BY <1>2, <2>1, <2>3, <2>5, EnqueueReadOnce
  <2>6. ASSUME NEW p, Asked(q.requests, Dev, p) # {}
        PROVE  /\ Asked(later.requests, Dev, p) # {}
               /\ Queued(later.packets, p) = Queued(q.packets, p)
    <3>1. p # next
      BY <1>2, <2>6
    <3>2. CASE later = q
      BY <2>6, <3>2
    <3>3. ASSUME NEW s \in Slot, q.requests[s] = NoRequest,
                 later.requests = [q.requests EXCEPT ![s] = r],
                 later.packets \in {q.packets, Append(q.packets, ReadOf(r))}
          PROVE  /\ Asked(later.requests, Dev, p) # {}
                 /\ Queued(later.packets, p) = Queued(q.packets, p)
      <4>1. /\ q.requests \in [Slot -> OwnRequest \cup {NoRequest}]
            /\ q.packets \in Seq(OwnRead)
            /\ ReadOf(r) \in OwnRead /\ ReadOf(r).param = next
        BY <2>3 DEF OwnQueues, OwnRequest, OwnRead, ReadOf, Request, Read
      <4>2. PICK t \in Asked(q.requests, Dev, p) : TRUE
        BY <2>6
      <4>3. t \in Slot /\ t # s /\ later.requests[t] = q.requests[t]
        BY <3>3, <4>1, <4>2 DEF Asked
      <4>4. t \in Asked(later.requests, Dev, p)
        BY <4>2, <4>3 DEF Asked
      <4>5. Queued(Append(q.packets, ReadOf(r)), p) = Queued(q.packets, p)
        BY <3>1, <4>1, QueuedAppend
      <4>6. QED
        BY <3>3, <4>4, <4>5
    <3>4. \/ later = q
          \/ \E s \in Slot : /\ q.requests[s] = NoRequest
                            /\ later.requests = [q.requests EXCEPT ![s] = r]
                            /\ later.packets \in {q.packets, Append(q.packets, ReadOf(r))}
      BY ONLY <2>1, <2>3, OwnQueues(q), EnqueueOwn
    <3>5. QED
      BY <3>2, <3>3, <3>4
  <2>7. ASSUME NEW out, NEW in, NEW p, ReadOnceOf(q, out, in, Stored(dev), p)
        PROVE  ReadOnceOf(later, out, in, Stored(dev), p)
    BY <2>2, <2>5, <2>7 DEF ReadOnceOf
  <2>8. QED
    BY <2>4, <2>6, <2>7 DEF later
<1>3. QED
  BY <1>1, <1>2

(* Forgetting the requests for another parameter disturbs nothing.         *)
LEMMA RemoveReadOnce ==
  ASSUME NEW q, OwnQueues(q), NEW x, NEW p
  PROVE  /\ Asked(RemovePending(q, Dev, x).requests, Dev, x) = {}
         /\ Queued(RemovePending(q, Dev, x).packets, p) = Queued(q.packets, p)
         /\ x # p => \A out, in, stored :
              ReadOnceOf(q, out, in, stored, p) =>
                ReadOnceOf(RemovePending(q, Dev, x), out, in, stored, p)
<1> DEFINE later == RemovePending(q, Dev, x)
<1>1. /\ later.packets = q.packets
      /\ \A s \in Slot : later.requests[s] =
           IF q.requests[s] # NoRequest /\ q.requests[s].param = x
             THEN NoRequest ELSE q.requests[s]
  BY RemoveOwn
<1> HIDE DEF later
<1>2. Asked(later.requests, Dev, x) = {}
  BY <1>1 DEF Asked
<1>3. ASSUME x # p
      PROVE  /\ Asked(later.requests, Dev, p) = Asked(q.requests, Dev, p)
             /\ \A s \in Asked(q.requests, Dev, p) : later.requests[s] = q.requests[s]
  BY <1>1, <1>3 DEF Asked
<1>4. x # p => \A out, in, stored :
        ReadOnceOf(q, out, in, stored, p) => ReadOnceOf(later, out, in, stored, p)
  BY <1>1, <1>3 DEF ReadOnceOf, OneRead
<1>5. QED
  BY <1>1, <1>2, <1>4 DEF later
-----------------------------------------------------------------------------
(* What the manager makes of a packet *)

(* The queues after an entry: the next parameter is asked for, the request *)
(* for this one forgotten.                                                 *)
LEMMA EntryQueues ==
  ASSUME NEW q, OwnQueues(q), NEW dev, BrowsedOK(dev), NEW x
  PROVE  LET later == RemovePending(EnqueueNextParameter(q, Dev, dev), Dev, x) IN
         /\ OwnQueues(later)
         /\ Asked(later.requests, Dev, x) = {}
         /\ Asked(q.requests, Dev, x) # {} => Queued(later.packets, x) = Queued(q.packets, x)
         /\ \A out, in, p : p # x /\ ReadOnceOf(q, out, in, Stored(dev), p) =>
              ReadOnceOf(later, out, in, Stored(dev), p)
<1> DEFINE next == EnqueueNextParameter(q, Dev, dev)
           later == RemovePending(next, Dev, x)
<1>1. /\ OwnQueues(next)
      /\ \A out, in, p : ReadOnceOf(q, out, in, Stored(dev), p) =>
                           ReadOnceOf(next, out, in, Stored(dev), p)
      /\ Asked(q.requests, Dev, x) # {} => Queued(next.packets, x) = Queued(q.packets, x)
  BY EnqueueNextReadOnce
<1> HIDE DEF next
<1>2. OwnQueues(later) /\ later.packets = next.packets
  BY <1>1, RemoveOwn
<1>3. Asked(later.requests, Dev, x) = {}
  BY <1>1, RemoveReadOnce
<1>4. ASSUME NEW out, NEW in, NEW p, p # x, ReadOnceOf(q, out, in, Stored(dev), p)
      PROVE  ReadOnceOf(later, out, in, Stored(dev), p)
  BY <1>1, <1>4, RemoveReadOnce
<1>5. QED
  BY <1>1, <1>2, <1>3, <1>4 DEF next

LEMMA EntryManager ==
  ASSUME ManagerOK, NEW x \in DOMAIN Kind, NEW content \in Content,
         HandleParameterEntry(Dev, x, content)
  PROVE  /\ ManagerOK'
         /\ Shown' \in {Shown, Shown \cup {x}}
         /\ \A y \in ParamId \ {x} : Device0'.params[y] = Device0.params[y]
         /\ Device0'.params[x] \in {Device0.params[x], content}
         /\ Asked(pending', Dev, x) = {}
         /\ Asked(pending, Dev, x) # {} => Queued(output', x) = Queued(output, x)
         /\ \A out, in, p : p # x /\ ReadOnceOf(Queues, out, in, Shown, p) =>
              ReadOnceOf(Queues', out, in, Shown', p)
<1> DEFINE dev == WithParameter(Device0, x, content)
           q == RemovePending(EnqueueNextParameter(Queues, Dev, dev), Dev, x)
<1>1. /\ BrowsedOK(Device0) /\ OwnQueues(Queues) /\ Dev \in Addr
      /\ devices \in [Addr -> Device \cup {NoDevice}] /\ AssemblyOK(asm)
      /\ Queues = [requests |-> pending, packets |-> output]
  BY DeviceAssumption DEF ManagerOK, Queues
<1>2. /\ BrowsedOK(dev)
      /\ \A y \in ParamId \ {x} : dev.params[y] = Device0.params[y]
      /\ dev.params[x] \in {Device0.params[x], content}
      /\ Stored(dev) \in {Stored(Device0), Stored(Device0) \cup {x}}
  BY <1>1, WithParameterBrowsed
<1>3. devices' = [devices EXCEPT ![Dev] = dev] /\ SetQueues(q) /\ asm' = asm
  BY DEF HandleParameterEntry, Device0
<1> HIDE DEF dev
<1>4. /\ OwnQueues(q)
      /\ Asked(q.requests, Dev, x) = {}
      /\ Asked(pending, Dev, x) # {} => Queued(q.packets, x) = Queued(output, x)
      /\ \A out, in, p : p # x /\ ReadOnceOf(Queues, out, in, Stored(dev), p) =>
           ReadOnceOf(q, out, in, Stored(dev), p)
  <2>1. /\ OwnQueues(q)
        /\ Asked(q.requests, Dev, x) = {}
        /\ Asked(Queues.requests, Dev, x) # {} =>
             Queued(q.packets, x) = Queued(Queues.packets, x)
        /\ \A out, in, p : p # x /\ ReadOnceOf(Queues, out, in, Stored(dev), p) =>
             ReadOnceOf(q, out, in, Stored(dev), p)
    BY ONLY <1>1, <1>2, EntryQueues
  <2>2. Queues.requests = pending /\ Queues.packets = output
    BY <1>1
  <2>3. QED
    BY <2>1, <2>2
<1> HIDE DEF q
<1>5. Queues' = q /\ pending' = q.requests /\ output' = q.packets
  BY <1>3, <1>4 DEF SetQueues, OwnQueues, Queues
<1>6. Device0' = dev /\ devices' \in [Addr -> Device \cup {NoDevice}]
  BY <1>1, <1>2, <1>3 DEF Device0, BrowsedOK
<1>7. Shown' = Stored(dev) /\ Shown = Stored(Device0)
  BY <1>6 DEF Shown
<1>8. ManagerOK'
  BY <1>1, <1>2, <1>3, <1>4, <1>5, <1>6 DEF ManagerOK
<1>9. ASSUME NEW out, NEW in, NEW p, p # x, ReadOnceOf(Queues, out, in, Shown, p)
      PROVE  ReadOnceOf(Queues', out, in, Shown', p)
  <2>1. p \in Shown <=> p \in Stored(dev)
    BY <1>2, <1>7, <1>9
  <2>2. ReadOnceOf(Queues, out, in, Stored(dev), p)
    BY <1>9, <2>1 DEF ReadOnceOf
  <2>3. QED
    BY <1>4, <1>5, <1>7, <1>9, <2>2
<1>10. QED
  BY <1>2, <1>4, <1>5, <1>6, <1>7, <1>8, <1>9

(* A chunk adds at most the parameter it is of, and asks for nothing that  *)
(* comes in one frame but by the enumeration.                              *)
LEMMA AssemblyParam ==
  ASSUME AssemblyOK(asm), NEW chunk \in Chunk, chunk.param \in Long, ~ Overflows(asm, chunk)
  PROVE  AssemblyOK(Buffer(asm, chunk)) /\ ChunksReceived(Buffer(asm, chunk)) \in Nat
<1>1. AsmOK(asm)
  BY DEF AssemblyOK
<1>2. AsmOK(Buffer(asm, chunk)) /\ ChunksReceived(Buffer(asm, chunk)) \in Nat
  BY <1>1, BufferOK
<1>3. Buffer(asm, chunk).param = Admit(asm, chunk).param
  BY <1>1 DEF Buffer, Admit, AsmOK, Reassembler
<1>4. Admit(asm, chunk).param \in Long
  BY DEF Admit, AssemblyOK
<1>5. QED
  BY <1>2, <1>3, <1>4 DEF AssemblyOK

LEMMA InterruptedQueues ==
  ASSUME ManagerOK, NEW chunk
  PROVE  LET q == QueuesForChunk(Dev, chunk) IN
         /\ OwnQueues(q)
         /\ \A out, in, stored : \A p \in Plain :
              ReadOnceOf(Queues, out, in, stored, p) => ReadOnceOf(q, out, in, stored, p)
<1>1. OwnQueues(Queues)
  BY DEF ManagerOK
<1>2. CASE ~ IsIdle(asm) /\ asm.param # chunk.param
  <2>1. QueuesForChunk(Dev, chunk) = RemovePending(Queues, Dev, asm.param)
    BY <1>2 DEF QueuesForChunk
  <2>2. asm.param \in Long
    BY <1>2 DEF ManagerOK, AssemblyOK
  <2>3. \A p \in Plain : asm.param # p
    BY <2>2 DEF Plain
  <2>4. OwnQueues(QueuesForChunk(Dev, chunk))
    BY <1>1, <2>1, RemoveOwn
  <2>5. ASSUME NEW out, NEW in, NEW stored, NEW p \in Plain,
               ReadOnceOf(Queues, out, in, stored, p)
        PROVE  ReadOnceOf(QueuesForChunk(Dev, chunk), out, in, stored, p)
    BY <1>1, <2>1, <2>3, <2>5, RemoveReadOnce
  <2>6. QED
    BY <2>4, <2>5
<1>3. CASE ~ (~ IsIdle(asm) /\ asm.param # chunk.param)
  <2>1. QueuesForChunk(Dev, chunk) = Queues
    BY <1>3 DEF QueuesForChunk
  <2>2. QED
    BY <1>1, <2>1
<1>4. QED
  BY <1>2, <1>3

LEMMA ChunkManager ==
  ASSUME ManagerOK, NEW chunk \in Chunk, chunk.param \in Long,
         HandleParameterChunk(Dev, chunk)
  PROVE  /\ ManagerOK'
         /\ Shown' \in {Shown, Shown \cup {chunk.param}}
         /\ \A y \in Shown \cup Plain : Device0'.params[y] = Device0.params[y]
         /\ \A out, in : \A p \in Plain :
              ReadOnceOf(Queues, out, in, Shown, p) => ReadOnceOf(Queues', out, in, Shown', p)
<1> DEFINE x == chunk.param
           q0 == QueuesForChunk(Dev, chunk)
<1>1. /\ BrowsedOK(Device0) /\ OwnQueues(Queues) /\ Dev \in Addr
      /\ devices \in [Addr -> Device \cup {NoDevice}] /\ AssemblyOK(asm)
      /\ Queues = [requests |-> pending, packets |-> output]
  BY DeviceAssumption DEF ManagerOK, Queues
<1>2. x \in Long /\ x \in DOMAIN Kind /\ x \in ParamId /\ \A p \in Plain : p # x /\ p \in ParamId
  BY KindFacts, DeviceAssumption DEF Plain
<1>3. /\ OwnQueues(q0)
      /\ \A out, in, stored : \A p \in Plain :
           ReadOnceOf(Queues, out, in, stored, p) => ReadOnceOf(q0, out, in, stored, p)
  BY InterruptedQueues
<1> HIDE DEF x, q0
(* The step ends in these queues, with the devices as they were. *)
<1> DEFINE Same(q) ==
             /\ OwnQueues(q)
             /\ \A out, in : \A p \in Plain :
                  ReadOnceOf(Queues, out, in, Shown, p) => ReadOnceOf(q, out, in, Shown, p)
<1>4. ASSUME NEW q, Same(q), SetQueues(q), devices' = devices, AssemblyOK(asm')
      PROVE  /\ ManagerOK' /\ Shown' = Shown /\ Device0' = Device0
             /\ \A out, in : \A p \in Plain :
                  ReadOnceOf(Queues, out, in, Shown, p) => ReadOnceOf(Queues', out, in, Shown', p)
  <2>1. Queues' = q
    BY <1>4 DEF SetQueues, OwnQueues, Queues
  <2>2. Device0' = Device0 /\ Shown' = Shown
    BY <1>4 DEF Device0, Shown
  <2>3. ManagerOK'
    BY <1>1, <1>4, <2>1, <2>2 DEF ManagerOK
  <2>4. QED
    BY <1>4, <2>1, <2>2, <2>3
(* ... or with the entry, or the stub, in the map of the device. *)
<1>5. ASSUME NEW content \in Content \cup {Stub}, NEW dev,
             dev = WithParameter(Device0, x, content), x \notin Shown,
             devices' = [devices EXCEPT ![Dev] = dev], AssemblyOK(asm'),
             NEW q, SetQueues(q), OwnQueues(q),
             \A out, in : \A p \in Plain :
               ReadOnceOf(q0, out, in, Stored(dev), p) => ReadOnceOf(q, out, in, Stored(dev), p)
      PROVE  /\ ManagerOK'
             /\ Shown' \in {Shown, Shown \cup {x}}
             /\ \A y \in Shown \cup Plain : Device0'.params[y] = Device0.params[y]
             /\ \A out, in : \A p \in Plain :
                  ReadOnceOf(Queues, out, in, Shown, p) => ReadOnceOf(Queues', out, in, Shown', p)
  <2>1. Queues' = q
    BY <1>5 DEF SetQueues, OwnQueues, Queues
  <2>2. /\ BrowsedOK(dev)
        /\ \A y \in ParamId \ {x} : dev.params[y] = Device0.params[y]
        /\ Stored(dev) \in {Stored(Device0), Stored(Device0) \cup {x}}
    BY <1>1, <1>2, <1>5, WithParameterBrowsed
  <2>3. Device0' = dev /\ devices' \in [Addr -> Device \cup {NoDevice}]
    BY <1>1, <1>5, <2>2 DEF Device0, BrowsedOK
  <2>4. Shown' = Stored(dev) /\ Shown = Stored(Device0)
    BY <2>3 DEF Shown
  <2>5. ManagerOK'
    BY <1>5, <2>1, <2>2, <2>3 DEF ManagerOK
  <2>6. \A y \in Shown \cup Plain : y \in ParamId \ {x}
    BY <1>2, <1>5, <2>4 DEF Stored
  <2>7. ASSUME NEW out, NEW in, NEW p \in Plain, ReadOnceOf(Queues, out, in, Shown, p)
        PROVE  ReadOnceOf(Queues', out, in, Shown', p)
    <3>1. p \in Shown <=> p \in Stored(dev)
      BY <1>2, <2>2, <2>4
    <3>2. ReadOnceOf(Queues, out, in, Stored(dev), p)
      BY <2>7, <3>1 DEF ReadOnceOf
    <3>3. ReadOnceOf(q, out, in, Stored(dev), p)
      BY <1>3, <1>5, <3>2
    <3>4. QED
      BY <2>1, <2>4, <3>3
  <2>8. QED
    BY <2>2, <2>3, <2>4, <2>5, <2>6, <2>7
<1>6. CASE HandleStaleChunk(Dev, chunk)
  <2> DEFINE q == RemovePending(Queues, Dev, x)
  <2>1. SetQueues(q) /\ devices' = devices /\ asm' = asm
    BY <1>6 DEF HandleStaleChunk, x
  <2>2. OwnQueues(q)
    BY <1>1, RemoveOwn
  <2>3. Same(q)
    BY <1>1, <1>2, <2>2, RemoveReadOnce
  <2> HIDE DEF q
  <2>4. QED
    BY <1>1, <1>4, <2>1, <2>3 DEF x
<1>7. CASE HandlePartialChunk(Dev, chunk)
  <2> DEFINE r == NewRequest(Dev, x, ChunksReceived(asm'))
             q == Enqueue(q0, r)
  <2>1. SetQueues(q) /\ devices' = devices /\ asm' = Buffer(asm, chunk) /\ ~ Overflows(asm, chunk)
    BY <1>7 DEF HandlePartialChunk, x, q0
  <2>2. AssemblyOK(asm') /\ ChunksReceived(asm') \in Nat
    BY <1>1, <1>2, <2>1, AssemblyParam DEF x
  <2>3. r \in OwnRequest /\ r.param = x /\ r.age < Timeout
    BY <1>2, <2>2, NewOwnRequest
  <2> HIDE DEF r
  <2>4. OwnQueues(q)
    BY <1>3, <2>3, EnqueueOwn
  <2>5. ASSUME NEW out, NEW in, NEW p \in Plain, ReadOnceOf(Queues, out, in, Shown, p)
        PROVE  ReadOnceOf(q, out, in, Shown, p)
    <3>1. ReadOnceOf(q0, out, in, Shown, p) /\ r.param # p
      BY <1>2, <1>3, <2>3, <2>5
    <3>2. OneRead(q, out, in, p) /\ Asked(q.requests, Dev, p) = Asked(q0.requests, Dev, p)
      BY <1>3, <2>3, <3>1, EnqueueReadOnce DEF ReadOnceOf
    <3>3. QED
      BY <3>1, <3>2 DEF ReadOnceOf
  <2> HIDE DEF q
  <2>6. Same(q)
    BY <2>4, <2>5
  <2>7. QED
    BY <1>4, <2>1, <2>2, <2>6 DEF x
<1>8. ASSUME NEW content \in Content, HandleCompletedEntry(Dev, chunk, content)
      PROVE  /\ ManagerOK'
             /\ Shown' \in {Shown, Shown \cup {x}}
             /\ \A y \in Shown \cup Plain : Device0'.params[y] = Device0.params[y]
             /\ \A out, in : \A p \in Plain :
                  ReadOnceOf(Queues, out, in, Shown, p) => ReadOnceOf(Queues', out, in, Shown', p)
  <2> DEFINE dev == WithParameter(Device0, x, content)
             q == RemovePending(EnqueueNextParameter(q0, Dev, dev), Dev, x)
  <2>1. /\ devices' = [devices EXCEPT ![Dev] = dev] /\ SetQueues(q)
        /\ asm' = Buffer(asm, chunk) /\ ~ Overflows(asm, chunk) /\ x \notin Shown
    BY <1>8 DEF HandleCompletedEntry, AcceptsChunk, Device0, Shown, x, q0
  <2>2. AssemblyOK(asm')
    BY <1>1, <1>2, <2>1, AssemblyParam DEF x
  <2>3. BrowsedOK(dev)
    BY <1>1, <1>2, WithParameterBrowsed
  <2> HIDE DEF dev
  <2>4. /\ OwnQueues(q)
        /\ \A out, in, p : p # x /\ ReadOnceOf(q0, out, in, Stored(dev), p) =>
             ReadOnceOf(q, out, in, Stored(dev), p)
    BY <1>3, <2>3, EntryQueues
  <2> HIDE DEF q
  <2>5. QED
    BY <1>2, <1>5, <2>1, <2>2, <2>4 DEF dev
<1>9. ASSUME HandleFailedChunk(Dev, chunk)
      PROVE  /\ ManagerOK'
             /\ Shown' \in {Shown, Shown \cup {x}}
             /\ \A y \in Shown \cup Plain : Device0'.params[y] = Device0.params[y]
             /\ \A out, in : \A p \in Plain :
                  ReadOnceOf(Queues, out, in, Shown, p) => ReadOnceOf(Queues', out, in, Shown', p)
  <2> DEFINE dev == WithParameter(Device0, x, Stub)
             left == RemovePending(q0, Dev, x)
             q == EnqueueNextParameter(left, Dev, dev)
  <2>1. /\ devices' = [devices EXCEPT ![Dev] = dev] /\ SetQueues(q)
        /\ asm' = Idle /\ x \notin Shown
    BY <1>9 DEF HandleFailedChunk, AcceptsChunk, Device0, Shown, x, q0
  <2>2. AssemblyOK(asm')
    BY <2>1, IdleOK DEF AssemblyOK, Idle, IsIdle
  <2>3. BrowsedOK(dev)
    BY <1>1, <1>2, WithParameterBrowsed
  <2> HIDE DEF dev
  <2>4. /\ OwnQueues(left)
        /\ \A out, in, stored, p : p # x /\ ReadOnceOf(q0, out, in, stored, p) =>
             ReadOnceOf(left, out, in, stored, p)
    BY <1>3, RemoveOwn, RemoveReadOnce
  <2> HIDE DEF left
  <2>5. /\ OwnQueues(q)
        /\ \A out, in, p : ReadOnceOf(left, out, in, Stored(dev), p) =>
             ReadOnceOf(q, out, in, Stored(dev), p)
    BY <2>3, <2>4, EnqueueNextReadOnce
  <2> HIDE DEF q
  <2>6. QED
    BY <1>2, <1>5, <2>1, <2>2, <2>4, <2>5 DEF dev
<1>10. QED
  BY <1>4, <1>6, <1>7, <1>8, <1>9 DEF HandleParameterChunk, x

-----------------------------------------------------------------------------
(* Every step keeps the types.  The keys first.                            *)

LEMMA OwnFacts ==
  ASSUME ManagerOK
  PROVE  /\ Dev \in Addr /\ BrowsedOK(Device0) /\ Device0 \in Device
         /\ Shown \subseteq DOMAIN Kind /\ IsFiniteSet(Shown)
         /\ \A p : HasData(p) => p \in DOMAIN Kind
         /\ \A p, kind : Is(p, kind) => p \in DOMAIN Kind /\ p \in Shown /\ Kind[p] = kind
         /\ pending \in [Slot -> OwnRequest \cup {NoRequest}]
         /\ output \in Seq(OwnRead) /\ Len(output) <= MaxOutput
         /\ Queues = [requests |-> pending, packets |-> output]
<1>1. /\ Queues.requests = pending /\ Queues.packets = output
      /\ Queues = [requests |-> pending, packets |-> output]
  BY DEF Queues
<1>2. Shown \subseteq DOMAIN Kind
  BY DEF ManagerOK, BrowsedOK, Shown
<1>3. IsFiniteSet(Shown)
  BY <1>2, KindFacts, FS_Subset
<1>4. QED
  BY <1>1, <1>2, <1>3, DeviceAssumption DEF ManagerOK, BrowsedOK, OwnQueues, HasData, Is

LEMMA ManagerSame == ManagerOK /\ UNCHANGED vars => ManagerOK'
BY DEF vars, ManagerOK, Queues, Device0

LEMMA LineSame == LineOK /\ UNCHANGED wire => LineOK'
BY DEF wire, LineOK

LEMMA ListLength ==
  ASSUME ManagerOK
  PROVE  Len(CurrentParameters) \in Nat
<1>1. ASSUME NEW S, S \subseteq Shown PROVE Len(InOrder(S)) \in Nat
  <2>1. S \subseteq Nat /\ IsFiniteSet(S)
    <3>1. S \subseteq DOMAIN Kind /\ DOMAIN Kind \subseteq ParamId
      BY <1>1, OwnFacts, KindFacts
    <3>2. QED
      BY <1>1, <3>1, OwnFacts, FS_Subset, ParamAssumption
  <2>2. QED
    BY <2>1, InOrderType
<1>2. ASSUME Is(0, "folder")
      PROVE  Len(At(Children[0], {i \in DOMAIN Children[0] : Children[0][i] \in Shown})) \in Nat
  <2>1. Children[0] \in Seq(DOMAIN Kind)
    BY <1>2, OwnFacts, DeviceAssumption
  <2> DEFINE places == {i \in DOMAIN Children[0] : Children[0][i] \in Shown}
  <2>2. places \subseteq DOMAIN Children[0]
    OBVIOUS
  <2> HIDE DEF places
  <2>3. At(Children[0], places) \in Seq(DOMAIN Kind)
    BY <2>1, <2>2, AtType
  <2>4. QED
    BY <2>3 DEF places
<1>3. {p \in Shown : HasData(p) /\ p \in ToSet(Children[Last(app.path)])} \subseteq Shown
  OBVIOUS
<1>4. QED
  BY <1>1, <1>2, <1>3 DEF CurrentParameters

LEMMA BrowseKeysApp ==
  ASSUME TypeInv, Down \/ Up \/ SelectFolder \/ SelectCommand \/ SelectOption \/ GoBack
  PROVE  AppOK'
<1>1. /\ Browser(app) /\ app.path # << >> /\ app.path[1] = 0
      /\ ManagerOK /\ line \in CommandLines
  BY DEF TypeInv, AppOK
<1>2. phase = "tui" /\ ~ app.editing /\ ~ app.confirming /\ phase' = phase /\ line' = line
  BY DEF Down, Up, SelectFolder, SelectCommand, SelectOption, GoBack, Browsing, KeyOnly
<1>3. CASE Down
  <2> DEFINE last == Len(CurrentParameters) - 1
  <2>1. last \in Int
    BY <1>1, ListLength
  <2>2. app' = [app EXCEPT !.cursor = IF last < 0 THEN 0 ELSE IF @ + 1 > last THEN last ELSE @ + 1]
    BY <1>3 DEF Down
  <2> HIDE DEF last
  <2>3. QED
    BY <1>1, <1>2, <2>1, <2>2 DEF AppOK, Browser, Asking
<1>4. CASE Up
  <2> DEFINE cursor == IF app.cursor = 0 THEN 0 ELSE app.cursor - 1
  <2>1. app' = [app EXCEPT !.cursor = cursor]
    BY <1>4 DEF Up
  <2>2. cursor \in Nat
    BY <1>1 DEF Browser
  <2> HIDE DEF cursor
  <2>3. QED
    BY <1>1, <1>2, <2>1, <2>2 DEF AppOK, Browser, Asking
<1>5. CASE SelectFolder
  <2>1. Selected \in DOMAIN Kind
    BY <1>1, <1>5, OwnFacts DEF SelectFolder
  <2>2. app' = [app EXCEPT !.path = Append(@, Selected), !.cursor = 0]
    BY <1>5 DEF SelectFolder
  <2> DEFINE path == Append(app.path, Selected)
  <2>3. path \in Seq(DOMAIN Kind) /\ path # << >> /\ path[1] = 0
    BY <1>1, <2>1 DEF Browser
  <2> HIDE DEF path
  <2>4. Browser(app') /\ app'.path = path /\ app'.editing = FALSE /\ app'.confirming = FALSE
    BY <1>1, <1>2, <2>2, <2>3 DEF Browser, path
  <2>5. QED
    BY <1>1, <1>2, <2>3, <2>4 DEF AppOK, Asking
<1>6. CASE SelectCommand
  BY <1>1, <1>2, <1>6 DEF SelectCommand, AppOK, Browser, Asking
<1>7. CASE SelectOption
  BY <1>1, <1>2, <1>7 DEF SelectOption, AppOK, Browser, Asking
<1>8. CASE GoBack
  <2> DEFINE path == Front(app.path)
  <2>1. app' = [app EXCEPT !.path = path, !.cursor = 0] /\ Len(app.path) > 1
    BY <1>8 DEF GoBack
  <2>2. path \in Seq(DOMAIN Kind) /\ path # << >> /\ path[1] = 0
    <3> DEFINE from == app.path
               n == Len(from) - 1
    <3>1. from \in Seq(DOMAIN Kind) /\ from[1] = 0 /\ path = SubSeq(from, 1, n)
      BY <1>1 DEF Browser, Front
    <3>2. n \in Nat /\ n >= 1 /\ n <= Len(from)
      BY <2>1, <3>1
    <3> HIDE DEF path, from, n
    <3>3. path \in Seq(DOMAIN Kind) /\ Len(path) = n /\ path[1] = from[1]
      BY <3>1, <3>2
    <3>4. QED
      BY <3>1, <3>2, <3>3
  <2> HIDE DEF path
  <2>3. QED
    BY <1>1, <1>2, <2>1, <2>2 DEF AppOK, Browser, Asking
<1>9. QED
  BY <1>3, <1>4, <1>5, <1>6, <1>7, <1>8

LEMMA EditorKeysApp ==
  ASSUME TypeInv,
         \/ \E text \in Typed : Type(text)
         \/ \E step \in {-1, 1} : Arrow(step)
         \/ Dismiss \/ ApplyNothing \/ AnswerNothing
  PROVE  AppOK'
<1>1. /\ Browser(app) /\ app.path # << >> /\ app.path[1] = 0
      /\ ManagerOK /\ line \in CommandLines
      /\ ~ (app.editing /\ app.confirming)
      /\ app.editing \/ app.confirming => phase = "tui"
      /\ phase \in {"start", "load", "tui", "verify", "get", "exit"}
  BY DEF TypeInv, AppOK, Asking
<1>2. phase' = phase /\ line' = line
  BY DEF Type, Arrow, Dismiss, ApplyNothing, AnswerNothing, KeyOnly
<1>3. ASSUME NEW text \in Typed, Type(text) PROVE AppOK'
  BY <1>1, <1>2, <1>3, ProgramAssumption DEF Type, AppOK, Browser, Asking
<1>4. ASSUME NEW step \in {-1, 1}, Arrow(step) PROVE AppOK'
  <2> DEFINE next == Neighbour(Selected, CurrentIndex(Selected), step)
  <2>1. app' = [app EXCEPT !.buffer = OptionAt(Selected, next)] /\ app.editing
    BY <1>4 DEF Arrow
  <2> HIDE DEF next
  <2>2. QED
    BY <1>1, <1>2, <2>1 DEF AppOK, Browser, Asking
<1>5. CASE Dismiss
  <2>1. app' = [app EXCEPT !.editing = FALSE, !.confirming = FALSE, !.buffer = ""]
    BY <1>5 DEF Dismiss
  <2>2. Browser(app') /\ app'.path = app.path /\ app'.editing = FALSE /\ app'.confirming = FALSE
    BY <1>1, <2>1 DEF Browser
  <2>3. QED
    BY <1>1, <1>2, <2>2 DEF AppOK, Asking
<1>6. CASE ApplyNothing
  BY <1>1, <1>2, <1>6 DEF ApplyNothing, AppOK, Browser, Asking
<1>7. CASE AnswerNothing
  BY <1>1, <1>2, <1>7 DEF AnswerNothing, AppOK, Browser, Asking
<1>8. QED
  BY <1>3, <1>4, <1>5, <1>6, <1>7

LEMMA KeyOnlyType ==
  ASSUME TypeInv, KeyOnly, AppOK'
  PROVE  TypeInv'
<1>1. ManagerOK' /\ LineOK'
  BY ManagerSame, LineSame DEF TypeInv, KeyOnly
<1>2. JobOK' /\ past' \in Past
  BY DEF TypeInv, KeyOnly, JobOK
<1>3. QED
  BY <1>1, <1>2 DEF TypeInv

(* The writes *)

LEMMA ValuesNat ==
  /\ \A p \in DOMAIN Kind : Values(p) \subseteq Nat
  /\ \A p \in DOMAIN Kind : Kind[p] = "folder" => Values(p) = {0}
  /\ \A p \in DOMAIN Kind : Kind[p] = "command" =>
       {Ready, Start, Progress, ConfirmationNeeded, Confirm, Cancel, Poll} \subseteq Values(p)
  /\ \A p \in DOMAIN Kind : Kind[p] = "selection" =>
       /\ Values(p) = Lowest(p)..Highest(p)
       /\ Lowest(p) \in Nat /\ Highest(p) \in Nat /\ Lowest(p) <= Highest(p)
<1> SUFFICES ASSUME NEW p \in DOMAIN Kind
             PROVE  /\ Values(p) \subseteq Nat
                    /\ Kind[p] = "folder" => Values(p) = {0}
                    /\ Kind[p] = "command" =>
                         {Ready, Start, Progress, ConfirmationNeeded, Confirm, Cancel, Poll}
                           \subseteq Values(p)
                    /\ Kind[p] = "selection" =>
                         /\ Values(p) = Lowest(p)..Highest(p)
                         /\ Lowest(p) \in Nat /\ Highest(p) \in Nat /\ Lowest(p) <= Highest(p)
  OBVIOUS
<1>1. CASE Kind[p] = "folder"
  BY <1>1 DEF Values
<1>2. CASE Kind[p] = "selection"
  <2>1. Limits[p] \in [min : Nat, max : Nat] /\ Lowest(p) <= Highest(p)
    BY <1>2, DeviceAssumption
  <2>2. Lowest(p) \in Nat /\ Highest(p) \in Nat
    BY <2>1 DEF Lowest, Highest
  <2>3. Values(p) = Lowest(p)..Highest(p)
    BY <1>2 DEF Values
  <2>4. QED
    BY <1>2, <2>1, <2>2, <2>3
<1>3. CASE Kind[p] = "command"
  <2>1. Values(p) = 0..6
    BY <1>3 DEF Values, Ready, Poll
  <2>2. QED
    BY <1>3, <2>1 DEF Ready, Start, Progress, ConfirmationNeeded, Confirm, Cancel, Poll
<1>4. QED
  BY <1>1, <1>2, <1>3, DeviceAssumption

Writable(p, data) == p \in DOMAIN Kind /\ Kind[p] # "folder" /\ data \in Nat

LEMMA ActionsWritable ==
  ASSUME NEW p \in DOMAIN Kind, Kind[p] = "command", NEW text, Action(text).ok
  PROVE  Writable(p, Action(text).data)
<1>1. Lower(text) \in DOMAIN Actions /\ Action(text).data = Actions[Lower(text)]
  BY DEF Action, Data, Refused
<1>2. Actions[Lower(text)] \in {Start, Confirm, Cancel, Poll}
  BY <1>1 DEF Actions
<1>3. Actions[Lower(text)] \in Nat
  BY <1>2 DEF Start, Confirm, Cancel, Poll
<1>4. QED
  BY <1>1, <1>3 DEF Writable

LEMMA IndexWritable ==
  ASSUME NEW p \in DOMAIN Kind, Kind[p] = "selection",
         NEW i \in Lowest(p)..Highest(p) \cup 0..(Len(Options[p]) - 1)
  PROVE  Writable(p, i)
<1>1. Lowest(p) \in Nat /\ Highest(p) \in Nat
  BY ValuesNat
<1>2. Options[p] \in Seq(STRING)
  BY DeviceAssumption
<1> DEFINE low == Lowest(p)
           high == Highest(p)
           n == Len(Options[p])
<1>3. low \in Nat /\ high \in Nat /\ n \in Nat /\ i \in low..high \cup 0..(n - 1)
  BY <1>1, <1>2
<1> HIDE DEF low, high, n
<1>4. i \in Nat
  BY <1>3
<1>5. QED
  BY <1>4 DEF Writable

LEMMA ResolvedWritable ==
  ASSUME ManagerOK, NEW p, NEW text, ResolveWriteData(p, text).ok
  PROVE  Writable(p, ResolveWriteData(p, text).data) /\ p \in Shown
<1> DEFINE i == Index(p, text)
<1>1. CASE Is(p, "selection")
  <2>1. ResolveWriteData(p, text) = IF i \in Lowest(p)..Highest(p) THEN Data(i) ELSE Refused
    BY <1>1 DEF ResolveWriteData, Is
  <2> HIDE DEF i
  <2>2. i \in Lowest(p)..Highest(p) /\ ResolveWriteData(p, text).data = i
    BY <2>1 DEF Data, Refused
  <2>3. QED
    BY <1>1, <2>2, OwnFacts, IndexWritable
<1>2. CASE Is(p, "command")
  <2>1. ResolveWriteData(p, text) =
          IF Lower(text) = "start" /\ ValueOf(p) # Ready THEN Refused ELSE Action(text)
    BY <1>2 DEF ResolveWriteData, Is
  <2>2. ResolveWriteData(p, text) = Action(text)
    BY <2>1 DEF Refused
  <2>3. QED
    BY <1>2, <2>2, OwnFacts, ActionsWritable
<1>3. CASE ~ Is(p, "selection") /\ ~ Is(p, "command")
  BY <1>3 DEF ResolveWriteData, Refused
<1>4. QED
  BY <1>1, <1>2, <1>3

LEMMA SchemaWritable ==
  ASSUME NEW p \in DOMAIN Kind, NEW text, ResolveFromSchema(p, text).ok
  PROVE  Writable(p, ResolveFromSchema(p, text).data)
<1> DEFINE i == Index(p, text)
<1>1. CASE Kind[p] = "selection"
  <2>1. ResolveFromSchema(p, text) =
          IF i \in 0..(Len(Options[p]) - 1) THEN Data(i) ELSE Refused
    BY <1>1 DEF ResolveFromSchema
  <2> HIDE DEF i
  <2>2. i \in 0..(Len(Options[p]) - 1) /\ ResolveFromSchema(p, text).data = i
    BY <2>1 DEF Data, Refused
  <2>3. QED
    BY <1>1, <2>2, IndexWritable
<1>2. CASE Kind[p] = "command"
  <2>1. ResolveFromSchema(p, text) = Action(text)
    BY <1>2 DEF ResolveFromSchema
  <2>2. QED
    BY <1>2, <2>1, ActionsWritable
<1>3. CASE Kind[p] # "selection" /\ Kind[p] # "command"
  BY <1>3 DEF ResolveFromSchema, Refused
<1>4. QED
  BY <1>1, <1>2, <1>3

LEMMA AssignedWritable ==
  ASSUME ManagerOK, NEW w, w.param \in DOMAIN Kind
  PROVE  /\ Assigned(w).ok => Writable(w.param, Assigned(w).data)
         /\ AssignedBySchema(w).ok => Writable(w.param, AssignedBySchema(w).data)
<1>1. Kind[w.param] = "command" => Writable(w.param, Start) /\ Writable(w.param, Confirm)
  BY DEF Writable, Start, Confirm
<1>2. Is(w.param, "command") => Kind[w.param] = "command"
  BY DEF Is
<1>3. Assigned(w).ok => Writable(w.param, Assigned(w).data)
  BY <1>1, <1>2, ResolvedWritable DEF Assigned, Data, Refused
<1>4. AssignedBySchema(w).ok => Writable(w.param, AssignedBySchema(w).data)
  BY <1>1, SchemaWritable DEF AssignedBySchema, Data, Refused
<1>5. QED
  BY <1>3, <1>4

LEMMA WriteFrameType ==
  ASSUME NEW p, NEW data, Writable(p, data)
  PROVE  WriteFrame(p, data) \in Writing
BY DEF WriteFrame, Writing, Writable

(* A map that lacks a parameter is not loaded, or has one to ask for.      *)
LEMMA ResetBrowsed ==
  ASSUME NEW dev, BrowsedOK(dev), NEW ps, NEW p \in DOMAIN Kind, p \in ps
  PROVE  LET reset == [Without(dev, ps) EXCEPT !.loaded = FALSE] IN
         /\ BrowsedOK(reset)
         /\ Stored(reset) = Stored(dev) \ ps
         /\ \A x \in ParamId \ ps : reset.params[x] = dev.params[x]
<1> DEFINE less == Without(dev, ps)
           reset == [less EXCEPT !.loaded = FALSE]
<1>1. /\ less \in Device /\ less.total = Total
      /\ Stored(less) = Stored(dev) \ ps
      /\ \A x \in ParamId \ ps : less.params[x] = dev.params[x]
  BY WithoutBrowsed
<1> HIDE DEF less
<1>2. /\ reset \in Device /\ reset.total = Total /\ reset.params = less.params
  BY <1>1 DEF Device
<1> HIDE DEF reset
<1>3. Stored(reset) = Stored(less)
  BY <1>2 DEF Stored
<1>4. Stored(reset) \subseteq DOMAIN Kind /\ p \notin Stored(reset)
  BY <1>1, <1>3 DEF BrowsedOK
<1>5. QED
  BY <1>1, <1>2, <1>3, <1>4 DEF BrowsedOK, reset, less

(* The manager, with new requests and another map for this device. *)
LEMMA ManagerRestored ==
  ASSUME ManagerOK, NEW dev, BrowsedOK(dev), devices' = [devices EXCEPT ![Dev] = dev],
         pending' \in [Slot -> OwnRequest \cup {NoRequest}], UNCHANGED <<asm, output>>
  PROVE  ManagerOK' /\ Device0' = dev /\ Shown' = Stored(dev)
<1>1. Device0' = dev /\ devices' \in [Addr -> Device \cup {NoDevice}]
  BY DeviceAssumption DEF ManagerOK, Device0, BrowsedOK
<1>2. Shown' = Stored(dev)
  BY <1>1 DEF Shown
<1>3. OwnQueues(Queues')
  BY OwnFacts DEF OwnQueues, Queues
<1>4. QED
  BY <1>1, <1>2, <1>3 DEF ManagerOK

LEMMA WriteType ==
  ASSUME TypeInv, NEW p, NEW data, Writable(p, data), past.edits < MaxEdits,
         WriteAndReread(p, data)
  PROVE  /\ TypeInv'
         /\ Shown' = Shown \ {p}
         /\ \A x \in ParamId \ {p} : Device0'.params[x] = Device0.params[x]
<1> DEFINE q == RequestEach(pending, <<p>>)
           dev == [Without(Device0, {p}) EXCEPT !.loaded = FALSE]
<1>1. ManagerOK /\ LineOK /\ AppOK /\ JobOK /\ past \in Past /\ p \in DOMAIN Kind
  BY DEF TypeInv, Writable
<1>2. /\ q.requests \in [Slot -> OwnRequest \cup {NoRequest}]
      /\ q.packets \in Seq(Reading)
  <2>1. <<p>> \in Seq(DOMAIN Kind)
    BY <1>1
  <2>2. QED
    BY <1>1, <2>1, OwnFacts, RequestEachOwn
<1>3. /\ BrowsedOK(dev) /\ Stored(dev) = Shown \ {p}
      /\ \A x \in ParamId \ {p} : dev.params[x] = Device0.params[x]
  BY <1>1, OwnFacts, ResetBrowsed DEF Shown
<1>4. /\ devices' = [devices EXCEPT ![Dev] = dev] /\ pending' = q.requests
      /\ toDevice' = Append(toDevice, WriteFrame(p, data)) \o q.packets
      /\ UNCHANGED <<asm, output, held, toHost, losses, line, phase, job>>
      /\ past' = [past EXCEPT !.edits = @ + 1]
      /\ app' = [app EXCEPT !.editing = FALSE, !.confirming = FALSE, !.buffer = "",
                            !.waiting = IF q.packets # << >> THEN @ \cup {p} ELSE @]
  BY DEF WriteAndReread, Device0
<1> HIDE DEF q, dev
<1>5. ManagerOK' /\ Device0' = dev /\ Shown' = Stored(dev)
  BY <1>1, <1>2, <1>3, <1>4, ManagerRestored
<1>6. LineOK'
  <2>1. WriteFrame(p, data) \in Reading \cup Writing
    BY WriteFrameType
  <2>2. q.packets \in Seq(Reading \cup Writing) /\ toDevice \in Seq(Reading \cup Writing)
    BY <1>1, <1>2 DEF LineOK
  <2>3. toDevice' \in Seq(Reading \cup Writing)
    BY <1>4, <2>1, <2>2
  <2>4. QED
    BY <1>1, <1>4, <2>3 DEF LineOK
<1>7. AppOK'
  <2> DEFINE waiting == IF q.packets # << >> THEN app.waiting \cup {p} ELSE app.waiting
  <2>1. /\ Browser(app) /\ app.path # << >> /\ app.path[1] = 0 /\ waiting \subseteq DOMAIN Kind
    BY <1>1 DEF AppOK, Browser
  <2>2. app' = [app EXCEPT !.editing = FALSE, !.confirming = FALSE, !.buffer = "",
                           !.waiting = waiting]
    BY <1>4
  <2> HIDE DEF waiting
  <2>3. /\ Browser(app') /\ app'.path = app.path
        /\ app'.editing = FALSE /\ app'.confirming = FALSE
    BY <2>1, <2>2 DEF Browser
  <2>4. QED
    BY <1>1, <1>4, <2>1, <2>3 DEF AppOK, Asking
<1>8. JobOK'
  BY <1>1, <1>4 DEF JobOK
<1>9. past' \in Past
  BY <1>1, <1>4, ProgramAssumption DEF Past
<1>10. QED
  BY <1>3, <1>5, <1>6, <1>7, <1>8, <1>9 DEF TypeInv

(* The keys that write, and what they write. *)
LEMMA WritingKeys ==
  ASSUME TypeInv, ApplyEdit \/ ExecuteCommand \/ CancelCommand \/ PollCommand
  PROVE  \E data : /\ WriteAndReread(Selected, data)
                   /\ Writable(Selected, data) /\ Selected \in Shown
                   /\ past.edits < MaxEdits /\ HasSelected
                   /\ ApplyEdit => data = ResolveWriteData(Selected, app.buffer).data
                   /\ ExecuteCommand => data = AimOf(Selected)
<1>1. ManagerOK
  BY DEF TypeInv
<1>2. CASE ApplyEdit
  <2>1. ~ ExecuteCommand
    BY <1>2 DEF ApplyEdit, ExecuteCommand, Answered, TypeInv, AppOK
  <2>2. QED
    BY <1>1, <1>2, <2>1, ResolvedWritable DEF ApplyEdit
<1>3. ASSUME NEW action \in {Start, Confirm, Cancel, Poll}, Is(Selected, "command")
      PROVE  Writable(Selected, action) /\ Selected \in Shown
  <2>1. action \in Nat
    BY DEF Start, Confirm, Cancel, Poll
  <2>2. QED
    BY <1>1, <1>3, <2>1, OwnFacts DEF Writable
<1>4. CASE ExecuteCommand
  <2>1. ~ ApplyEdit
    BY <1>4 DEF ApplyEdit, ExecuteCommand, Answered, TypeInv, AppOK
  <2>2. AimOf(Selected) \in {Start, Confirm, Cancel, Poll}
    BY DEF AimOf
  <2>3. QED
    BY <1>3, <1>4, <2>1, <2>2 DEF ExecuteCommand, Answered, AimOf
<1>5. CASE (CancelCommand \/ PollCommand) /\ ~ ApplyEdit /\ ~ ExecuteCommand
  BY <1>3, <1>5 DEF CancelCommand, PollCommand, Answered
<1>6. QED
  BY <1>2, <1>4, <1>5

LEMMA WritingKeysType ==
  ASSUME TypeInv, ApplyEdit \/ ExecuteCommand \/ CancelCommand \/ PollCommand
  PROVE  TypeInv'
BY WritingKeys, WriteType

LEMMA RefreshType ==
  ASSUME TypeInv, Refresh
  PROVE  TypeInv' /\ Shown' = {}
<1> DEFINE dev == [Without(Device0, ParamId) EXCEPT !.loaded = FALSE]
<1>1. ManagerOK /\ LineOK /\ AppOK /\ JobOK /\ past \in Past
  BY DEF TypeInv
<1>2. BrowsedOK(dev) /\ Stored(dev) = {}
  <2>1. 0 \in DOMAIN Kind /\ 0 \in ParamId
    BY KindFacts
  <2>2. BrowsedOK(dev) /\ Stored(dev) = Shown \ ParamId
    BY <1>1, <2>1, OwnFacts, ResetBrowsed DEF Shown
  <2>3. Shown \subseteq ParamId
    BY DEF Shown, Stored
  <2>4. QED
    BY <2>2, <2>3
<1>3. /\ devices' = [devices EXCEPT ![Dev] = dev]
      /\ UNCHANGED <<pending, asm, output, wire, line, phase, job, edit>>
      /\ past' = [past EXCEPT !.refreshes = @ + 1, !.stalled = Untracked]
      /\ app' = [app EXCEPT !.waiting = 0..(Total - 1)]
      /\ past.refreshes < MaxRefresh /\ ~ app.editing /\ ~ app.confirming
  BY DEF Refresh, Browsing, Device0
<1> HIDE DEF dev
<1>4. ManagerOK' /\ Shown' = {}
  BY <1>1, <1>2, <1>3, OwnFacts, ManagerRestored
<1>5. LineOK' /\ JobOK'
  BY <1>1, <1>3, LineSame DEF JobOK
<1>6. AppOK'
  BY <1>1, <1>3, KindFacts DEF AppOK, Browser, Asking
<1>7. past' \in Past
  <2>1. Untracked \in BOOLEAN
    BY DEF Untracked
  <2>2. past.refreshes + 1 \in 0..MaxRefresh
    BY <1>1, <1>3, ProgramAssumption DEF Past
  <2>3. QED
    BY <1>1, <1>3, <2>1, <2>2 DEF Past
<1>8. QED
  BY <1>4, <1>5, <1>6, <1>7 DEF TypeInv

-----------------------------------------------------------------------------
(* The jobs *)

LEMMA WritesType ==
  ASSUME TypeInv
  PROVE  /\ \A i \in DOMAIN Resolved : Writable(Resolved[i].param, Resolved[i].to.data)
         /\ Len(Resolved) \in Nat /\ DOMAIN Resolved = 1..Len(Resolved)
         /\ Len(Resolved) <= Len(line.writes)
<1>1. ManagerOK /\ line \in CommandLines
  BY DEF TypeInv, AppOK
<1> DEFINE writes == line.writes
           To(w) == IF line.command = "set" THEN Assigned(w) ELSE AssignedBySchema(w)
           all == [i \in DOMAIN writes |-> [param |-> writes[i].param, to |-> To(writes[i])]]
           T == {all[i] : i \in DOMAIN all}
           places == {i \in DOMAIN all : all[i].to.ok}
<1>2. writes \in Seq([param : DOMAIN Kind, text : STRING])
  BY <1>1, ProgramAssumption
<1>3. all \in Seq(T) /\ Len(all) = Len(writes)
  <2>1. DOMAIN writes = 1..Len(writes) /\ Len(writes) \in Nat
    BY <1>2
  <2>2. QED
    BY <2>1
<1>4. Resolved = At(all, places)
  BY DEF Resolved
<1>5. \A i \in DOMAIN all : /\ all[i].param = writes[i].param /\ all[i].to = To(writes[i])
                            /\ writes[i].param \in DOMAIN Kind
  <2> DEFINE Write == [param : DOMAIN Kind, text : STRING]
  <2>1. writes \in Seq(Write) /\ \A w \in Write : w.param \in DOMAIN Kind
    BY <1>2
  <2> HIDE DEF Write, writes
  <2>2. \A i \in DOMAIN writes : writes[i] \in Write /\ writes[i].param \in DOMAIN Kind
    BY <2>1
  <2> HIDE DEF To
  <2>3. QED
    BY <2>2
<1>6. \A k \in places : Writable(all[k].param, all[k].to.data)
  BY <1>1, <1>5, AssignedWritable
<1>7. places \subseteq DOMAIN all
  OBVIOUS
<1> HIDE DEF all, T, places, To
<1>8. /\ At(all, places) \in Seq(T) /\ Len(At(all, places)) <= Len(all)
      /\ \A i \in DOMAIN At(all, places) : \E k \in places : At(all, places)[i] = all[k]
  BY <1>3, <1>7, AtType
<1>9. QED
  BY <1>3, <1>4, <1>6, <1>8

(* Requests grow older, and are otherwise what they were.                  *)
LEMMA OlderOwn ==
  ASSUME NEW r \in OwnRequest \cup {NoRequest}, NEW elapsed \in Nat
  PROVE  /\ Older(r, elapsed) \in OwnRequest \cup {NoRequest}
         /\ r = NoRequest => Older(r, elapsed) = NoRequest
         /\ r # NoRequest => /\ Older(r, elapsed) # NoRequest
                             /\ Older(r, elapsed).param = r.param
                             /\ Older(r, elapsed).retries = r.retries
         /\ elapsed = 0 => Older(r, elapsed) = r
<1>1. CASE r = NoRequest
  BY <1>1 DEF Older
<1>2. CASE r # NoRequest
  <2> DEFINE age == IF r.age + elapsed < Timeout THEN r.age + elapsed ELSE Timeout
  <2>1. r \in OwnRequest
    BY <1>2
  <2>2. age \in 0..Timeout /\ (elapsed = 0 => age = r.age)
    BY <2>1, TimingAssumption DEF OwnRequest, Request
  <2>3. Older(r, elapsed) = [r EXCEPT !.age = age]
    BY <1>2 DEF Older
  <2> HIDE DEF age
  <2>4. /\ Older(r, elapsed) \in OwnRequest /\ Older(r, elapsed).param = r.param
        /\ Older(r, elapsed).retries = r.retries
        /\ elapsed = 0 => Older(r, elapsed) = r
    BY <2>1, <2>2, <2>3 DEF OwnRequest, Request
  <2>5. Older(r, elapsed) # NoRequest
    BY <2>4, NullAssumption DEF OwnRequest
  <2>6. QED
    BY <1>2, <2>4, <2>5
<1>3. QED
  BY <1>1, <1>2

LEMMA AgedOwn ==
  ASSUME NEW requests \in [Slot -> OwnRequest \cup {NoRequest}], NEW elapsed \in Nat
  PROVE  Aged(requests, elapsed) \in [Slot -> OwnRequest \cup {NoRequest}]
<1>1. \A s \in Slot : Older(requests[s], elapsed) \in OwnRequest \cup {NoRequest}
  BY OlderOwn
<1>2. QED
  BY <1>1 DEF Aged

(* The first time that is told. *)
LEMMA FirstToldNat == FirstTold \subseteq 0..Timeout /\ FirstTold \subseteq Nat
BY TimingAssumption DEF FirstTold

LEMMA FirstAged ==
  ASSUME past \in Past, NEW requests \in [Slot -> OwnRequest \cup {NoRequest}],
         \E elapsed \in FirstTold : pending' = Aged(requests, elapsed) /\ Overdue(elapsed)
  PROVE  pending' \in [Slot -> OwnRequest \cup {NoRequest}] /\ past' \in Past
<1>1. PICK elapsed \in FirstTold : pending' = Aged(requests, elapsed) /\ Overdue(elapsed)
  OBVIOUS
<1>2. pending' \in [Slot -> OwnRequest \cup {NoRequest}]
  BY <1>1, FirstToldNat, AgedOwn
<1> DEFINE hasty == elapsed = Timeout
<1>3. past' = [past EXCEPT !.hasty = hasty] /\ hasty \in BOOLEAN
  BY <1>1 DEF Overdue
<1> HIDE DEF hasty
<1>4. past' \in Past
  BY <1>3 DEF Past
<1>5. QED
  BY <1>2, <1>4

LEMMA SetStartType ==
  ASSUME TypeInv, SetStart
  PROVE  TypeInv'
<1> DEFINE ids == [i \in DOMAIN Resolved |-> Resolved[i].param]
           q == RequestEach(pending, ids)
           dev == Without(Device0, ToSet(ids))
           writes == [i \in DOMAIN Resolved |-> WriteFrame(Resolved[i].param, Resolved[i].to.data)]
           n == Len(Resolved)
<1>1. ManagerOK /\ LineOK /\ AppOK /\ JobOK /\ past \in Past
  BY DEF TypeInv
<1>2. /\ \A i \in 1..n : Writable(Resolved[i].param, Resolved[i].to.data)
      /\ n \in Nat /\ DOMAIN Resolved = 1..n
  BY WritesType
<1>3. ids \in Seq(DOMAIN Kind)
  BY <1>2 DEF Writable
<1>4. writes \in Seq(Writing)
  BY <1>2, WriteFrameType
<1>5. /\ toDevice' = toDevice \o (writes \o q.packets)
      /\ \E elapsed \in FirstTold : pending' = Aged(q.requests, elapsed) /\ Overdue(elapsed)
      /\ devices' = [devices EXCEPT ![Dev] = dev]
      /\ job' = [job EXCEPT !.ids = ids] /\ phase' = "verify"
      /\ UNCHANGED <<asm, output, held, toHost, losses, line, app, edit>>
  BY DEF SetStart, WritesThenReads, Device0
<1> HIDE DEF ids, writes, q, dev, n
<1>6. /\ q.requests \in [Slot -> OwnRequest \cup {NoRequest}]
      /\ q.packets \in Seq(Reading)
  BY <1>1, <1>3, OwnFacts, RequestEachOwn DEF q
<1>12. pending' \in [Slot -> OwnRequest \cup {NoRequest}] /\ past' \in Past
  BY <1>1, <1>5, <1>6, FirstAged
<1>7. ManagerOK'
  <2>1. BrowsedOK(dev)
    BY <1>1, OwnFacts, WithoutBrowsed DEF dev
  <2>2. QED
    BY <1>1, <1>5, <1>12, <2>1, ManagerRestored
<1>8. LineOK'
  <2>1. /\ writes \in Seq(Reading \cup Writing) /\ q.packets \in Seq(Reading \cup Writing)
        /\ toDevice \in Seq(Reading \cup Writing)
    BY <1>1, <1>4, <1>6 DEF LineOK
  <2>2. toDevice' \in Seq(Reading \cup Writing)
    BY <1>5, <2>1
  <2>3. QED
    BY <1>1, <1>5, <2>2 DEF LineOK
<1>9. AppOK'
  <2>1. ~ Asking
    BY <1>1 DEF SetStart, MayStart, AppOK
  <2>2. QED
    BY <1>1, <1>5, <2>1 DEF AppOK, Asking
<1>10. JobOK'
  <2>1. DOMAIN job.told = {} /\ job.remaining = {}
    BY <1>1 DEF SetStart, MayStart, JobOK
  <2>2. QED
    BY <1>1, <1>3, <1>5, <2>1 DEF JobOK
<1>11. QED
  BY <1>7, <1>8, <1>9, <1>10, <1>12 DEF TypeInv

LEMMA GetStartType ==
  ASSUME TypeInv, GetStart
  PROVE  TypeInv'
<1> DEFINE writes == line.writes
           ids == [i \in DOMAIN writes |-> writes[i].param]
           q == RequestEach(pending, ids)
<1>1. ManagerOK /\ LineOK /\ AppOK /\ JobOK /\ past \in Past
  BY DEF TypeInv
<1>2. ids \in Seq(DOMAIN Kind)
  <2> DEFINE Write == [param : DOMAIN Kind, text : STRING]
  <2>1. writes \in Seq(Write) /\ \A w \in Write : w.param \in DOMAIN Kind
    BY <1>1, ProgramAssumption DEF AppOK
  <2> HIDE DEF Write, writes
  <2>2. DOMAIN writes = 1..Len(writes) /\ Len(writes) \in Nat
    BY <2>1
  <2>3. \A i \in DOMAIN writes : writes[i].param \in DOMAIN Kind
    BY <2>1
  <2>4. QED
    BY <2>2, <2>3
<1>3. /\ toDevice' = toDevice \o q.packets
      /\ \E elapsed \in FirstTold : pending' = Aged(q.requests, elapsed) /\ Overdue(elapsed)
      /\ job' = [job EXCEPT !.ids = ids, !.remaining = ToSet(ids)] /\ phase' = "get"
      /\ UNCHANGED <<devices, asm, output, held, toHost, losses, line, app, edit>>
  BY DEF GetStart
<1> HIDE DEF ids, q
<1>4. /\ q.requests \in [Slot -> OwnRequest \cup {NoRequest}]
      /\ q.packets \in Seq(Reading)
  BY <1>1, <1>2, OwnFacts, RequestEachOwn DEF q
<1>10. pending' \in [Slot -> OwnRequest \cup {NoRequest}] /\ past' \in Past
  BY <1>1, <1>3, <1>4, FirstAged
<1>5. ManagerOK'
  <2>1. devices' = [devices EXCEPT ![Dev] = Device0] /\ BrowsedOK(Device0)
    BY <1>1, <1>3, OwnFacts DEF Device0, ManagerOK
  <2>2. QED
    BY <1>1, <1>3, <1>10, <2>1, ManagerRestored
<1>6. LineOK'
  <2>1. q.packets \in Seq(Reading \cup Writing) /\ toDevice \in Seq(Reading \cup Writing)
    BY <1>1, <1>4 DEF LineOK
  <2>2. toDevice' \in Seq(Reading \cup Writing)
    BY <1>3, <2>1
  <2>3. QED
    BY <1>1, <1>3, <2>2 DEF LineOK
<1>7. AppOK'
  BY <1>1, <1>3 DEF GetStart, AppOK, Asking
<1>8. JobOK'
  <2>1. DOMAIN job.told = {}
    BY <1>1 DEF GetStart, JobOK
  <2>2. QED
    BY <1>1, <1>2, <1>3, <2>1 DEF JobOK
<1>9. QED
  BY <1>5, <1>6, <1>7, <1>8, <1>10 DEF TypeInv

LEMMA JobEndsType ==
  ASSUME TypeInv, SetNothing \/ GetDone \/ Verified \/ GiveUp
  PROVE  TypeInv'
<1>1. ManagerOK /\ LineOK /\ AppOK /\ JobOK /\ past \in Past
  BY DEF TypeInv
<1>2. /\ UNCHANGED <<vars, wire, line, app, edit>> /\ phase' = "exit"
      /\ phase \in {"load", "start", "verify", "get"}
  BY DEF SetNothing, GetDone, Verified, GiveUp, MayStart
<1>3. ManagerOK' /\ LineOK'
  BY <1>1, <1>2, ManagerSame, LineSame
<1>4. AppOK'
  BY <1>1, <1>2 DEF AppOK, Asking
<1>5. /\ DOMAIN job' = DOMAIN job /\ job'.ids = job.ids /\ job'.remaining = job.remaining
      /\ DOMAIN job'.told \in {DOMAIN job.told, ToSet(job.ids) \cap Shown}
  <2>1. CASE job' = job
    BY <2>1
  <2>2. CASE GetDone
    <3> DEFINE told == [p \in ToSet(job.ids) \cap Shown |-> Looked(Device0, p)]
    <3>1. job' = [job EXCEPT !.told = told] /\ DOMAIN told = ToSet(job.ids) \cap Shown
      BY <2>2 DEF GetDone
    <3> HIDE DEF told
    <3>2. QED
      BY <1>1, <3>1 DEF JobOK
  <2>3. QED
    BY <2>1, <2>2 DEF SetNothing, Verified, GiveUp
<1>6. JobOK'
  BY <1>1, <1>2, <1>5 DEF JobOK
<1>7. past' \in Past
  <2> DEFINE cut == job.remaining # {} /\ ~ AtRest
  <2>1. past' = past \/ past' = [past EXCEPT !.cut = cut]
    BY DEF SetNothing, GetDone, Verified, GiveUp
  <2>2. cut \in BOOLEAN
    OBVIOUS
  <2> HIDE DEF cut
  <2>3. QED
    BY <1>1, <2>1, <2>2 DEF Past
<1>8. QED
  BY <1>3, <1>4, <1>6, <1>7 DEF TypeInv

-----------------------------------------------------------------------------
(* The packets *)

LEMMA HeadFacts ==
  ASSUME LineOK, toHost # << >>
  PROVE  /\ Head(toHost) \in Telling \cup Chunking
         /\ Tail(toHost) \in Seq(Telling \cup Chunking)
         /\ Head(toHost).kind = "entry" => Head(toHost) \in Telling
         /\ Head(toHost).kind = "chunk" => Head(toHost) \in Chunking
<1>1. /\ Head(toHost) \in Telling \cup Chunking
      /\ Tail(toHost) \in Seq(Telling \cup Chunking)
  BY DEF LineOK
<1>2. /\ \A f \in Telling : f.kind = "entry"
      /\ \A f \in Chunking : f.kind = "chunk"
  BY DEF Telling, Chunking
<1>3. QED
  BY <1>1, <1>2

LEMMA EntryFacts ==
  ASSUME LineOK, toHost # << >>, Head(toHost).kind = "entry"
  PROVE  LET frame == Head(toHost) IN
         /\ frame.param \in Plain /\ frame.param \in DOMAIN Kind
         /\ frame.value \in Values(frame.param)
         /\ Entry(frame.param, frame.value) \in Content
         /\ Entry(frame.param, frame.value) # Stub
         /\ Entry(frame.param, frame.value).value = frame.value
<1> DEFINE frame == Head(toHost)
<1>1. frame \in Telling
  BY HeadFacts
<1> HIDE DEF frame
<1>2. /\ frame.param \in Plain /\ frame.param \in DOMAIN Kind
      /\ frame.value \in Values(frame.param)
  BY <1>1 DEF Telling, Plain
<1>3. Entry(frame.param, frame.value) \in Content
  BY <1>2, EntryAssumption
<1>4. Entry(frame.param, frame.value).value = frame.value
  BY DEF Entry
<1>5. QED
  BY <1>2, <1>3, <1>4, ContentAssumption DEF frame

LEMMA ReceivedLine ==
  ASSUME LineOK, toHost # << >>, toHost' = Tail(toHost),
         UNCHANGED <<held, toDevice, losses>>
  PROVE  LineOK'
BY HeadFacts DEF LineOK

LEMMA NotedType ==
  ASSUME AppOK, JobOK, NEW x, Noted(x), UNCHANGED <<line, phase>>
  PROVE  AppOK' /\ JobOK'
<1> DEFINE stored == Stored(devices'[Dev])
<1>1. /\ \/ app' = app
         \/ app' = [app EXCEPT !.waiting = @ \ stored]
      /\ \/ job' = job
         \/ job' = [job EXCEPT !.remaining = @ \ {x}]
  BY DEF Noted
<1> HIDE DEF stored
<1>2. AppOK'
  BY <1>1 DEF AppOK, Browser, Asking
<1>3. JobOK'
  BY <1>1 DEF JobOK
<1>4. QED
  BY <1>2, <1>3

LEMMA ReceiveEntryType ==
  ASSUME TypeInv, ReceiveEntry
  PROVE  TypeInv'
<1> DEFINE x == Head(toHost).param
           content == Entry(Head(toHost).param, Head(toHost).value)
<1>1. ManagerOK /\ LineOK /\ AppOK /\ JobOK /\ past \in Past
  BY DEF TypeInv
<1>2. /\ toHost # << >> /\ Head(toHost).kind = "entry"
      /\ HandleParameterEntry(Dev, x, content) /\ Noted(x)
      /\ toHost' = Tail(toHost)
      /\ UNCHANGED <<held, toDevice, losses, line, phase, edit, past>>
  BY DEF ReceiveEntry, Arrives
<1>3. x \in DOMAIN Kind /\ content \in Content
  BY <1>1, <1>2, EntryFacts
<1> HIDE DEF x, content
<1>4. ManagerOK'
  BY <1>1, <1>2, <1>3, EntryManager
<1>5. LineOK' /\ AppOK' /\ JobOK' /\ past' \in Past
  BY <1>1, <1>2, ReceivedLine, NotedType
<1>6. QED
  BY <1>4, <1>5 DEF TypeInv

LEMMA ReceiveChunkType ==
  ASSUME TypeInv, ReceiveChunk
  PROVE  TypeInv'
<1> DEFINE chunk == Head(toHost).chunk
<1>1. ManagerOK /\ LineOK /\ AppOK /\ JobOK /\ past \in Past
  BY DEF TypeInv
<1>2. /\ toHost # << >> /\ Head(toHost).kind = "chunk"
      /\ HandleParameterChunk(Dev, chunk)
      /\ IF chunk.remaining = 0 THEN Noted(chunk.param) ELSE UNCHANGED <<app, job>>
      /\ toHost' = Tail(toHost)
      /\ UNCHANGED <<held, toDevice, losses, line, phase, edit, past>>
  BY DEF ReceiveChunk, Arrives
<1>3. chunk \in Chunk /\ chunk.param \in Long
  BY <1>1, <1>2, HeadFacts DEF Chunking
<1> HIDE DEF chunk
<1>4. ManagerOK'
  BY <1>1, <1>2, <1>3, ChunkManager
<1>5. LineOK' /\ past' \in Past
  BY <1>1, <1>2, ReceivedLine
<1>6. AppOK' /\ JobOK'
  BY <1>1, <1>2, NotedType DEF AppOK, JobOK, Asking
<1>7. QED
  BY <1>4, <1>5, <1>6 DEF TypeInv

(* `set --check` *)

(* One more parameter is told. *)
LEMMA MoreTold ==
  ASSUME JobOK, NEW x, NEW v, Awaited(x), job' = [job EXCEPT !.told = Told(@, x, v)],
         phase = "verify", phase' = phase
  PROVE  JobOK'
<1> DEFINE told == Told(job.told, x, v)
<1>1. DOMAIN told = {x} \cup DOMAIN job.told
  BY DEF Told
<1>2. x \in ToSet(job.ids)
  BY DEF Awaited
<1>3. job' = [job EXCEPT !.told = told]
  OBVIOUS
<1> HIDE DEF told
<1>4. /\ DOMAIN job' = DOMAIN job /\ job'.told = told
      /\ job'.ids = job.ids /\ job'.remaining = job.remaining
  BY <1>3 DEF JobOK
<1>5. QED
  BY <1>1, <1>2, <1>4 DEF JobOK

LEMMA VerifyEntryType ==
  ASSUME TypeInv, VerifyEntry
  PROVE  TypeInv'
<1> DEFINE x == Head(toHost).param
           value == Head(toHost).value
           seen == Seen(Head(toHost))
<1>1. ManagerOK /\ LineOK /\ AppOK /\ JobOK /\ past \in Past
  BY DEF TypeInv
<1>2. /\ toHost # << >> /\ Head(toHost).kind = "entry" /\ phase = "verify"
      /\ HandleParameterEntry(Dev, x, Entry(x, value))
      /\ \/ job' = job
         \/ Awaited(x) /\ job' = [job EXCEPT !.told = Told(@, x, seen)]
      /\ toHost' = Tail(toHost)
      /\ UNCHANGED <<held, toDevice, losses, line, phase, app, edit, past>>
  BY DEF VerifyEntry, Arrives
<1>3. x \in DOMAIN Kind /\ Entry(x, value) \in Content
  BY <1>1, <1>2, EntryFacts
<1> HIDE DEF x, value, seen
<1>4. ManagerOK'
  BY <1>1, <1>2, <1>3, EntryManager
<1>5. LineOK' /\ AppOK' /\ past' \in Past
  BY <1>1, <1>2, ReceivedLine DEF AppOK, Asking
<1>6. JobOK'
  BY <1>1, <1>2, MoreTold DEF JobOK
<1>7. QED
  BY <1>4, <1>5, <1>6 DEF TypeInv

(* Nothing but what is told of one parameter changes. *)
LEMMA StrayEntryType ==
  ASSUME TypeInv, NEW p \in DOMAIN Kind, StrayEntry(p)
  PROVE  TypeInv'
<1>1. ManagerOK /\ LineOK /\ AppOK /\ JobOK /\ past \in Past
  BY DEF TypeInv
<1> DEFINE seen == Looked(Device0, p)
<1>2. /\ Awaited(p) /\ job' = [job EXCEPT !.told = Told(@, p, seen)]
      /\ past' = [past EXCEPT !.strays = @ \cup {p}]
      /\ UNCHANGED <<vars, wire, line, phase, app, edit>> /\ phase = "verify"
  BY DEF StrayEntry
<1> HIDE DEF seen
<1>3. ManagerOK' /\ LineOK' /\ AppOK'
  BY <1>1, <1>2, ManagerSame, LineSame DEF AppOK, Asking
<1>4. JobOK'
  BY <1>1, <1>2, MoreTold
<1>5. past' \in Past
  BY <1>1, <1>2 DEF Past
<1>6. QED
  BY <1>3, <1>4, <1>5 DEF TypeInv

(* What is left once an entry is handled and forgotten.                    *)
LEMMA HandledFacts ==
  ASSUME TypeInv, toHost # << >>, Head(toHost).kind = "entry"
  PROVE  LET frame == Head(toHost) IN
         /\ frame.param \in DOMAIN Kind
         /\ OwnQueues(QueuesHandled(frame))
         /\ BrowsedOK(Without(Handled(frame), {frame.param}))
<1> DEFINE frame == Head(toHost)
<1>1. ManagerOK /\ LineOK
  BY DEF TypeInv
<1>2. frame.param \in DOMAIN Kind /\ Entry(frame.param, frame.value) \in Content
  BY <1>1, EntryFacts
<1> HIDE DEF frame
<1>3. BrowsedOK(Device0) /\ OwnQueues(Queues)
  BY <1>1 DEF ManagerOK
<1>4. BrowsedOK(Handled(frame))
  BY <1>2, <1>3, WithParameterBrowsed DEF Handled
<1>5. BrowsedOK(Without(Handled(frame), {frame.param}))
  BY <1>4, WithoutBrowsed
<1>6. OwnQueues(QueuesHandled(frame))
  BY <1>3, <1>4, EntryQueues DEF QueuesHandled
<1>7. QED
  BY <1>2, <1>5, <1>6 DEF frame

(* The manager, with new queues and another map for this device.           *)
LEMMA ManagerReset ==
  ASSUME ManagerOK, NEW dev, BrowsedOK(dev), devices' = [devices EXCEPT ![Dev] = dev],
         pending' \in [Slot -> OwnRequest \cup {NoRequest}],
         output' \in Seq(OwnRead), Len(output') <= MaxOutput, asm' = asm
  PROVE  ManagerOK'
<1>1. Device0' = dev /\ devices' \in [Addr -> Device \cup {NoDevice}]
  BY DeviceAssumption DEF ManagerOK, Device0, BrowsedOK
<1>2. OwnQueues(Queues')
  BY DEF OwnQueues, Queues
<1>3. QED
  BY <1>1, <1>2 DEF ManagerOK

LEMMA VerifyRunningType ==
  ASSUME TypeInv, VerifyRunning
  PROVE  TypeInv'
<1> DEFINE frame == Head(toHost)
           left == QueuesHandled(frame)
           q == RequestEach(left.requests, <<frame.param>>)
           dev == Without(Handled(frame), {frame.param})
<1>1. ManagerOK /\ LineOK /\ AppOK /\ JobOK /\ past \in Past
  BY DEF TypeInv
<1>2. /\ toHost # << >> /\ Head(toHost).kind = "entry" /\ phase = "verify"
      /\ devices' = [devices EXCEPT ![Dev] = dev]
      /\ pending' = q.requests /\ output' = left.packets
      /\ toDevice' = toDevice \o q.packets
      /\ toHost' = Tail(toHost)
      /\ UNCHANGED <<asm, held, losses, line, phase, app, job, edit, past>>
  BY DEF VerifyRunning, Arrives, Forgotten
<1>3. frame.param \in DOMAIN Kind /\ OwnQueues(left) /\ BrowsedOK(dev)
  BY <1>2, HandledFacts
<1> HIDE DEF left, dev, frame
<1>4. /\ q.requests \in [Slot -> OwnRequest \cup {NoRequest}]
      /\ q.packets \in Seq(Reading)
  <2>1. <<frame.param>> \in Seq(DOMAIN Kind)
    BY <1>3
  <2>2. left.requests \in [Slot -> OwnRequest \cup {NoRequest}]
    BY <1>3 DEF OwnQueues
  <2>3. QED
    BY <2>1, <2>2, RequestEachOwn
<1> HIDE DEF q
<1>5. ManagerOK'
  <2>1. left.packets \in Seq(OwnRead) /\ Len(left.packets) <= MaxOutput
    BY <1>3 DEF OwnQueues
  <2>2. QED
    BY <1>1, <1>2, <1>3, <1>4, <2>1, ManagerReset
<1>6. LineOK'
  <2>1. q.packets \in Seq(Reading \cup Writing) /\ toDevice \in Seq(Reading \cup Writing)
    BY <1>1, <1>4 DEF LineOK
  <2>2. toDevice' \in Seq(Reading \cup Writing)
    BY <1>2, <2>1
  <2>3. toHost' \in Seq(Telling \cup Chunking)
    BY <1>1, <1>2, HeadFacts
  <2>4. QED
    BY <1>1, <1>2, <2>2, <2>3 DEF LineOK
<1>7. AppOK' /\ JobOK' /\ past' \in Past
  BY <1>1, <1>2 DEF AppOK, Asking, JobOK
<1>8. QED
  BY <1>5, <1>6, <1>7 DEF TypeInv

LEMMA VerifyAskedType ==
  ASSUME TypeInv, NEW answer \in {Confirm, Cancel}, VerifyAsked(answer)
  PROVE  TypeInv'
<1> DEFINE frame == Head(toHost)
           left == QueuesHandled(frame)
           dev == Without(Handled(frame), {frame.param})
<1>1. ManagerOK /\ LineOK /\ AppOK /\ JobOK /\ past \in Past
  BY DEF TypeInv
<1>2. /\ toHost # << >> /\ Head(toHost).kind = "entry" /\ phase = "verify"
      /\ AsksBack(frame.param, Seen(frame))
      /\ devices' = [devices EXCEPT ![Dev] = dev]
      /\ pending' = left.requests /\ output' = left.packets
      /\ toDevice' = Append(toDevice, WriteFrame(frame.param, answer))
      /\ job' = [job EXCEPT !.asked = @ \cup {frame.param}, !.late = ~ line.confirm]
      /\ toHost' = Tail(toHost)
      /\ UNCHANGED <<asm, held, losses, line, phase, app, edit, past>>
  BY DEF VerifyAsked, Arrives, Forgotten, SetQueues
<1>3. frame.param \in DOMAIN Kind /\ OwnQueues(left) /\ BrowsedOK(dev)
  BY <1>2, HandledFacts
<1> HIDE DEF left, dev, frame
<1>4. Writable(frame.param, answer)
  BY <1>2, <1>3 DEF AsksBack, Writable, Confirm, Cancel
<1>5. ManagerOK'
  BY <1>1, <1>2, <1>3, ManagerReset DEF OwnQueues
<1>6. LineOK'
  <2>1. WriteFrame(frame.param, answer) \in Reading \cup Writing
    BY <1>4, WriteFrameType
  <2>2. toDevice' \in Seq(Reading \cup Writing)
    BY <1>1, <1>2, <2>1 DEF LineOK
  <2>3. toHost' \in Seq(Telling \cup Chunking)
    BY <1>1, <1>2, HeadFacts
  <2>4. QED
    BY <1>1, <1>2, <2>2, <2>3 DEF LineOK
<1>7. AppOK' /\ past' \in Past
  BY <1>1, <1>2 DEF AppOK, Asking
<1>8. JobOK'
  BY <1>1, <1>2 DEF JobOK
<1>9. QED
  BY <1>5, <1>6, <1>7, <1>8 DEF TypeInv

(* Time *)

LEMMA ExpiredOwn ==
  ASSUME NEW r \in OwnRequest \cup {NoRequest}
  PROVE  /\ Expire(r) \in OwnRequest \cup {NoRequest}
         /\ Expire(r) # NoRequest => r # NoRequest /\ Expire(r).param = r.param
         /\ ~ Due(r) => Expire(r) = r
         /\ Due(r) /\ Expire(r) # NoRequest => Expire(r).age < Timeout
<1>1. CASE ~ Due(r)
  BY <1>1 DEF Expire
<1>2. CASE Due(r) /\ r.retries >= RetryCount
  BY <1>2 DEF Expire
<1>3. CASE Due(r) /\ ~ (r.retries >= RetryCount)
  <2>1. r \in OwnRequest /\ r # NoRequest
    BY <1>3 DEF Due
  <2>2. r.retries + 1 \in 0..RetryCount /\ 0 \in 0..Timeout /\ 0 < Timeout
    BY <1>3, <2>1, TimingAssumption, ProgramAssumption DEF OwnRequest, Request
  <2>3. Expire(r) = [r EXCEPT !.retries = r.retries + 1, !.age = 0]
    BY <1>3 DEF Expire
  <2>4. Expire(r) \in OwnRequest /\ Expire(r).param = r.param /\ Expire(r).age = 0
    BY <2>1, <2>2, <2>3 DEF OwnRequest, Request
  <2>5. QED
    BY <1>3, <2>1, <2>2, <2>4
<1>4. QED
  BY <1>1, <1>2, <1>3

(* The frames drain_all() returns: first the reads sent again, then those  *)
(* of the output queue.                                                    *)
Resent == [i \in 1..Cardinality(Retried) |-> ReadFrame(pending[SetToSeq(Retried)[i]])]
Emptied == [i \in DOMAIN output |-> ReadFrame(output[i])]

LEMMA DrainedFrames ==
  ASSUME ManagerOK
  PROVE  /\ Cardinality(Retried) \in Nat
         /\ \A i \in 1..Cardinality(Retried) : SetToSeq(Retried)[i] \in Retried
         /\ \A i, j \in 1..Cardinality(Retried) :
              SetToSeq(Retried)[i] = SetToSeq(Retried)[j] => i = j
         /\ Resent \in Seq(Reading) /\ Emptied \in Seq(Reading)
         /\ Len(Resent) = Cardinality(Retried) /\ Len(Emptied) = Len(output)
<1> DEFINE n == Cardinality(Retried)
           listed == SetToSeq(Retried)
<1>1. IsFiniteSet(Retried)
  BY ProgramAssumption, FS_Subset DEF Retried
<1>2. /\ n \in Nat /\ listed \in [1..n -> Retried]
      /\ \A i, j \in 1..n : listed[i] = listed[j] => i = j
  BY <1>1, Listed
<1>3. /\ pending \in [Slot -> OwnRequest \cup {NoRequest}] /\ output \in Seq(OwnRead)
  BY OwnFacts
<1>4. \A s \in Retried : ReadFrame(pending[s]) \in Reading
  <2>1. ASSUME NEW s \in Retried PROVE pending[s] \in OwnRequest
    BY <1>3 DEF Retried, Due
  <2>2. QED
    BY <2>1 DEF ReadFrame, Reading, OwnRequest, Request
<1>5. \A r \in OwnRead : ReadFrame(r) \in Reading
  BY DEF ReadFrame, Reading, OwnRead, Read
<1> HIDE DEF n, listed
<1>6. Resent \in Seq(Reading) /\ Len(Resent) = n
  BY <1>2, <1>4 DEF Resent, n, listed
<1>7. Emptied \in Seq(Reading) /\ Len(Emptied) = Len(output)
  <2>1. DOMAIN output = 1..Len(output) /\ Len(output) \in Nat
    BY <1>3
  <2>2. \A i \in 1..Len(output) : ReadFrame(output[i]) \in Reading
    BY <1>3, <1>5
  <2>3. QED
    BY <2>1, <2>2 DEF Emptied
<1>8. QED
  BY <1>2, <1>6, <1>7 DEF n, listed

LEMMA SendDrainedType ==
  ASSUME TypeInv, SendDrained
  PROVE  TypeInv'
<1> DEFINE dropped == {s \in Slot : Due(pending[s]) /\ Expire(pending[s]) = NoRequest}
           lost == {pending[s].param : s \in dropped}
<1>1. ManagerOK /\ LineOK /\ AppOK /\ JobOK /\ past \in Past
  BY DEF TypeInv
<1>2. /\ toDevice' = toDevice \o Resent \o Emptied
      /\ past' = [past EXCEPT !.givenUp = @ \cup lost]
      /\ pending' = [s \in Slot |-> Expire(pending[s])] /\ output' = << >>
      /\ UNCHANGED <<devices, asm, held, toHost, losses, line, phase, app, job, edit>>
  BY DEF SendDrained, DrainAll, Resent, Emptied
<1>3. pending \in [Slot -> OwnRequest \cup {NoRequest}]
  BY <1>1, OwnFacts
<1>4. ManagerOK'
  <2>1. pending' \in [Slot -> OwnRequest \cup {NoRequest}]
    BY <1>2, <1>3, ExpiredOwn
  <2>2. devices' = [devices EXCEPT ![Dev] = Device0] /\ BrowsedOK(Device0)
    BY <1>1, <1>2 DEF Device0, ManagerOK
  <2>3. output' \in Seq(OwnRead) /\ Len(output') <= MaxOutput
    BY <1>2, CapacityAssumption
  <2>4. QED
    BY <1>1, <1>2, <2>1, <2>2, <2>3, ManagerReset
<1>5. LineOK'
  <2>1. /\ Resent \in Seq(Reading \cup Writing) /\ Emptied \in Seq(Reading \cup Writing)
        /\ toDevice \in Seq(Reading \cup Writing)
    BY <1>1, DrainedFrames DEF LineOK
  <2>2. toDevice' \in Seq(Reading \cup Writing)
    BY <1>2, <2>1
  <2>3. QED
    BY <1>1, <1>2, <2>2 DEF LineOK
<1>6. AppOK' /\ JobOK'
  BY <1>1, <1>2 DEF AppOK, Asking, JobOK
<1>7. past' \in Past
  <2>1. lost \subseteq DOMAIN Kind
    BY <1>3 DEF Due, OwnRequest
  <2> HIDE DEF lost
  <2>2. QED
    BY <1>1, <1>2, <2>1 DEF Past
<1>8. QED
  BY <1>4, <1>5, <1>6, <1>7 DEF TypeInv

LEMMA UpdatedManager ==
  ASSUME ManagerOK, NEW elapsed \in Nat, UpdateTime(elapsed)
  PROVE  ManagerOK'
<1>1. pending' = Aged(pending, elapsed) /\ UNCHANGED <<devices, asm, output>>
  BY DEF UpdateTime, Aged
<1>2. pending' \in [Slot -> OwnRequest \cup {NoRequest}]
  BY <1>1, OwnFacts, AgedOwn
<1>3. devices' = [devices EXCEPT ![Dev] = Device0] /\ BrowsedOK(Device0)
  BY <1>1 DEF Device0, ManagerOK
<1>4. QED
  BY <1>1, <1>2, <1>3, ManagerRestored

LEMMA TimePassesType ==
  ASSUME TypeInv, TimePasses
  PROVE  TypeInv'
<1>1. ManagerOK /\ LineOK /\ AppOK /\ JobOK /\ past \in Past
  BY DEF TypeInv
<1>2. UpdateTime(1) /\ UNCHANGED <<wire, tui>>
  BY DEF TimePasses
<1>3. ManagerOK'
  BY <1>1, <1>2, UpdatedManager
<1>4. LineOK'
  BY <1>1, <1>2, LineSame
<1>5. AppOK' /\ JobOK' /\ past' \in Past
  BY <1>1, <1>2 DEF AppOK, Asking, JobOK, tui
<1>6. QED
  BY <1>3, <1>4, <1>5 DEF TypeInv

LEMMA PromptToldType ==
  ASSUME TypeInv, NEW elapsed \in 1..Timeout, PromptTold(elapsed)
  PROVE  TypeInv'
<1>1. ManagerOK /\ LineOK /\ AppOK /\ JobOK /\ past \in Past
  BY DEF TypeInv
<1>2. UpdateTime(elapsed) /\ UNCHANGED <<wire, line, phase, app, edit, past>> /\ elapsed \in Nat
  BY DEF PromptTold
<1>3. ManagerOK'
  BY <1>1, <1>2, UpdatedManager
<1>4. LineOK' /\ AppOK' /\ past' \in Past
  BY <1>1, <1>2, LineSame DEF AppOK, Asking
<1>5. JobOK'
  BY <1>1 DEF PromptTold, JobOK
<1>6. QED
  BY <1>3, <1>4, <1>5 DEF TypeInv

(* The device and the line *)

LEMMA AnswerType ==
  ASSUME LineOK, NEW frame \in Reading
  PROVE  Answer(frame) \in Seq(Telling \cup Chunking)
<1>1. frame.param \in DOMAIN Kind /\ frame.chunk \in Nat
  BY DEF Reading
<1>2. held[frame.param] \in Values(frame.param) /\ held[frame.param] \in Nat
  BY <1>1 DEF LineOK
<1>3. CASE frame.param \notin Long
  <2> DEFINE told == [kind |-> "entry", param |-> frame.param, value |-> held[frame.param]]
  <2>1. told \in Telling
    BY <1>1, <1>2, <1>3 DEF Telling
  <2>2. Answer(frame) = <<told>>
    BY <1>3 DEF Answer
  <2> HIDE DEF told
  <2>3. QED
    BY <2>1, <2>2
<1>4. CASE frame.param \in Long /\ frame.chunk > 1
  BY <1>4 DEF Answer
<1>5. CASE frame.param \in Long /\ ~ (frame.chunk > 1)
  <2> DEFINE payload == [param |-> frame.param, index |-> frame.chunk,
                         value |-> IF frame.chunk = 0 THEN 0 ELSE held[frame.param]]
             chunk == [param |-> frame.param, remaining |-> 1 - frame.chunk,
                       payload |-> payload]
             told == [kind |-> "chunk", chunk |-> chunk]
  <2>1. frame.chunk \in {0, 1} /\ 1 - frame.chunk \in {0, 1}
    BY <1>1, <1>5
  <2>2. payload \in Fragments(frame.param)
    BY <1>2, <2>1 DEF Fragments
  <2> HIDE DEF payload
  <2>3. payload \in Fragment /\ 1 - frame.chunk \in Remaining /\ frame.param \in ParamId
    BY <1>1, <1>5, <2>1, <2>2, EntryAssumption, KindFacts
  <2>4. chunk \in Chunk /\ chunk.param \in Long
    BY <1>5, <2>3 DEF Chunk
  <2>5. Answer(frame) = <<told>>
    BY <1>5 DEF Answer, payload
  <2> HIDE DEF chunk
  <2>6. told \in Chunking
    BY <2>4 DEF Chunking
  <2> HIDE DEF told
  <2>7. QED
    BY <2>5, <2>6
<1>6. QED
  BY <1>3, <1>4, <1>5

LEMMA ObeyedType ==
  ASSUME LineOK, NEW frame \in Writing
  PROVE  Obeyed(frame.param, frame.data) \in Values(frame.param)
<1>1. frame.param \in DOMAIN Kind /\ Kind[frame.param] # "folder"
  BY DEF Writing
<1>2. held[frame.param] \in Values(frame.param)
  BY <1>1 DEF LineOK
<1>3. CASE Kind[frame.param] = "selection"
  BY <1>2, <1>3 DEF Obeyed
<1>4. CASE Kind[frame.param] = "command"
  <2>1. {Ready, Start, Progress, ConfirmationNeeded, Confirm, Cancel, Poll}
          \subseteq Values(frame.param)
    BY <1>1, <1>4, ValuesNat
  <2>2. Obeyed(frame.param, frame.data) \in {ConfirmationNeeded, Progress, Ready, held[frame.param]}
    BY <1>4 DEF Obeyed
  <2>3. QED
    BY <1>2, <2>1, <2>2
<1>5. QED
  BY <1>1, <1>3, <1>4, DeviceAssumption

LEMMA ToDeviceFacts ==
  ASSUME LineOK, toDevice # << >>
  PROVE  /\ Tail(toDevice) \in Seq(Reading \cup Writing)
         /\ Head(toDevice).kind = "read" => Head(toDevice) \in Reading
         /\ Head(toDevice).kind = "write" => Head(toDevice) \in Writing
<1>1. /\ Head(toDevice) \in Reading \cup Writing
      /\ Tail(toDevice) \in Seq(Reading \cup Writing)
  BY DEF LineOK
<1>2. /\ \A f \in Reading : f.kind = "read"
      /\ \A f \in Writing : f.kind = "write"
  BY DEF Reading, Writing
<1>3. QED
  BY <1>1, <1>2

LEMMA WorldType ==
  ASSUME TypeInv, World
  PROVE  TypeInv'
<1>1. ManagerOK /\ LineOK /\ AppOK /\ JobOK /\ past \in Past
  BY DEF TypeInv
<1>2. UNCHANGED <<vars, tui>>
  BY DEF World, DeviceAnswers, DeviceObeys, LoseRequest, LoseReply, DeviceFinishes
<1>3. ManagerOK'
  BY <1>1, <1>2, ManagerSame
<1>4. AppOK' /\ JobOK' /\ past' \in Past
  BY <1>1, <1>2 DEF AppOK, Asking, JobOK, tui
<1>5. CASE DeviceAnswers
  <2>1. /\ toDevice # << >> /\ Head(toDevice).kind = "read"
        /\ toDevice' = Tail(toDevice) /\ toHost' = toHost \o Answer(Head(toDevice))
        /\ held' = held /\ losses' = losses
    BY <1>5 DEF DeviceAnswers
  <2>2. Answer(Head(toDevice)) \in Seq(Telling \cup Chunking)
    BY <1>1, <2>1, ToDeviceFacts, AnswerType
  <2>3. toHost' \in Seq(Telling \cup Chunking)
    BY <1>1, <2>1, <2>2 DEF LineOK
  <2>4. LineOK'
    BY <1>1, <2>1, <2>3, ToDeviceFacts DEF LineOK
  <2>5. QED
    BY <1>3, <1>4, <2>4 DEF TypeInv
<1>6. CASE DeviceObeys
  <2> DEFINE p == Head(toDevice).param
             v == Obeyed(p, Head(toDevice).data)
  <2>1. /\ toDevice # << >> /\ Head(toDevice).kind = "write"
        /\ toDevice' = Tail(toDevice) /\ held' = [held EXCEPT ![p] = v]
        /\ toHost' = toHost /\ losses' = losses
    BY <1>6 DEF DeviceObeys
  <2>2. p \in DOMAIN Kind /\ v \in Values(p) /\ v \in Nat
    BY <1>1, <2>1, ToDeviceFacts, ObeyedType, ValuesNat DEF Writing
  <2> HIDE DEF p, v
  <2>3. held' \in [DOMAIN Kind -> Nat] /\ \A x \in DOMAIN Kind : held'[x] \in Values(x)
    BY <1>1, <2>1, <2>2 DEF LineOK
  <2>4. LineOK'
    BY <1>1, <2>1, <2>3, ToDeviceFacts DEF LineOK
  <2>5. QED
    BY <1>3, <1>4, <2>4 DEF TypeInv
<1>7. CASE LoseRequest \/ LoseReply
  <2>1. /\ \/ toDevice # << >> /\ toDevice' = Tail(toDevice) /\ toHost' = toHost
           \/ toHost # << >> /\ toHost' = Tail(toHost) /\ toDevice' = toDevice
        /\ losses < MaxLoss /\ losses' = losses + 1 /\ held' = held
    BY <1>7 DEF LoseRequest, LoseReply
  <2>2. losses' \in 0..MaxLoss
    BY <1>1, <2>1, ProgramAssumption DEF LineOK
  <2>3. LineOK'
    BY <1>1, <2>1, <2>2, ToDeviceFacts, HeadFacts DEF LineOK
  <2>4. QED
    BY <1>3, <1>4, <2>3 DEF TypeInv
<1>8. ASSUME NEW p \in DOMAIN Kind, DeviceFinishes(p)
      PROVE  TypeInv'
  <2>1. /\ Kind[p] = "command" /\ held' = [held EXCEPT ![p] = Ready]
        /\ UNCHANGED <<toDevice, toHost, losses>>
    BY <1>8 DEF DeviceFinishes
  <2>2. Ready \in Values(p) /\ Ready \in Nat
    BY <2>1, ValuesNat DEF Ready
  <2>3. held' \in [DOMAIN Kind -> Nat] /\ \A x \in DOMAIN Kind : held'[x] \in Values(x)
    BY <1>1, <2>1, <2>2 DEF LineOK
  <2>4. LineOK'
    BY <1>1, <2>1, <2>3 DEF LineOK
  <2>5. QED
    BY <1>3, <1>4, <2>4 DEF TypeInv
<1>9. QED
  BY <1>5, <1>6, <1>7, <1>8 DEF World

-----------------------------------------------------------------------------
(* Type correctness *)

(* The first parameter, and it alone, is asked for, and was not before. *)
Fresh0 == NewRequest(Dev, 0, 0)

LEMMA DiscoveredFacts ==
  /\ BrowsedOK(NewDevice(Total)) /\ Stored(NewDevice(Total)) = {}
  /\ OwnQueues(Discovered)
  /\ \A s \in Slot : Discovered.requests[s] \in {NoRequest, Fresh0}
  /\ Discovered.packets \in {<< >>, <<ReadOf(Fresh0)>>}
  /\ AtMostOne(Asked(Discovered.requests, Dev, 0))
<1> DEFINE q == [requests |-> [s \in Slot |-> NoRequest], packets |-> << >>]
           dev == NewDevice(Total)
<1>1. /\ dev \in Device /\ dev.total = Total /\ Stored(dev) = {} /\ dev.loaded = FALSE
  BY KindFacts DEF NewDevice, Device, Stored
<1>2. BrowsedOK(dev)
  BY <1>1, KindFacts DEF BrowsedOK
<1>3. OwnQueues(q) /\ q.packets = << >> /\ \A s \in Slot : q.requests[s] = NoRequest
  BY CapacityAssumption DEF OwnQueues
<1>4. NextParameter(dev) = 0
  <2> DEFINE missing == {p \in ParamId : p < dev.total /\ p \notin Stored(dev)}
  <2>1. missing = DOMAIN Kind
    BY <1>1, KindFacts
  <2>2. 0 \in missing /\ missing # {} /\ \A p \in missing : p \in Nat /\ 0 <= p
    BY <2>1, KindFacts
  <2>3. NextParameter(dev) = CHOOSE p \in missing : \A other \in missing : p <= other
    BY <2>2 DEF NextParameter
  <2> HIDE DEF missing
  <2>4. \A p \in missing : (\A other \in missing : p <= other) => p = 0
    BY <2>2
  <2>5. QED
    BY <2>2, <2>3, <2>4
<1>5. ReadOnceOf(q, << >>, << >>, {}, 0)
  <2>1. Asked(q.requests, Dev, 0) = {} /\ Queued(q.packets, 0) = {}
    BY DEF Asked, Queued
  <2>2. Sent(<< >>, "read", 0) = {} /\ Sent(<< >>, "entry", 0) = {}
    BY DEF Sent
  <2> HIDE DEF q
  <2>3. QED
    BY <2>1, <2>2 DEF ReadOnceOf, OneRead, AtMostOne
<1> HIDE DEF dev
<1>6. Discovered = EnqueueNextParameter(q, Dev, dev)
  BY DEF Discovered, dev
<1> HIDE DEF q
<1>7. OwnQueues(Discovered) /\ AtMostOne(Asked(Discovered.requests, Dev, 0))
  BY <1>1, <1>2, <1>3, <1>5, <1>6, EnqueueNextReadOnce DEF ReadOnceOf, OneRead
<1>8. \/ Discovered = q
      \/ Discovered = Enqueue(q, Fresh0)
  BY <1>4, <1>6 DEF EnqueueNextParameter, Fresh0
<1>9. Fresh0 \in OwnRequest
  BY KindFacts, NewOwnRequest DEF Fresh0
<1>10. /\ \A s \in Slot : Discovered.requests[s] \in {NoRequest, Fresh0}
       /\ Discovered.packets \in {<< >>, <<ReadOf(Fresh0)>>}
  <2>1. CASE Discovered = q
    BY <1>3, <2>1
  <2>2. CASE Discovered = Enqueue(q, Fresh0)
    <3>1. \/ Enqueue(q, Fresh0) = q
          \/ \E s \in Slot :
               /\ Enqueue(q, Fresh0).requests = [q.requests EXCEPT ![s] = Fresh0]
               /\ Enqueue(q, Fresh0).packets \in {q.packets, Append(q.packets, ReadOf(Fresh0))}
      BY <1>3, <1>9, EnqueueOwn
    <3>2. q.requests \in [Slot -> OwnRequest \cup {NoRequest}]
      BY <1>3 DEF OwnQueues
    <3>3. Append(<< >>, ReadOf(Fresh0)) = <<ReadOf(Fresh0)>>
      OBVIOUS
    <3>4. QED
      BY <1>3, <2>2, <3>1, <3>2, <3>3
  <2>3. QED
    BY <1>8, <2>1, <2>2
<1>11. QED
  BY <1>1, <1>2, <1>7, <1>10 DEF dev

LEMMA InitType ==
  ASSUME TuiInit
  PROVE  /\ TypeInv /\ Shown = {} /\ Device0 = NewDevice(Total)
         /\ output = Discovered.packets
         /\ \E elapsed \in 0..Timeout : pending = Aged(Discovered.requests, elapsed)
<1>1. /\ Dev \in Addr
      /\ devices = [d \in Addr |-> IF d = Dev THEN NewDevice(Total) ELSE NoDevice]
      /\ output = Discovered.packets /\ asm = Idle
  BY DeviceAssumption DEF TuiInit
<1>2. Device0 = NewDevice(Total) /\ Shown = {}
  BY <1>1, DiscoveredFacts DEF Device0, Shown
<1>3. \E elapsed \in 0..Timeout : pending = Aged(Discovered.requests, elapsed)
  <2>1. Timeout \in Nat /\ 0 \in 0..Timeout
    BY TimingAssumption
  <2>2. Discovered.requests \in [Slot -> OwnRequest \cup {NoRequest}]
    BY DiscoveredFacts DEF OwnQueues
  <2>3. Aged(Discovered.requests, 0) = Discovered.requests
    BY <2>2, OlderOwn DEF Aged
  <2>4. QED
    BY <2>1, <2>3 DEF TuiInit
<1>10. OwnQueues(Queues)
  <2>1. pending \in [Slot -> OwnRequest \cup {NoRequest}]
    BY <1>3, AgedOwn, DiscoveredFacts, TimingAssumption DEF OwnQueues
  <2>2. QED
    BY <1>1, <2>1, DiscoveredFacts DEF Queues, OwnQueues
<1>4. ManagerOK
  <2>1. devices \in [Addr -> Device \cup {NoDevice}]
    BY <1>1, DiscoveredFacts DEF BrowsedOK
  <2>2. AssemblyOK(asm)
    BY <1>1, IdleOK DEF AssemblyOK, IsIdle, Idle
  <2>3. QED
    BY <1>2, <1>10, <2>1, <2>2, DiscoveredFacts DEF ManagerOK
<1>5. LineOK
  <2>1. held \in [DOMAIN Kind -> Nat] /\ \A p \in DOMAIN Kind : held[p] \in Values(p)
    <3>1. held = [p \in DOMAIN Kind |-> IF Kind[p] = "selection" THEN Lowest(p) ELSE 0]
      BY DEF TuiInit
    <3>2. \A p \in DOMAIN Kind : held[p] \in Values(p)
      <4> SUFFICES ASSUME NEW p \in DOMAIN Kind PROVE held[p] \in Values(p)
        OBVIOUS
      <4>1. CASE Kind[p] = "selection"
        BY <3>1, <4>1, ValuesNat
      <4>2. CASE Kind[p] # "selection"
        BY <3>1, <4>2, ValuesNat, DeviceAssumption DEF Ready
      <4>3. QED
        BY <4>1, <4>2
    <3>3. QED
      BY <3>1, <3>2, ValuesNat
  <2>2. losses \in 0..MaxLoss
    <3>1. losses = 0 /\ MaxLoss \in Nat
      BY ProgramAssumption DEF TuiInit
    <3>2. QED
      BY <3>1
  <2>3. toDevice = << >> /\ toHost = << >>
    BY DEF TuiInit
  <2>4. QED
    BY <2>1, <2>2, <2>3 DEF LineOK
<1>6. AppOK
  <2>1. line \in CommandLines /\ phase \in {"tui", "load", "start"}
    BY DEF TuiInit
  <2>2. /\ DOMAIN app = {"path", "cursor", "editing", "confirming", "buffer", "waiting"}
        /\ app.path = <<0>> /\ app.cursor = 0 /\ app.editing = FALSE
        /\ app.confirming = FALSE /\ app.waiting = 0..(Total - 1)
    BY DEF TuiInit
  <2>3. <<0>> \in Seq(DOMAIN Kind) /\ <<0>>[1] = 0 /\ <<0>> # << >>
    BY KindFacts
  <2>4. Browser(app)
    <3>1. app.waiting = DOMAIN Kind
      BY <2>2, KindFacts
    <3>2. app.path \in Seq(DOMAIN Kind)
      BY <2>2, <2>3
    <3>3. app.cursor \in Nat /\ app.editing \in BOOLEAN /\ app.confirming \in BOOLEAN
      <4>1. app.editing = FALSE /\ app.confirming = FALSE
        BY <2>2
      <4>2. app.editing \in BOOLEAN /\ app.confirming \in BOOLEAN
        BY <4>1, Zenon
      <4>3. app.cursor = 0
        BY <2>2
      <4>4. QED
        BY <4>2, <4>3
    <3>4. DOMAIN app = {"path", "cursor", "editing", "confirming", "buffer", "waiting"}
      BY <2>2
    <3>5. QED
      BY <3>1, <3>2, <3>3, <3>4 DEF Browser
  <2>5. QED
    BY <2>1, <2>2, <2>3, <2>4 DEF AppOK, Asking
<1>7. JobOK
  <2>1. job = [ids |-> << >>, remaining |-> {}, told |-> << >>, asked |-> {}, late |-> FALSE]
    BY DEF TuiInit
  <2>2. DOMAIN job.told = {}
    BY <2>1
  <2>3. QED
    BY <2>1, <2>2 DEF JobOK
<1>8. past \in Past
  <2>1. MaxEdits \in Nat /\ MaxRefresh \in Nat
    BY ProgramAssumption
  <2>2. 0 \in 0..MaxEdits /\ 0 \in 0..MaxRefresh
    BY <2>1
  <2>3. past = [edits |-> 0, refreshes |-> 0, stalled |-> FALSE, givenUp |-> {},
                hasty |-> FALSE, cut |-> FALSE, strays |-> {}]
    BY DEF TuiInit
  <2>4. QED
    BY <2>2, <2>3 DEF Past
<1>9. QED
  BY <1>1, <1>2, <1>3, <1>4, <1>5, <1>6, <1>7, <1>8 DEF TypeInv

LEMMA SameType == TypeInv /\ UNCHANGED allVars => TypeInv'
<1> SUFFICES ASSUME TypeInv, UNCHANGED allVars PROVE TypeInv'
  OBVIOUS
<1>1. UNCHANGED vars /\ UNCHANGED wire /\ UNCHANGED tui
  BY DEF allVars
<1>2. AppOK' /\ JobOK' /\ past' \in Past
  BY <1>1 DEF TypeInv, tui, AppOK, Asking, JobOK
<1>3. QED
  BY <1>1, <1>2, ManagerSame, LineSame DEF TypeInv

LEMMA TypeStep == TypeInv /\ [TuiNext]_allVars => TypeInv'
<1> SUFFICES ASSUME TypeInv, [TuiNext]_allVars PROVE TypeInv'
  OBVIOUS
<1>1. CASE Down \/ Up \/ SelectFolder \/ SelectCommand \/ SelectOption \/ GoBack
  <2>1. KeyOnly
    BY <1>1 DEF Down, Up, SelectFolder, SelectCommand, SelectOption, GoBack
  <2>2. QED
    BY <1>1, <2>1, BrowseKeysApp, KeyOnlyType
<1>2. CASE \/ \E text \in Typed : Type(text)
           \/ \E step \in {-1, 1} : Arrow(step)
           \/ Dismiss \/ ApplyNothing \/ AnswerNothing
  <2>1. KeyOnly
    BY <1>2 DEF Type, Arrow, Dismiss, ApplyNothing, AnswerNothing
  <2>2. QED
    BY <1>2, <2>1, EditorKeysApp, KeyOnlyType
<1>3. CASE ApplyEdit \/ ExecuteCommand \/ CancelCommand \/ PollCommand
  BY <1>3, WritingKeysType
<1>4. CASE Refresh
  BY <1>4, RefreshType
<1>5. CASE Jobs
  <2>1. CASE SetStart
    BY <2>1, SetStartType
  <2>2. CASE GetStart
    BY <2>2, GetStartType
  <2>3. CASE SetNothing \/ GetDone \/ Verified \/ GiveUp
    BY <2>3, JobEndsType
  <2>4. CASE VerifyEntry
    BY <2>4, VerifyEntryType
  <2>5. CASE VerifyRunning
    BY <2>5, VerifyRunningType
  <2>6. ASSUME NEW answer \in {Confirm, Cancel}, VerifyAsked(answer) PROVE TypeInv'
    BY <2>6, VerifyAskedType
  <2>7. ASSUME NEW p \in DOMAIN Kind, StrayEntry(p) PROVE TypeInv'
    BY <2>7, StrayEntryType
  <2>8. ASSUME NEW elapsed \in 1..Timeout, PromptTold(elapsed) PROVE TypeInv'
    BY <2>8, PromptToldType
  <2>9. QED
    BY <1>5, <2>1, <2>2, <2>3, <2>4, <2>5, <2>6, <2>7, <2>8 DEF Jobs
<1>6. CASE Packets
  BY <1>6, ReceiveEntryType, ReceiveChunkType, SendDrainedType, TimePassesType DEF Packets
<1>7. CASE World
  BY <1>7, WorldType
<1>8. CASE UNCHANGED allVars
  BY <1>8, SameType
<1>9. QED
  BY <1>1, <1>2, <1>3, <1>4, <1>5, <1>6, <1>7, <1>8 DEF TuiNext, Keys

LEMMA TypeInductive == TuiSpec => []TypeInv
<1>1. TuiInit => TypeInv
  BY InitType
<1>2. QED
  BY <1>1, TypeStep, PTL DEF TuiSpec

(* Whatever keys, packets, losses and jobs follow one another, every       *)
(* variable keeps its type: the tables of the manager their capacities,    *)
(* the path its root, and of the editor and the question one is open at    *)
(* most.                                                                   *)
THEOREM TuiTypeCorrect == TuiSpec => []TuiTypeOK
<1>1. TypeInv => TuiTypeOK
  <2> SUFFICES ASSUME TypeInv PROVE TuiTypeOK
    OBVIOUS
  <2>1. ManagerOK /\ LineOK /\ AppOK /\ JobOK /\ past \in Past
    BY DEF TypeInv
  <2>2. TypeOK
    <3>1. pending \in [Slot -> Request \cup {NoRequest}]
      BY <2>1, OwnFacts DEF OwnRequest
    <3>2. output \in Seq(Read) /\ Len(output) <= MaxOutput
      <4> DEFINE reads == Read
      <4>1. OwnRead \subseteq reads
        BY DEF OwnRead
      <4>2. output \in Seq(OwnRead) /\ Len(output) <= MaxOutput
        BY <2>1, OwnFacts
      <4> HIDE DEF reads
      <4>3. output \in Seq(reads)
        BY <4>1, <4>2
      <4>4. QED
        BY <4>2, <4>3 DEF reads
    <3>3. QED
      BY <2>1, <3>1, <3>2 DEF ManagerOK, AssemblyOK, AsmOK, TypeOK
  <2>3. {app.editing, app.confirming} \in {{FALSE}, BOOLEAN}
    <3>1. /\ app.editing \in BOOLEAN /\ app.confirming \in BOOLEAN
          /\ ~ (app.editing /\ app.confirming)
      BY <2>1 DEF AppOK, Browser
    <3>2. QED
      BY <3>1
  <2>4. QED
    BY <2>1, <2>2, <2>3 DEF TuiTypeOK, LineOK, AppOK, Browser, JobOK, Past
<1>2. QED
  BY <1>1, TypeInductive, PTL
-----------------------------------------------------------------------------
(* One read at a time, step by step *)

LEMMA ReadOnceEach ==
  /\ EachOnce <=> (Enumerating =>
       \A p \in Plain \ {0} : ReadOnceOf(Queues, toDevice, toHost, Shown, p))
  /\ EachOnce' <=> (Enumerating' =>
       \A p \in Plain \ {0} : ReadOnceOf(Queues', toDevice', toHost', Shown', p))
BY DEF EachOnce, ReadOnceOf, Queues, Enumerating

(* Nothing new on the line. *)
LEMMA FewerFrames ==
  ASSUME NEW q, NEW out, NEW in, NEW stored, NEW p, ReadOnceOf(q, out, in, stored, p),
         NEW out2, NEW in2,
         AtMostOne(Sent(out2, "read", p)), AtMostOne(Sent(in2, "entry", p)),
         Sent(out, "read", p) = {} => Sent(out2, "read", p) = {},
         Sent(in, "entry", p) = {} => Sent(in2, "entry", p) = {}
  PROVE  ReadOnceOf(q, out2, in2, stored, p)
BY DEF ReadOnceOf, OneRead

LEMMA WriteReadsOnce ==
  ASSUME TypeInv, EachOnce, Enumerating, NEW x, NEW data, Writable(x, data),
         past.edits < MaxEdits, WriteAndReread(x, data), x \in Shown
  PROVE  EachOnce'
<1> DEFINE q == RequestEach(pending, <<x>>)
           frame == WriteFrame(x, data)
           out == Append(toDevice, frame)
<1>1. ManagerOK /\ LineOK /\ x \in DOMAIN Kind
  BY DEF TypeInv, Writable
<1>2. /\ Queues = [requests |-> pending, packets |-> output]
      /\ pending \in [Slot -> OwnRequest \cup {NoRequest}]
      /\ toDevice \in Seq(Reading \cup Writing)
  BY <1>1, OwnFacts DEF LineOK
<1>3. /\ pending' = q.requests /\ toDevice' = out \o q.packets
      /\ UNCHANGED <<output, toHost, phase>>
  BY DEF WriteAndReread
<1>4. Shown' = Shown \ {x} /\ Queues' = [requests |-> q.requests, packets |-> output]
  BY <1>3, WriteType DEF Queues
<1>5. /\ q.packets \in Seq(Reading)
      /\ \A i \in DOMAIN q.packets : q.packets[i].param = x
  <2>1. <<x>> \in Seq(DOMAIN Kind) /\ Len(<<x>>) = 1 /\ <<x>>[1] = x
    BY <1>1
  <2>2. /\ q.packets \in Seq(Reading) /\ Len(q.packets) <= Len(<<x>>)
        /\ \A i \in DOMAIN q.packets : q.packets[i].param = <<x>>[i]
    BY <1>2, <2>1, RequestEachOwn
  <2>3. \A i \in DOMAIN q.packets : i = 1
    BY <2>1, <2>2
  <2>4. QED
    BY <2>1, <2>2, <2>3
<1>6. \/ q.requests = pending /\ q.packets = << >>
      \/ \E s \in Slot : /\ pending[s] = NoRequest
                         /\ q.requests = [pending EXCEPT ![s] = NewRequest(Dev, x, 0)]
                         /\ Len(q.packets) = 1
  BY <1>1, <1>2, RequestOne
<1>7. /\ out \in Seq(Reading \cup Writing) /\ out = toDevice \o <<frame>>
      /\ q.packets \in Seq(Reading \cup Writing)
  BY <1>2, <1>5, WriteFrameType
<1>8. \A p : Sent(out, "read", p) = Sent(toDevice, "read", p)
  <2>1. \A p : Sent(<<frame>>, "read", p) = {}
    BY DEF Sent, WriteFrame
  <2>2. <<frame>> \in Seq(Reading \cup Writing)
    BY WriteFrameType
  <2> DEFINE T == Reading \cup Writing
             g == <<frame>>
  <2>3. toDevice \in Seq(T) /\ g \in Seq(T) /\ \A p : Sent(g, "read", p) = {}
    BY <1>2, <2>1, <2>2
  <2> HIDE DEF T, g
  <2>4. \A p : Sent(toDevice \o g, "read", p) = Sent(toDevice, "read", p)
    BY <2>3, SentJoined
  <2>5. QED
    BY <1>7, <2>4 DEF g
<1> HIDE DEF q, out, frame
<1>9. ASSUME NEW p \in Plain \ {0}, p # x
      PROVE  ReadOnceOf(Queues', toDevice', toHost', Shown', p)
  <2>1. Sent(q.packets, "read", p) = {}
    BY <1>5, <1>9 DEF Sent
  <2>2. Sent(toDevice', "read", p) = Sent(toDevice, "read", p)
    BY <1>3, <1>7, <1>8, <2>1, SentJoined
  <2>3. /\ Asked(q.requests, Dev, p) = Asked(pending, Dev, p)
        /\ \A s \in Asked(pending, Dev, p) : q.requests[s] = pending[s]
    <3>1. CASE q.requests = pending
      BY <3>1
    <3>2. ASSUME NEW s \in Slot, pending[s] = NoRequest,
                 q.requests = [pending EXCEPT ![s] = NewRequest(Dev, x, 0)]
          PROVE  /\ Asked(q.requests, Dev, p) = Asked(pending, Dev, p)
                 /\ \A t \in Asked(pending, Dev, p) : q.requests[t] = pending[t]
      <4>1. NewRequest(Dev, x, 0).param = x
        BY <1>1, NewOwnRequest
      <4>2. /\ q.requests[s] = NewRequest(Dev, x, 0)
            /\ \A t \in Slot \ {s} : q.requests[t] = pending[t]
        BY <1>2, <3>2
      <4>3. QED
        BY <1>9, <3>2, <4>1, <4>2 DEF Asked
    <3>3. QED
      BY <1>6, <3>1, <3>2
  <2>4. ReadOnceOf(Queues, toDevice, toHost, Shown, p)
    BY ReadOnceEach
  <2>5. QED
    BY <1>2, <1>3, <1>4, <1>9, <2>2, <2>3, <2>4 DEF ReadOnceOf, OneRead
<1>10. ASSUME x \in Plain \ {0}
       PROVE  ReadOnceOf(Queues', toDevice', toHost', Shown', x)
  <2>1. /\ Asked(pending, Dev, x) = {} /\ Queued(output, x) = {}
        /\ Sent(toDevice, "read", x) = {} /\ Sent(toHost, "entry", x) = {}
    <3>1. ReadOnceOf(Queues, toDevice, toHost, Shown, x)
      BY <1>10, ReadOnceEach
    <3>2. QED
      BY <1>2, <3>1 DEF ReadOnceOf, OneRead
  <2>2. CASE q.requests = pending /\ q.packets = << >>
    <3>1. Sent(q.packets, "read", x) = {}
      BY <2>2 DEF Sent
    <3>2. Sent(toDevice', "read", x) = {}
      <4>1. Sent(out, "read", x) = {}
        BY <1>8, <2>1
      <4>2. Sent(out \o q.packets, "read", x) = {}
        BY <1>7, <3>1, <4>1, SentJoined
      <4>3. QED
        BY <1>3, <4>2
    <3>3. QED
      BY <1>2, <1>3, <1>4, <2>1, <2>2, <3>2 DEF ReadOnceOf, OneRead, AtMostOne
  <2>3. ASSUME NEW s \in Slot, pending[s] = NoRequest, Len(q.packets) = 1,
               q.requests = [pending EXCEPT ![s] = NewRequest(Dev, x, 0)]
        PROVE  ReadOnceOf(Queues', toDevice', toHost', Shown', x)
    <3>1. /\ NewRequest(Dev, x, 0) \in OwnRequest /\ NewRequest(Dev, x, 0).param = x
          /\ NewRequest(Dev, x, 0).age < Timeout
      BY <1>1, NewOwnRequest
    <3>2. /\ q.requests[s] = NewRequest(Dev, x, 0)
          /\ \A t \in Slot \ {s} : q.requests[t] = pending[t]
      BY <1>2, <2>3
    <3>3. Asked(q.requests, Dev, x) = {s}
      BY <2>1, <3>1, <3>2, NullAssumption DEF Asked, OwnRequest
    <3>4. AtMostOne(Sent(q.packets, "read", x))
      BY <1>5, <2>3 DEF Sent, AtMostOne
    <3>5. AtMostOne(Sent(toDevice', "read", x))
      <4>1. Sent(out, "read", x) = {}
        BY <1>8, <2>1
      <4>2. AtMostOne(Sent(out \o q.packets, "read", x))
        BY <1>7, <3>4, <4>1, SentJoined
      <4>3. QED
        BY <1>3, <4>2
    <3>6. QED
      BY <1>3, <1>4, <2>1, <3>1, <3>2, <3>3, <3>5 DEF ReadOnceOf, OneRead, AtMostOne
  <2>4. QED
    BY <1>6, <2>2, <2>3
<1>11. QED
  BY <1>9, <1>10, ReadOnceEach

LEMMA TakenReply ==
  ASSUME LineOK, toHost # << >>, NEW p
  PROVE  /\ Sent(toHost, "entry", p) = {} => Sent(Tail(toHost), "entry", p) = {}
         /\ AtMostOne(Sent(toHost, "entry", p)) => AtMostOne(Sent(Tail(toHost), "entry", p))
         /\ AtMostOne(Sent(toHost, "entry", p)) /\ Head(toHost).kind = "entry"
              /\ Head(toHost).param = p => Sent(Tail(toHost), "entry", p) = {}
         /\ Head(toHost).kind = "entry" /\ Head(toHost).param = p =>
              1 \in Sent(toHost, "entry", p)
<1> DEFINE T == Telling \cup Chunking
<1>1. toHost \in Seq(T)
  BY DEF LineOK
<1> HIDE DEF T
<1>2. QED
  BY <1>1, SentTailed, SentTail

LEMMA TakenRequest ==
  ASSUME LineOK, toDevice # << >>, NEW kind, NEW p
  PROVE  /\ Sent(toDevice, kind, p) = {} => Sent(Tail(toDevice), kind, p) = {}
         /\ AtMostOne(Sent(toDevice, kind, p)) => AtMostOne(Sent(Tail(toDevice), kind, p))
         /\ AtMostOne(Sent(toDevice, kind, p)) /\ Head(toDevice).kind = kind
              /\ Head(toDevice).param = p => Sent(Tail(toDevice), kind, p) = {}
         /\ Head(toDevice).kind = kind /\ Head(toDevice).param = p =>
              1 \in Sent(toDevice, kind, p)
<1> DEFINE T == Reading \cup Writing
<1>1. toDevice \in Seq(T)
  BY DEF LineOK
<1> HIDE DEF T
<1>2. QED
  BY <1>1, SentTailed, SentTail

(* An entry that arrives was the only trace of its read, and takes the     *)
(* request with it; so it is of a parameter that is not stored.            *)
LEMMA EntryReadsOnce ==
  ASSUME TypeInv, EachOnce, Enumerating, ReceiveEntry
  PROVE  EachOnce' /\ (Head(toHost).param # 0 => Head(toHost).param \notin Shown)
<1> DEFINE x == Head(toHost).param
           content == Entry(Head(toHost).param, Head(toHost).value)
<1>1. ManagerOK /\ LineOK
  BY DEF TypeInv
<1>2. /\ toHost # << >> /\ Head(toHost).kind = "entry"
      /\ HandleParameterEntry(Dev, x, content)
      /\ toHost' = Tail(toHost) /\ toDevice' = toDevice /\ phase' = phase
  BY DEF ReceiveEntry, Arrives
<1>3. x \in DOMAIN Kind /\ x \in Plain /\ content \in Content
  BY <1>1, <1>2, EntryFacts
<1>4. 1 \in Sent(toHost, "entry", x)
  BY <1>1, <1>2, TakenReply
<1> HIDE DEF x, content
<1>5. /\ Asked(pending', Dev, x) = {}
      /\ Asked(pending, Dev, x) # {} => Queued(output', x) = Queued(output, x)
      /\ \A out, in, p : p # x /\ ReadOnceOf(Queues, out, in, Shown, p) =>
           ReadOnceOf(Queues', out, in, Shown', p)
      /\ ManagerOK'
  BY <1>1, <1>2, <1>3, EntryManager
<1>6. Queues.requests = pending /\ Queues.packets = output
  BY DEF Queues
<1>7. Queues'.requests = pending' /\ Queues'.packets = output'
  BY DEF Queues
<1>8. \A p \in Plain \ {0} : ReadOnceOf(Queues, toDevice, toHost, Shown, p)
  BY ReadOnceEach
<1>9. x # 0 =>
        /\ Asked(pending, Dev, x) # {} /\ Queued(output, x) = {}
        /\ Sent(toDevice, "read", x) = {} /\ AtMostOne(Sent(toHost, "entry", x))
        /\ x \notin Shown
  BY <1>3, <1>4, <1>6, <1>8 DEF ReadOnceOf, OneRead
<1>10. ASSUME x # 0
       PROVE  ReadOnceOf(Queues', toDevice', toHost', Shown', x)
  <2>1. Sent(toHost', "entry", x) = {}
    BY <1>1, <1>2, <1>9, <1>10, TakenReply DEF x
  <2>2. QED
    BY <1>2, <1>5, <1>7, <1>9, <1>10, <2>1 DEF ReadOnceOf, OneRead, AtMostOne
<1>11. ASSUME NEW p \in Plain \ {0}, p # x
       PROVE  ReadOnceOf(Queues', toDevice', toHost', Shown', p)
  <2>1. ReadOnceOf(Queues, toDevice, toHost, Shown, p)
    BY <1>8
  <2>2. ReadOnceOf(Queues', toDevice, toHost, Shown', p)
    BY <1>5, <1>11, <2>1
  <2>3. AtMostOne(Sent(toHost, "entry", p)) /\ AtMostOne(Sent(toDevice, "read", p))
    BY <2>1 DEF ReadOnceOf, OneRead
  <2>4. /\ AtMostOne(Sent(toHost', "entry", p))
        /\ Sent(toHost, "entry", p) = {} => Sent(toHost', "entry", p) = {}
    BY <1>1, <1>2, <2>3, TakenReply
  <2>5. QED
    BY <1>2, <2>2, <2>3, <2>4, FewerFrames
<1>12. EachOnce'
  BY <1>10, <1>11, ReadOnceEach
<1>13. QED
  BY <1>9, <1>12 DEF x

LEMMA ChunkReadsOnce ==
  ASSUME TypeInv, EachOnce, Enumerating, ReceiveChunk
  PROVE  EachOnce'
<1> DEFINE chunk == Head(toHost).chunk
<1>1. ManagerOK /\ LineOK
  BY DEF TypeInv
<1>2. /\ toHost # << >> /\ Head(toHost).kind = "chunk"
      /\ HandleParameterChunk(Dev, chunk)
      /\ toHost' = Tail(toHost) /\ toDevice' = toDevice
  BY DEF ReceiveChunk, Arrives
<1>3. chunk \in Chunk /\ chunk.param \in Long
  BY <1>1, <1>2, HeadFacts DEF Chunking
<1> HIDE DEF chunk
<1>4. \A p \in Plain \ {0} : ReadOnceOf(Queues, toDevice, toHost, Shown, p)
  BY ReadOnceEach
<1>5. \A p \in Plain \ {0} : ReadOnceOf(Queues', toDevice, toHost, Shown', p)
  BY <1>1, <1>2, <1>3, <1>4, ChunkManager
<1>6. ASSUME NEW p \in Plain \ {0}
      PROVE  ReadOnceOf(Queues', toDevice', toHost', Shown', p)
  <2>1. AtMostOne(Sent(toHost, "entry", p)) /\ AtMostOne(Sent(toDevice, "read", p))
    BY <1>4 DEF ReadOnceOf, OneRead
  <2>2. /\ AtMostOne(Sent(toHost', "entry", p))
        /\ Sent(toHost, "entry", p) = {} => Sent(toHost', "entry", p) = {}
    BY <1>1, <1>2, <2>1, TakenReply
  <2>3. QED
    BY <1>2, <1>5, <2>1, <2>2, FewerFrames
<1>7. QED
  BY <1>6, ReadOnceEach

(* The frames of one parameter among those that are sent when drained.     *)
LEMMA SentDrained ==
  ASSUME ManagerOK, LineOK, SendDrained, NEW kind, NEW p
  PROVE  /\ Sent(toDevice', kind, p) = {} <=>
              Sent(toDevice, kind, p) = {} /\ Sent(Resent, kind, p) = {}
                /\ Sent(Emptied, kind, p) = {}
         /\ Sent(toDevice, kind, p) = {} /\ Sent(Resent, kind, p) = {}
              /\ AtMostOne(Sent(Emptied, kind, p)) => AtMostOne(Sent(toDevice', kind, p))
         /\ Sent(toDevice, kind, p) = {} /\ AtMostOne(Sent(Resent, kind, p))
              /\ Sent(Emptied, kind, p) = {} => AtMostOne(Sent(toDevice', kind, p))
         /\ Sent(Resent, kind, p) = {} /\ Sent(Emptied, kind, p) = {} =>
              Sent(toDevice', kind, p) = Sent(toDevice, kind, p)
<1> DEFINE T == Reading \cup Writing
           first == toDevice \o Resent
<1>1. toDevice \in Seq(T) /\ Resent \in Seq(T) /\ Emptied \in Seq(T)
  BY DrainedFrames DEF LineOK
<1>2. toDevice' = first \o Emptied
  BY DEF SendDrained, Resent, Emptied
<1> HIDE DEF T
<1>3. first \in Seq(T)
  BY <1>1
<1>4. /\ Sent(Resent, kind, p) = {} => Sent(first, kind, p) = Sent(toDevice, kind, p)
      /\ Sent(first, kind, p) = {} <=> Sent(toDevice, kind, p) = {} /\ Sent(Resent, kind, p) = {}
      /\ Sent(toDevice, kind, p) = {} /\ AtMostOne(Sent(Resent, kind, p)) =>
           AtMostOne(Sent(first, kind, p))
  BY <1>1, SentJoined
<1> HIDE DEF first
<1>5. /\ Sent(Emptied, kind, p) = {} => Sent(toDevice', kind, p) = Sent(first, kind, p)
      /\ Sent(toDevice', kind, p) = {} <=>
           Sent(first, kind, p) = {} /\ Sent(Emptied, kind, p) = {}
      /\ Sent(first, kind, p) = {} /\ AtMostOne(Sent(Emptied, kind, p)) =>
           AtMostOne(Sent(toDevice', kind, p))
  BY <1>1, <1>2, <1>3, SentJoined
<1>6. QED
  BY <1>4, <1>5

LEMMA EmptiedReads ==
  ASSUME ManagerOK, NEW p
  PROVE  /\ Sent(Emptied, "read", p) = Queued(output, p)
         /\ Sent(Emptied, "write", p) = {}
<1>1. DOMAIN Emptied = DOMAIN output
  BY DEF Emptied
<1>2. \A i \in DOMAIN output : Emptied[i].kind = "read" /\ Emptied[i].param = output[i].param
  BY DEF Emptied, ReadFrame
<1>3. QED
  BY <1>1, <1>2 DEF Sent, Queued

(* A request is sent again only when nothing of it is on its way any more: *)
(* its time is over, and it was in time as long as there was.              *)
LEMMA DrainReadsOnce ==
  ASSUME TypeInv, EachOnce, Enumerating, SendDrained
  PROVE  EachOnce'
<1>1. ManagerOK /\ LineOK
  BY DEF TypeInv
<1>2. /\ pending' = [s \in Slot |-> Expire(pending[s])] /\ output' = << >>
      /\ toHost' = toHost /\ devices' = devices
  BY DEF SendDrained, DrainAll
<1>3. pending \in [Slot -> OwnRequest \cup {NoRequest}]
  BY <1>1, OwnFacts
<1>4. Shown' = Shown
  BY <1>2 DEF Shown, Device0
<1>5. /\ Queues.requests = pending /\ Queues.packets = output
      /\ Queues'.requests = pending' /\ Queues'.packets = << >>
  BY <1>2 DEF Queues
<1>6. \A s \in Slot :
        /\ pending'[s] = Expire(pending[s])
        /\ pending'[s] # NoRequest => pending[s] # NoRequest /\ pending'[s].param = pending[s].param
        /\ pending'[s] # NoRequest => pending'[s].dev = Dev /\ pending[s].dev = Dev
        /\ ~ Due(pending[s]) => pending'[s] = pending[s]
        /\ Due(pending[s]) /\ pending'[s] # NoRequest => pending'[s].age < Timeout
  BY <1>2, <1>3, ExpiredOwn DEF OwnRequest
<1>7. \A p : Asked(pending', Dev, p) \subseteq Asked(pending, Dev, p)
  BY <1>6 DEF Asked
<1>8. \A p : Queued(<< >>, p) = {}
  BY DEF Queued
<1>9. \A i \in DOMAIN Resent :
        LET s == SetToSeq(Retried)[i] IN
        /\ i \in 1..Cardinality(Retried) /\ s \in Retried
        /\ Resent[i].param = pending[s].param /\ Resent[i].kind = "read"
  BY <1>1, DrainedFrames DEF Resent, ReadFrame
<1>10. \A s \in Retried : /\ s \in Slot /\ Due(pending[s]) /\ pending'[s] # NoRequest
                          /\ s \in Asked(pending, Dev, pending[s].param)
  BY <1>6 DEF Retried, Due, Asked
<1>11. ASSUME NEW p \in Plain \ {0}
       PROVE  ReadOnceOf(Queues', toDevice', toHost', Shown', p)
  <2>1. ReadOnceOf(Queues, toDevice, toHost, Shown, p)
    BY ReadOnceEach
  <2>2. p \in Shown' => Asked(pending', Dev, p) = {}
    BY <1>4, <1>5, <1>7, <2>1 DEF ReadOnceOf
  <2>3. AtMostOne(Asked(pending', Dev, p))
    BY <1>5, <1>7, <2>1 DEF ReadOnceOf, OneRead, AtMostOne
  <2>4. AtMostOne(Sent(toHost, "entry", p))
    BY <2>1 DEF ReadOnceOf, OneRead
  <2>5. CASE \E s \in Asked(pending, Dev, p) : Due(pending[s])
    <3>1. PICK s \in Asked(pending, Dev, p) : Due(pending[s])
      BY <2>5
    <3>2. \A t \in Asked(pending, Dev, p) : t = s
      BY <1>5, <2>1, <3>1 DEF ReadOnceOf, OneRead, AtMostOne
    <3>3. ~ (pending[s].age < Timeout)
      <4>1. pending[s] \in OwnRequest
        BY <1>3, <3>1 DEF Asked
      <4>2. pending[s].age \in Nat /\ Timeout \in Nat /\ pending[s].age >= Timeout
        BY <3>1, <4>1, TimingAssumption DEF Due, OwnRequest, Request
      <4>3. QED
        BY <4>2
    <3>4. /\ Queued(output, p) = {} /\ Sent(toDevice, "read", p) = {}
          /\ Sent(toHost, "entry", p) = {}
      BY <1>5, <2>1, <3>2, <3>3 DEF ReadOnceOf, OneRead
    <3>5. Sent(Emptied, "read", p) = {}
      BY <1>1, <3>4, EmptiedReads
    <3>6. \A i \in Sent(Resent, "read", p) :
            i \in 1..Cardinality(Retried) /\ SetToSeq(Retried)[i] = s /\ s \in Retried
      BY <1>9, <1>10, <3>2 DEF Sent
    <3>7. AtMostOne(Sent(Resent, "read", p))
      BY <1>1, <3>6, DrainedFrames DEF AtMostOne
    <3>8. AtMostOne(Sent(toDevice', "read", p))
      BY <1>1, <3>4, <3>5, <3>7, SentDrained
    <3>9. Sent(toDevice', "read", p) # {} =>
            \E t \in Asked(pending', Dev, p) : pending'[t].age < Timeout
      <4>1. Sent(toDevice', "read", p) # {} => Sent(Resent, "read", p) # {}
        BY <1>1, <3>4, <3>5, SentDrained
      <4>2. Sent(Resent, "read", p) # {} => s \in Retried
        BY <3>6
      <4>3. s \in Retried => s \in Asked(pending', Dev, p) /\ pending'[s].age < Timeout
        BY <1>6, <1>10, <3>1 DEF Asked
      <4>4. QED
        BY <4>1, <4>2, <4>3
    <3>10. QED
      BY <1>2, <1>5, <1>8, <2>2, <2>3, <2>4, <3>4, <3>8, <3>9 DEF ReadOnceOf, OneRead, AtMostOne
  <2>6. CASE \A s \in Asked(pending, Dev, p) : ~ Due(pending[s])
    <3>1. Sent(Resent, "read", p) = {}
      BY <1>9, <1>10, <2>6 DEF Sent
    <3>2. /\ \A s \in Asked(pending, Dev, p) : pending'[s] = pending[s]
          /\ Asked(pending', Dev, p) = Asked(pending, Dev, p)
      <4>1. \A s \in Asked(pending, Dev, p) : s \in Slot /\ pending'[s] = pending[s]
        BY <1>6, <2>6 DEF Asked
      <4>2. \A s \in Asked(pending, Dev, p) : s \in Asked(pending', Dev, p)
        BY <4>1 DEF Asked
      <4>3. QED
        BY <1>7, <4>1, <4>2
    <3>3. Sent(Emptied, "read", p) = Queued(output, p)
      BY <1>1, EmptiedReads
    <3>4. AtMostOne(Sent(toDevice', "read", p))
      <4>1. CASE Queued(output, p) = {}
        BY <1>1, <1>5, <2>1, <3>1, <3>3, <4>1, SentDrained DEF ReadOnceOf, OneRead
      <4>2. CASE Queued(output, p) # {}
        <5>1. Sent(toDevice, "read", p) = {} /\ AtMostOne(Queued(output, p))
          BY <1>5, <2>1, <4>2 DEF ReadOnceOf, OneRead
        <5>2. QED
          BY <1>1, <3>1, <3>3, <5>1, SentDrained
      <4>3. QED
        BY <4>1, <4>2
    <3>5. Sent(toDevice', "read", p) # {} =>
            Sent(toDevice, "read", p) # {} \/ Queued(output, p) # {}
      BY <1>1, <3>1, <3>3, SentDrained
    <3>6. QED
      BY <1>2, <1>5, <1>8, <2>1, <2>2, <2>3, <2>4, <3>2, <3>4, <3>5
         DEF ReadOnceOf, OneRead, AtMostOne
  <2>7. QED
    BY <2>5, <2>6
<1>12. QED
  BY <1>11, ReadOnceEach

LEMMA TimeReadsOnce ==
  ASSUME TypeInv, EachOnce, Enumerating, TimePasses
  PROVE  EachOnce'
<1>1. ManagerOK
  BY DEF TypeInv
<1>2. /\ pending' = [s \in Slot |-> Older(pending[s], 1)]
      /\ output = << >> /\ toDevice = << >> /\ toHost = << >>
      /\ UNCHANGED <<devices, output, toDevice, toHost>>
  BY DEF TimePasses, NothingUnderWay, UpdateTime, wire
<1>3. Shown' = Shown
  BY <1>2 DEF Shown, Device0
<1>4. /\ Queues.requests = pending /\ Queues'.requests = pending' /\ Queues'.packets = << >>
  BY <1>2 DEF Queues
<1>5. \A p : Asked(pending', Dev, p) = Asked(pending, Dev, p)
  <2>1. pending \in [Slot -> OwnRequest \cup {NoRequest}]
    BY <1>1, OwnFacts
  <2>2. \A s \in Slot :
          /\ pending'[s] # NoRequest <=> pending[s] # NoRequest
          /\ pending[s] # NoRequest => pending'[s].param = pending[s].param
          /\ pending[s] # NoRequest => pending'[s].dev = Dev /\ pending[s].dev = Dev
    BY <1>2, <2>1, OlderOwn DEF OwnRequest
  <2>3. QED
    BY <2>2 DEF Asked
<1>6. \A p : Queued(<< >>, p) = {} /\ Sent(<< >>, "read", p) = {} /\ Sent(<< >>, "entry", p) = {}
  BY DEF Queued, Sent
<1>7. ASSUME NEW p \in Plain \ {0}
      PROVE  ReadOnceOf(Queues', toDevice', toHost', Shown', p)
  <2>1. ReadOnceOf(Queues, toDevice, toHost, Shown, p)
    BY ReadOnceEach
  <2>2. QED
    BY <1>2, <1>3, <1>4, <1>5, <1>6, <2>1 DEF ReadOnceOf, OneRead, AtMostOne
<1>8. QED
  BY <1>7, ReadOnceEach

(* The frames of one parameter in an answer.                               *)
LEMMA AnswerEntries ==
  ASSUME NEW frame, NEW p
  PROVE  /\ AtMostOne(Sent(Answer(frame), "entry", p))
         /\ frame.param # p \/ p \in Long => Sent(Answer(frame), "entry", p) = {}
<1> DEFINE told == [kind |-> "entry", param |-> frame.param, value |-> held[frame.param]]
<1>1. CASE frame.param \notin Long
  <2>1. Answer(frame) = <<told>> /\ told.param = frame.param
    BY <1>1 DEF Answer
  <2> HIDE DEF told
  <2>2. \A i \in DOMAIN Answer(frame) : i = 1 /\ Answer(frame)[i] = told
    BY <2>1
  <2>3. QED
    BY <1>1, <2>1, <2>2 DEF Sent, AtMostOne
<1>2. CASE frame.param \in Long
  <2>1. \A i \in DOMAIN Answer(frame) : Answer(frame)[i].kind = "chunk"
    BY <1>2 DEF Answer
  <2>2. Sent(Answer(frame), "entry", p) = {}
    BY <2>1 DEF Sent
  <2>3. QED
    BY <2>2 DEF AtMostOne
<1>3. QED
  BY <1>1, <1>2

LEMMA WorldReadsOnce ==
  ASSUME TypeInv, EachOnce, Enumerating, World
  PROVE  EachOnce'
<1>1. ManagerOK /\ LineOK
  BY DEF TypeInv
<1>2. UNCHANGED vars
  BY DEF World, DeviceAnswers, DeviceObeys, LoseRequest, LoseReply, DeviceFinishes
<1>3. Queues' = Queues /\ Shown' = Shown
  BY <1>2 DEF vars, Queues, Shown, Device0
<1>4. ASSUME NEW p \in Plain \ {0}
      PROVE  ReadOnceOf(Queues', toDevice', toHost', Shown', p)
  <2>1. ReadOnceOf(Queues, toDevice, toHost, Shown, p)
    BY ReadOnceEach
  <2>2. AtMostOne(Sent(toHost, "entry", p)) /\ AtMostOne(Sent(toDevice, "read", p))
    BY <2>1 DEF ReadOnceOf, OneRead
  <2>3. CASE DeviceAnswers
    <3> DEFINE answer == Answer(Head(toDevice))
               T == Telling \cup Chunking
    <3>1. /\ toDevice # << >> /\ Head(toDevice).kind = "read"
          /\ toDevice' = Tail(toDevice) /\ toHost' = toHost \o answer
      BY <2>3 DEF DeviceAnswers
    <3>2. toHost \in Seq(T) /\ answer \in Seq(T)
      BY <1>1, <3>1, ToDeviceFacts, AnswerType DEF LineOK
    <3>3. /\ AtMostOne(Sent(answer, "entry", p))
          /\ Head(toDevice).param # p => Sent(answer, "entry", p) = {}
      BY AnswerEntries
    <3> HIDE DEF T, answer
    <3>4. /\ AtMostOne(Sent(toDevice', "read", p))
          /\ Sent(toDevice, "read", p) = {} => Sent(toDevice', "read", p) = {}
      BY <1>1, <2>2, <3>1, TakenRequest
    <3>5. CASE Head(toDevice).param # p
      <4>1. Sent(toHost', "entry", p) = Sent(toHost, "entry", p)
        BY <3>1, <3>2, <3>3, <3>5, SentJoined
      <4>2. QED
        BY <1>3, <2>1, <2>2, <3>4, <4>1, FewerFrames
    <3>6. CASE Head(toDevice).param = p
      <4>1. Sent(toDevice, "read", p) # {} /\ Sent(toDevice', "read", p) = {}
        BY <1>1, <2>2, <3>1, <3>6, TakenRequest
      <4>2. /\ Sent(toHost, "entry", p) = {} /\ Queued(Queues.packets, p) = {}
            /\ \E s \in Asked(Queues.requests, Dev, p) : Queues.requests[s].age < Timeout
        BY <2>1, <4>1 DEF ReadOnceOf, OneRead
      <4>3. AtMostOne(Sent(toHost', "entry", p))
        BY <3>1, <3>2, <3>3, <4>2, SentJoined
      <4>4. QED
        BY <1>3, <2>1, <4>1, <4>2, <4>3 DEF ReadOnceOf, OneRead, AtMostOne
    <3>7. QED
      BY <3>5, <3>6
  <2>4. CASE DeviceObeys \/ LoseRequest
    <3>1. toDevice # << >> /\ toDevice' = Tail(toDevice) /\ toHost' = toHost
      BY <2>4 DEF DeviceObeys, LoseRequest
    <3>2. /\ AtMostOne(Sent(toDevice', "read", p))
          /\ Sent(toDevice, "read", p) = {} => Sent(toDevice', "read", p) = {}
      BY <1>1, <2>2, <3>1, TakenRequest
    <3>3. QED
      BY <1>3, <2>1, <2>2, <3>1, <3>2, FewerFrames
  <2>5. CASE LoseReply
    <3>1. toHost # << >> /\ toHost' = Tail(toHost) /\ toDevice' = toDevice
      BY <2>5 DEF LoseReply
    <3>2. /\ AtMostOne(Sent(toHost', "entry", p))
          /\ Sent(toHost, "entry", p) = {} => Sent(toHost', "entry", p) = {}
      BY <1>1, <2>2, <3>1, TakenReply
    <3>3. QED
      BY <1>3, <2>1, <2>2, <3>1, <3>2, FewerFrames
  <2>6. CASE \E x \in DOMAIN Kind : DeviceFinishes(x)
    BY <1>3, <2>1, <2>6 DEF DeviceFinishes
  <2>7. QED
    BY <2>3, <2>4, <2>5, <2>6 DEF World
<1>5. QED
  BY <1>4, ReadOnceEach

LEMMA SameReadsOnce ==
  ASSUME EachOnce, UNCHANGED <<vars, toDevice, toHost, phase>>
  PROVE  EachOnce'
<1>1. Queues' = Queues /\ Shown' = Shown
  BY DEF vars, Queues, Shown, Device0
<1>2. QED
  BY <1>1, ReadOnceEach DEF Enumerating

LEMMA RefreshReadsOnce ==
  ASSUME TypeInv, EachOnce, Refresh
  PROVE  EachOnce'
<1>1. /\ UNCHANGED <<pending, output, toDevice, toHost, phase>> /\ Shown' = {}
  BY RefreshType DEF Refresh, wire
<1>2. Queues' = Queues
  BY <1>1 DEF Queues
<1>3. QED
  BY <1>1, <1>2, ReadOnceEach DEF ReadOnceOf, Enumerating

(* No step enters the browser, nor the loading before `set`: the program   *)
(* starts in them or never is.                                             *)
LEMMA PhaseKept ==
  ASSUME [TuiNext]_allVars, ~ Jobs
  PROVE  phase' = phase
<1>1. CASE Keys
  BY <1>1 DEF Keys, Down, Up, SelectFolder, SelectCommand, SelectOption, GoBack, Refresh,
              Type, Arrow, Dismiss, ApplyEdit, ApplyNothing, ExecuteCommand, CancelCommand,
              AnswerNothing, PollCommand, Answered, WriteAndReread, KeyOnly
<1>2. CASE Packets
  BY <1>2 DEF Packets, ReceiveEntry, ReceiveChunk, SendDrained, TimePasses, tui
<1>3. CASE World
  BY <1>3 DEF World, DeviceAnswers, DeviceObeys, LoseRequest, LoseReply, DeviceFinishes, tui
<1>4. CASE UNCHANGED allVars
  BY ONLY <1>4 DEF allVars, tui
<1>5. QED
  BY <1>1, <1>2, <1>3, <1>4 DEF TuiNext

LEMMA JobsEnumerateNot == Jobs => phase' \notin {"tui", "load"}
BY DEF Jobs, SetStart, SetNothing, GetStart, GetDone, Verified, GiveUp,
       VerifyEntry, VerifyRunning, VerifyAsked, StrayEntry, PromptTold

LEMMA EnumeratingOnly ==
  ASSUME [TuiNext]_allVars, Enumerating'
  PROVE  Enumerating /\ ~ Jobs /\ phase' = phase
<1>1. ~ Jobs
  BY JobsEnumerateNot DEF Enumerating
<1>2. QED
  BY <1>1, PhaseKept DEF Enumerating

LEMMA BrowserOnly ==
  ASSUME [TuiNext]_allVars, phase' = "tui"
  PROVE  phase = "tui" /\ ~ Jobs
BY JobsEnumerateNot, PhaseKept

(* The keys by what they do: those of the list and the editor change only  *)
(* the program's own state, 'r' empties the map, and some write.           *)
LEMMA KeyKinds ==
  ASSUME Keys
  PROVE  KeyOnly \/ Refresh \/ ApplyEdit \/ ExecuteCommand \/ CancelCommand \/ PollCommand
BY DEF Keys, Down, Up, SelectFolder, SelectCommand, SelectOption, GoBack, Type, Arrow,
       Dismiss, ApplyNothing, AnswerNothing

LEMMA EachOnceStep == TypeInv /\ EachOnce /\ [TuiNext]_allVars => EachOnce'
<1> SUFFICES ASSUME TypeInv, EachOnce, [TuiNext]_allVars PROVE EachOnce'
  OBVIOUS
<1>1. SUFFICES ASSUME Enumerating' PROVE EachOnce'
  BY ReadOnceEach
<1>2. Enumerating /\ ~ Jobs
  BY <1>1, EnumeratingOnly
<1>3. CASE KeyOnly \/ UNCHANGED allVars
  BY <1>3, SameReadsOnce DEF KeyOnly, allVars, tui, wire
<1>4. CASE Refresh
  BY <1>4, RefreshReadsOnce
<1>5. CASE ApplyEdit \/ ExecuteCommand \/ CancelCommand \/ PollCommand
  BY <1>2, <1>5, WritingKeys, WriteReadsOnce
<1>6. CASE Packets
  BY <1>2, <1>6, EntryReadsOnce, ChunkReadsOnce, DrainReadsOnce, TimeReadsOnce DEF Packets
<1>7. CASE World
  BY <1>2, <1>7, WorldReadsOnce
<1>8. QED
  BY <1>2, <1>3, <1>4, <1>5, <1>6, <1>7, KeyKinds DEF TuiNext

LEMMA RootKeptStep ==
  ASSUME TypeInv, RootKept, [TuiNext]_allVars
  PROVE  RootKept'
<1>1. SUFFICES ASSUME Enumerating', 0 \in Plain, 0 \in Shown'
               PROVE  Device0'.params[0] = Entry(0, 0)
  BY DEF RootKept, Enumerating, Plain
<1>2. Enumerating /\ ~ Jobs
  BY <1>1, EnumeratingOnly
<1>3. ManagerOK /\ LineOK /\ 0 \in DOMAIN Kind /\ 0 \in ParamId
  BY KindFacts DEF TypeInv
<1>4. 0 \in Shown => Device0.params[0] = Entry(0, 0)
  BY <1>1, <1>2 DEF RootKept
<1>5. CASE UNCHANGED devices
  BY <1>1, <1>4, <1>5 DEF Shown, Device0
<1>6. CASE Refresh
  BY <1>1, <1>6, RefreshType
<1>7. ASSUME NEW x, NEW data, WriteAndReread(x, data), Writable(x, data), past.edits < MaxEdits
      PROVE  Device0'.params[0] = Entry(0, 0)
  <2>1. x # 0
    BY <1>7, DeviceAssumption DEF Writable
  <2>2. Shown' = Shown \ {x} /\ Device0'.params[0] = Device0.params[0]
    BY <1>3, <1>7, <2>1, WriteType
  <2>3. QED
    BY <1>1, <1>4, <2>2
<1>8. CASE ReceiveEntry
  <2> DEFINE x == Head(toHost).param
             content == Entry(Head(toHost).param, Head(toHost).value)
  <2>1. /\ toHost # << >> /\ Head(toHost).kind = "entry"
        /\ HandleParameterEntry(Dev, x, content)
    BY <1>8 DEF ReceiveEntry, Arrives
  <2>2. x \in DOMAIN Kind /\ content \in Content /\ Head(toHost).value \in Values(x)
    BY <1>3, <2>1, EntryFacts
  <2>3. x = 0 => content = Entry(0, 0)
    BY <2>2, ValuesNat, DeviceAssumption
  <2> HIDE DEF x, content
  <2>4. /\ Shown' \in {Shown, Shown \cup {x}}
        /\ \A y \in ParamId \ {x} : Device0'.params[y] = Device0.params[y]
        /\ Device0'.params[x] \in {Device0.params[x], content}
    BY <1>3, <2>1, <2>2, EntryManager
  <2>5. Device0'.params[0] = Device0.params[0] => 0 \in Shown
    BY <1>1, <1>3 DEF Shown, Stored
  <2>6. QED
    BY <1>3, <1>4, <2>3, <2>4, <2>5
<1>9. CASE ReceiveChunk
  <2>1. /\ HandleParameterChunk(Dev, Head(toHost).chunk)
        /\ Head(toHost).chunk \in Chunk /\ Head(toHost).chunk.param \in Long
    BY <1>3, <1>9, HeadFacts DEF ReceiveChunk, Arrives, Chunking
  <2>2. /\ Shown' \in {Shown, Shown \cup {Head(toHost).chunk.param}}
        /\ Device0'.params[0] = Device0.params[0]
    BY <1>1, <1>3, <2>1, ChunkManager
  <2>3. QED
    BY <1>1, <1>4, <2>1, <2>2 DEF Plain
<1>10. CASE ApplyEdit \/ ExecuteCommand \/ CancelCommand \/ PollCommand
  BY <1>7, <1>10, WritingKeys
<1>11. CASE KeyOnly \/ SendDrained \/ TimePasses \/ World \/ UNCHANGED allVars
  <2>1. UNCHANGED devices
    BY <1>11 DEF KeyOnly, SendDrained, DrainAll, TimePasses, UpdateTime, World, DeviceAnswers,
                 DeviceObeys, LoseRequest, LoseReply, DeviceFinishes, allVars, vars
  <2>2. QED
    BY <1>5, <2>1
<1>12. QED
  BY <1>2, <1>6, <1>8, <1>9, <1>10, <1>11, KeyKinds DEF TuiNext, Packets

LEMMA ReadOnceStep == TypeInv /\ ReadOnce /\ [TuiNext]_allVars => ReadOnce'
<1> SUFFICES ASSUME TypeInv, EachOnce, RootKept, [TuiNext]_allVars PROVE EachOnce' /\ RootKept'
  BY DEF ReadOnce
<1>1. QED
  BY EachOnceStep, RootKeptStep

LEMMA InitEachOnce == TuiInit => EachOnce
<1> SUFFICES ASSUME TuiInit, NEW p \in Plain \ {0}
             PROVE  ReadOnceOf(Queues, toDevice, toHost, Shown, p)
  BY ReadOnceEach
<1>1. TypeInv /\ Shown = {} /\ output = Discovered.packets
  BY InitType
<1>2. PICK elapsed \in 0..Timeout : pending = Aged(Discovered.requests, elapsed)
  BY InitType
<1>3. elapsed \in Nat /\ Discovered.requests \in [Slot -> OwnRequest \cup {NoRequest}]
  BY DiscoveredFacts, TimingAssumption DEF OwnQueues
<1>4. /\ Fresh0 \in OwnRequest /\ Fresh0.param = 0
      /\ ReadOf(Fresh0).param = 0
  BY KindFacts, NewOwnRequest DEF Fresh0, ReadOf
<1>5. Asked(pending, Dev, p) = {}
  <2>1. \A s \in Slot : pending[s] # NoRequest => pending[s].param = 0
    <3> SUFFICES ASSUME NEW s \in Slot, pending[s] # NoRequest PROVE pending[s].param = 0
      OBVIOUS
    <3>1. /\ Discovered.requests[s] \in {NoRequest, Fresh0}
          /\ Discovered.requests[s] \in OwnRequest \cup {NoRequest}
      BY <1>3, DiscoveredFacts
    <3>2. pending[s] = Older(Discovered.requests[s], elapsed)
      BY <1>2 DEF Aged
    <3>3. Discovered.requests[s] # NoRequest
      BY <1>3, <3>1, <3>2, OlderOwn
    <3>4. pending[s].param = Discovered.requests[s].param
      BY ONLY <1>3, <3>1, <3>2, <3>3, OlderOwn
    <3>5. QED
      BY <1>4, <3>1, <3>3, <3>4
  <2>2. QED
    BY <2>1 DEF Asked
<1>6. Queued(output, p) = {}
  BY <1>1, <1>4, DiscoveredFacts DEF Queued
<1>7. Sent(toDevice, "read", p) = {} /\ Sent(toHost, "entry", p) = {}
  <2>1. toDevice = << >> /\ toHost = << >>
    BY DEF TuiInit
  <2>2. QED
    BY <2>1 DEF Sent
<1>8. QED
  BY <1>1, <1>5, <1>6, <1>7 DEF ReadOnceOf, OneRead, AtMostOne, Queues

LEMMA InitReadsOnce == TuiInit => ReadOnce
BY InitEachOnce, InitType DEF ReadOnce, RootKept

(* While the manager enumerates, for the browser or before `set` begins,   *)
(* every parameter that fits a frame is read by one request at a time, and *)
(* an entry that is stored is not read at all: nothing that arrives        *)
(* changes what the list shows of it.  The exception is the root, number   *)
(* 0: discover_device() asks for it before it tells the manager any time,  *)
(* so a program that has run for timeout_ms by its first loop sends the    *)
(* first read twice.                                                       *)
THEOREM OneReadAtATime == TuiSpec => []ReadOnce
<1>1. TuiInit => TypeInv /\ ReadOnce
  BY InitType, InitReadsOnce
<1>2. TypeInv /\ ReadOnce /\ [TuiNext]_allVars => (TypeInv /\ ReadOnce)'
  BY TypeStep, ReadOnceStep
<1>3. QED
  BY <1>1, <1>2, PTL DEF TuiSpec
=============================================================================
