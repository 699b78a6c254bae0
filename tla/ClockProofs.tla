---------------------------- MODULE ClockProofs ----------------------------
(***************************************************************************)
(* Proofs about the clock of the device manager, for a clock of any width, *)
(* any interval, timeout and number of retries that one turn of the host   *)
(* loop does not push beyond the width of the clock.                       *)
(***************************************************************************)
EXTENDS Clock, TLAPS

(* Before the manager was first told the time: a read may be pending, with *)
(* a stamp of 0, and what is left of the turn does not wrap the source.    *)
AtStart ==
  /\ phase \in {"time", "packets"}
  /\ currentTime = 0 /\ lastPing = 0 /\ lag \in Reading
  /\ request # NoRequest => request.timestamp = 0 /\ ~ stamped
  /\ wrapped = FALSE /\ pinged = FALSE
  /\ sincePing <= MaxTurn /\ sincePing <= lag /\ sinceSent <= sincePing
  /\ phase = "packets" => lag + MaxTurn < Wrap + sincePing

(* One turn of the loop takes no longer than MaxTurn. *)
TurnBounded == IF told THEN lag <= MaxTurn ELSE AtStart

JustTold == phase \in {"ping", "timeouts"} => lag = 0

(* What the readings say of the last ping is true: exactly, or (before the *)
(* first one) at least.                                                    *)
PingStamp ==
  Interval # 0 =>
    \/ pinged /\ sincePing = Elapsed(lastPing, currentTime) + lag
    \/ ~ pinged /\ lastPing = 0 /\ sincePing <= currentTime + lag

(* Outside the call that would send one, no ping is due. *)
NoPingDue ==
  Interval # 0 /\ phase \in {"timeouts", "packets", "time"} =>
    Elapsed(lastPing, currentTime) < Interval

(* What the readings say of the pending read is true up to one turn; of    *)
(* one whose stamp was never told, it is at least no less than the truth.  *)
RequestStamp ==
  IF request = NoRequest THEN sinceSent = 0
  ELSE LET age == Elapsed(request.timestamp, currentTime) + lag IN
         sinceSent <= age /\ (stamped => age <= sinceSent + MaxTurn)

NothingDue ==
  request # NoRequest /\ phase \in {"packets", "time"} =>
    Elapsed(request.timestamp, currentTime) < Timeout

(* No stamp is ahead of a clock that has not wrapped around. *)
StampsBehind ==
  ~ wrapped => /\ lastPing <= currentTime
               /\ request # NoRequest => request.timestamp <= currentTime

Stamps ==
  /\ TurnBounded /\ JustTold /\ PingStamp /\ NoPingDue
  /\ RequestStamp /\ NothingDue /\ StampsBehind

(* The counts stay bounded: the ping and the read are never overdue. *)
InTime == PingsGoOn /\ RetriesNotLate

IInv == TypeOK /\ (phase # "panicked" => Stamps /\ InTime) /\ PanicsOnlyAfterWrap

LEMMA ElapsedFacts ==
  ASSUME NEW x \in Reading, NEW y \in Reading
  PROVE  /\ Elapsed(x, y) \in 0..(Wrap - 1)
         /\ Elapsed(y, y) = 0
         /\ Elapsed(0, y) = y
BY ClockAssumption DEF Elapsed, Reading

(* Moving the later reading on by d moves the difference on by d, as long  *)
(* as the difference stays below the width.                                *)
LEMMA ElapsedMoves ==
  ASSUME NEW x \in Reading, NEW y \in Reading, NEW d \in Nat,
         Elapsed(x, y) + d < Wrap
  PROVE  LET z == IF y + d < Wrap THEN y + d ELSE y + d - Wrap
         IN  z \in Reading /\ Elapsed(x, z) = Elapsed(x, y) + d
BY ClockAssumption DEF Elapsed, Reading

LEMMA Requests ==
  /\ NoRequest.retries = RetryCount + 1
  /\ \A t, r : [timestamp |-> t, retries |-> r].timestamp = t
  /\ \A t, r : [timestamp |-> t, retries |-> r].retries = r
  /\ \A t \in Reading : \A r \in 0..RetryCount :
       /\ [timestamp |-> t, retries |-> r] \in [timestamp : Reading, retries : 0..RetryCount]
       /\ [timestamp |-> t, retries |-> r] # NoRequest
BY ClockAssumption DEF NoRequest

LEMMA InitInv == Init => IInv
<1>1. SUFFICES ASSUME Init PROVE IInv
  OBVIOUS
<1>2. 0 \in Reading
  BY ClockAssumption DEF Reading
<1>3. TypeOK
  <2>1. lag \in Nat /\ 0 \in Nat
    BY <1>1, ClockAssumption DEF Init, Reading
  <2>2. {checked, wrapped, pinged, told, stamped} \subseteq BOOLEAN
    BY <1>1 DEF Init
  <2>3. QED
    BY <1>1, <1>2, <2>1, <2>2 DEF Init, TypeOK
<1>4. Elapsed(0, 0) = 0
  BY <1>2, ElapsedFacts
<1>5. Stamps
  BY <1>1, <1>4, ClockAssumption
  DEF Init, Stamps, TurnBounded, AtStart, JustTold, PingStamp, NoPingDue,
      RequestStamp, NothingDue, StampsBehind, Reading
<1>6. InTime /\ PanicsOnlyAfterWrap
  BY <1>1, ClockAssumption DEF Init, InTime, PingsGoOn, RetriesNotLate, PanicsOnlyAfterWrap
<1>7. QED
  BY <1>3, <1>5, <1>6 DEF IInv

(* A subtraction underflows only after a wrap-around, so that a panic does *)
(* not come before one.                                                    *)
LEMMA PanicInv ==
  ASSUME IInv, phase # "panicked", Panic,
         \/ Underflows(lastPing)
         \/ request # NoRequest /\ Underflows(request.timestamp)
  PROVE  IInv'
<1>1. wrapped
  BY DEF IInv, TypeOK, Stamps, StampsBehind, Underflows, Reading
<1>2. QED
  BY <1>1 DEF Panic, IInv, TypeOK, PanicsOnlyAfterWrap

LEMMA UpdateTimeInv == IInv /\ UpdateTime => IInv'
<1> SUFFICES ASSUME IInv, UpdateTime PROVE IInv'
  OBVIOUS
<1>1. /\ phase = "time" /\ phase' = "ping" /\ lag' = 0
      /\ currentTime' = IF currentTime + lag < Wrap THEN currentTime + lag
                                                    ELSE currentTime + lag - Wrap
      /\ wrapped' = (wrapped \/ currentTime + lag >= Wrap)
      /\ told' = TRUE
      /\ UNCHANGED <<checked, lastPing, request, pinged, sincePing, sinceSent,
                     sinceAsked, stamped>>
  BY DEF UpdateTime
<1>2. TypeOK /\ Stamps /\ InTime
  BY <1>1 DEF IInv
<1>3. currentTime \in Reading /\ lastPing \in Reading /\ lag \in Nat
  BY <1>2 DEF TypeOK
<1>4. currentTime' \in Reading
  BY <1>1, <1>2, <1>3, ClockAssumption DEF Stamps, TurnBounded, AtStart, Reading
<1>5. TypeOK'
  BY <1>1, <1>2, <1>4 DEF TypeOK
<1>6. Interval # 0 => Elapsed(lastPing, currentTime) + lag < Wrap
  <2>1. Elapsed(lastPing, currentTime) \in Nat
    BY <1>3, ElapsedFacts, ClockAssumption
  <2>2. CASE AtStart
    <3>1. currentTime = 0 /\ lastPing = 0 /\ lag \in 0..(Wrap - 1)
      BY <2>2 DEF AtStart, Reading
    <3>2. Elapsed(0, 0) = 0
      BY <1>3, <3>1, ElapsedFacts
    <3>3. QED
      BY <3>1, <3>2, ClockAssumption
  <2>3. CASE lag <= MaxTurn
    BY <1>1, <1>2, <1>3, <2>1, <2>3, ClockAssumption DEF Stamps, NoPingDue
  <2>4. QED
    BY <1>2, <2>2, <2>3 DEF Stamps, TurnBounded
<1>7. Interval # 0 => Elapsed(lastPing, currentTime') = Elapsed(lastPing, currentTime) + lag
  BY <1>1, <1>3, <1>6, ElapsedMoves
<1>8. PingStamp'
  <2>1. SUFFICES ASSUME Interval # 0 PROVE PingStamp'
    BY DEF PingStamp
  <2>2. CASE pinged /\ sincePing = Elapsed(lastPing, currentTime) + lag
    <3>1. Elapsed(lastPing', currentTime') = Elapsed(lastPing, currentTime) + lag
      BY <1>1, <1>7, <2>1
    <3>2. Elapsed(lastPing', currentTime') + lag' = sincePing'
      BY <1>1, <1>3, <2>2, <3>1, ElapsedFacts
    <3>3. QED
      BY <1>1, <2>2, <3>2 DEF PingStamp
  <2>3. CASE ~ pinged /\ lastPing = 0 /\ sincePing <= currentTime + lag
    <3>1. currentTime + lag < Wrap
      BY <1>3, <1>6, <2>1, <2>3, ElapsedFacts
    <3>2. QED
      BY <1>1, <1>3, <2>3, <3>1 DEF PingStamp, Reading
  <2>4. QED
    BY <1>2, <2>1, <2>2, <2>3 DEF Stamps, PingStamp
<1>9. RequestStamp'
  <2>1. CASE request = NoRequest
    BY <1>1, <1>2, <2>1 DEF Stamps, RequestStamp
  <2>2. CASE request # NoRequest
    <3>1. request.timestamp \in Reading
      BY <1>2, <2>2 DEF TypeOK
    <3>2. Elapsed(request.timestamp, currentTime) + lag < Wrap
      <4>1. CASE told
        BY <1>1, <1>2, <1>3, <2>2, <3>1, <4>1, ElapsedFacts, ClockAssumption
        DEF Stamps, NothingDue, TurnBounded
      <4>2. CASE ~ told
        <5>1. request.timestamp = 0 /\ currentTime = 0 /\ lag < Wrap
          BY <1>2, <2>2, <4>2, ClockAssumption DEF Stamps, TurnBounded, AtStart, Reading
        <5>2. Elapsed(0, 0) = 0
          BY <1>3, <5>1, ElapsedFacts
        <5>3. QED
          BY <1>3, <5>1, <5>2
      <4>3. QED
        BY <4>1, <4>2
    <3>3. Elapsed(request.timestamp, currentTime') =
            Elapsed(request.timestamp, currentTime) + lag
      BY <1>1, <1>3, <3>1, <3>2, ElapsedMoves
    <3>4. QED
      BY <1>1, <1>2, <1>3, <2>2, <3>1, <3>3, ElapsedFacts DEF Stamps, RequestStamp
  <2>3. QED
    BY <2>1, <2>2
<1>10. StampsBehind'
  <2>1. SUFFICES ASSUME ~ wrapped' PROVE StampsBehind'
    BY DEF StampsBehind
  <2>2. ~ wrapped /\ ~ (currentTime + lag >= Wrap)
    BY <1>1, <2>1
  <2>3. currentTime' = currentTime + lag /\ currentTime \in Nat /\ lastPing \in Nat
    BY <1>1, <1>3, <2>2, ClockAssumption DEF Reading
  <2>4. request # NoRequest => request.timestamp \in Nat
    BY <1>2 DEF TypeOK, Reading
  <2>5. QED
    BY <1>1, <1>2, <1>3, <2>2, <2>3, <2>4 DEF Stamps, StampsBehind
<1>11. TurnBounded' /\ JustTold' /\ NoPingDue' /\ NothingDue'
  BY <1>1, ClockAssumption DEF TurnBounded, JustTold, NoPingDue, NothingDue
<1>12. InTime'
  BY <1>1, <1>2 DEF InTime, PingsGoOn, RetriesNotLate
<1>13. QED
  BY <1>1, <1>5, <1>8, <1>9, <1>10, <1>11, <1>12 DEF IInv, Stamps, PanicsOnlyAfterWrap

LEMMA PingInv == IInv /\ SendDevicePing => IInv'
<1> SUFFICES ASSUME IInv, SendDevicePing PROVE IInv'
  OBVIOUS
<1>1. phase = "ping" /\ TypeOK /\ Stamps /\ InTime
  BY DEF IInv, SendDevicePing
<1>2. CASE Interval # 0 /\ Underflows(lastPing)
  BY <1>1, <1>2, PanicInv DEF SendDevicePing
<1>3. CASE ~ (Interval # 0 /\ Underflows(lastPing))
  <2>1. /\ phase' = "timeouts" /\ lag' = lag /\ lag = 0
        /\ UNCHANGED <<checked, currentTime, request, wrapped, sinceSent, sinceAsked, told,
                       stamped>>
        /\ told
    BY <1>1, <1>3 DEF SendDevicePing, Stamps, JustTold, TurnBounded, AtStart
  <2>2. currentTime \in Reading /\ lastPing \in Reading
    BY <1>1 DEF TypeOK
  <2>3. RequestStamp' /\ TurnBounded' /\ JustTold' /\ NothingDue' /\ RetriesNotLate'
    BY <1>1, <2>1, ClockAssumption
    DEF Stamps, RequestStamp, TurnBounded, JustTold, NothingDue, InTime, RetriesNotLate
  <2>4. CASE Interval # 0 /\ Elapsed(lastPing, currentTime) >= Interval
    <3>1. lastPing' = currentTime /\ pinged' = TRUE /\ sincePing' = 0
      BY <1>3, <2>4 DEF SendDevicePing
    <3>2. Elapsed(currentTime, currentTime) = 0
      BY <2>2, ElapsedFacts
    <3>3. TypeOK'
      BY <1>1, <2>1, <2>2, <3>1 DEF TypeOK
    <3>4. PingStamp' /\ NoPingDue' /\ PingsGoOn'
      BY <2>1, <3>1, <3>2, ClockAssumption DEF PingStamp, NoPingDue, PingsGoOn
    <3>5. StampsBehind'
      BY <1>1, <2>1, <2>2, <3>1 DEF Stamps, StampsBehind, Reading
    <3>6. QED
      BY <2>1, <2>3, <3>3, <3>4, <3>5 DEF IInv, Stamps, InTime, PanicsOnlyAfterWrap
  <2>5. CASE ~ (Interval # 0 /\ Elapsed(lastPing, currentTime) >= Interval)
    <3>1. UNCHANGED <<lastPing, pinged, sincePing>>
      BY <1>3, <2>5 DEF SendDevicePing
    <3>2. TypeOK'
      BY <1>1, <2>1, <3>1 DEF TypeOK
    <3>3. PingStamp'
      BY <1>1, <2>1, <3>1 DEF Stamps, PingStamp
    <3>4. NoPingDue'
      BY <2>1, <2>2, <2>5, <3>1, ElapsedFacts, ClockAssumption DEF NoPingDue
    <3>5. StampsBehind' /\ PingsGoOn'
      BY <1>1, <2>1, <3>1 DEF Stamps, StampsBehind, InTime, PingsGoOn
    <3>6. QED
      BY <2>1, <2>3, <3>2, <3>3, <3>4, <3>5 DEF IInv, Stamps, InTime, PanicsOnlyAfterWrap
  <2>6. QED
    BY <2>4, <2>5
<1>4. QED
  BY <1>2, <1>3

LEMMA TimeoutsInv == IInv /\ ProcessTimeouts => IInv'
<1> SUFFICES ASSUME IInv, ProcessTimeouts PROVE IInv'
  OBVIOUS
<1>1. phase = "timeouts" /\ TypeOK /\ Stamps /\ InTime
  BY DEF IInv, ProcessTimeouts
<1>2. CASE request # NoRequest /\ Underflows(request.timestamp)
  BY <1>1, <1>2, PanicInv DEF ProcessTimeouts
<1>3. CASE ~ (request # NoRequest /\ Underflows(request.timestamp))
  <2>1. /\ phase' = "packets" /\ lag' = lag /\ lag = 0
        /\ UNCHANGED <<checked, currentTime, lastPing, wrapped, pinged, sincePing, told>>
        /\ told
    BY <1>1, <1>3 DEF ProcessTimeouts, Stamps, JustTold, TurnBounded, AtStart
  <2>2. currentTime \in Reading
    BY <1>1 DEF TypeOK
  <2>3. TurnBounded' /\ JustTold' /\ PingStamp' /\ NoPingDue' /\ PingsGoOn'
    BY <1>1, <2>1, ClockAssumption
    DEF Stamps, TurnBounded, JustTold, PingStamp, NoPingDue, InTime, PingsGoOn
  <2>4. CASE TimedOut
    <3>1. /\ request' = Expire /\ sinceSent' = 0 /\ stamped' = TRUE
          /\ sinceAsked' = IF Expire = NoRequest THEN 0 ELSE sinceAsked
      BY <1>3, <2>4 DEF ProcessTimeouts
    <3>2. request # NoRequest /\ request.retries \in 0..RetryCount
      BY <1>1, <2>4 DEF TimedOut, TypeOK
    <3>3. \/ request' = NoRequest
          \/ /\ request' = [timestamp |-> currentTime, retries |-> request.retries + 1]
             /\ request.retries + 1 \in 0..RetryCount
      BY <3>1, <3>2, ClockAssumption DEF Expire
    <3>4. request' \in [timestamp : Reading, retries : 0..RetryCount] \cup {NoRequest}
      BY <2>2, <3>3, Requests
    <3>5. request' # NoRequest => request'.timestamp = currentTime
      BY <3>3, Requests
    <3>6. TypeOK'
      BY <1>1, <2>1, <3>1, <3>4 DEF TypeOK
    <3>7. RequestStamp' /\ NothingDue' /\ RetriesNotLate'
      BY <2>1, <2>2, <3>1, <3>5, ElapsedFacts, ClockAssumption
      DEF RequestStamp, NothingDue, RetriesNotLate
    <3>8. StampsBehind'
      BY <1>1, <2>1, <2>2, <3>5 DEF Stamps, StampsBehind, Reading
    <3>9. QED
      BY <2>1, <2>3, <3>6, <3>7, <3>8 DEF IInv, Stamps, InTime, PanicsOnlyAfterWrap
  <2>5. CASE ~ TimedOut
    <3>1. UNCHANGED <<request, sinceSent, sinceAsked, stamped>>
      BY <1>3, <2>5 DEF ProcessTimeouts
    <3>2. TypeOK'
      BY <1>1, <2>1, <3>1 DEF TypeOK
    <3>3. RequestStamp' /\ StampsBehind' /\ RetriesNotLate'
      BY <1>1, <2>1, <3>1 DEF Stamps, RequestStamp, StampsBehind, InTime, RetriesNotLate
    <3>4. request # NoRequest => Elapsed(request.timestamp, currentTime) < Timeout
      <4>1. SUFFICES ASSUME request # NoRequest
                     PROVE  Elapsed(request.timestamp, currentTime) < Timeout
        OBVIOUS
      <4>2. request.timestamp \in Reading
        BY <1>1, <4>1 DEF TypeOK
      <4>3. QED
        BY <2>2, <2>5, <4>1, <4>2, ElapsedFacts, ClockAssumption DEF TimedOut
    <3>5. NothingDue'
      BY <2>1, <3>1, <3>4 DEF NothingDue
    <3>6. QED
      BY <2>1, <2>3, <3>2, <3>3, <3>5 DEF IInv, Stamps, InTime, PanicsOnlyAfterWrap
  <2>6. QED
    BY <2>4, <2>5
<1>4. QED
  BY <1>2, <1>3

(* Asking and being answered, with a stamp as old as the turn of the loop. *)
LEMMA PacketsInv == IInv /\ (Ask \/ Answered) => IInv'
<1> SUFFICES ASSUME IInv, Ask \/ Answered PROVE IInv'
  OBVIOUS
<1>1. /\ phase = "packets" /\ sinceSent' = 0 /\ sinceAsked' = 0
      /\ stamped' \in {stamped, told}
      /\ UNCHANGED <<checked, phase, currentTime, lastPing, lag, wrapped, pinged,
                     sincePing, told>>
  BY DEF Ask, Answered
<1>2. TypeOK /\ Stamps /\ InTime /\ currentTime \in Reading /\ lag \in Nat
  BY <1>1 DEF IInv, TypeOK
<1>3. \/ request' = NoRequest
      \/ request' = [timestamp |-> currentTime, retries |-> 0] /\ stamped' = told
  BY DEF Ask, Answered
<1>4. 0 \in 0..RetryCount
  BY ClockAssumption
<1>5. /\ request' \in [timestamp : Reading, retries : 0..RetryCount] \cup {NoRequest}
      /\ request' # NoRequest => request'.timestamp = currentTime /\ stamped' = told
  BY <1>2, <1>3, <1>4, Requests
<1>6. told => lag <= MaxTurn
  BY <1>2 DEF Stamps, TurnBounded
<1>7. TypeOK'
  BY <1>1, <1>2, <1>5 DEF TypeOK
<1>8. RequestStamp' /\ NothingDue' /\ RetriesNotLate'
  BY <1>1, <1>2, <1>5, <1>6, ElapsedFacts, ClockAssumption
  DEF RequestStamp, NothingDue, RetriesNotLate
<1>9. JustTold' /\ PingStamp' /\ NoPingDue' /\ PingsGoOn'
  BY <1>1, <1>2 DEF Stamps, JustTold, PingStamp, NoPingDue, InTime, PingsGoOn
<1>12. TurnBounded'
  <2>1. sincePing \in Nat
    BY <1>2 DEF TypeOK
  <2>2. QED
    BY <1>1, <1>2, <1>5, <2>1 DEF Stamps, TurnBounded, AtStart
<1>10. StampsBehind'
  BY <1>1, <1>2, <1>5 DEF Stamps, StampsBehind, Reading
<1>11. QED
  BY <1>1, <1>7, <1>8, <1>9, <1>10, <1>12 DEF IInv, Stamps, InTime, PanicsOnlyAfterWrap

LEMMA TimePassesInv == IInv /\ TimePasses => IInv'
<1> SUFFICES ASSUME IInv, TimePasses PROVE IInv'
  OBVIOUS
<1>1. /\ phase = "packets" /\ IF told THEN lag < MaxTurn ELSE sincePing < MaxTurn
      /\ lag' = lag + 1 /\ sincePing' = sincePing + 1
      /\ sinceSent' = IF request = NoRequest THEN 0 ELSE sinceSent + 1
      /\ sinceAsked' = IF request = NoRequest THEN 0 ELSE sinceAsked + 1
      /\ UNCHANGED <<checked, phase, currentTime, lastPing, request, wrapped, pinged,
                     told, stamped>>
  BY DEF TimePasses
<1>2. /\ TypeOK /\ Stamps /\ InTime
      /\ currentTime \in Reading /\ lastPing \in Reading /\ lag \in Nat
      /\ sincePing \in Nat /\ sinceSent \in Nat /\ sinceAsked \in Nat
  BY <1>1 DEF IInv, TypeOK
<1>3. TypeOK'
  BY <1>1, <1>2 DEF TypeOK
<1>4. JustTold' /\ NoPingDue' /\ NothingDue' /\ StampsBehind'
  BY <1>1, <1>2, ClockAssumption
  DEF Stamps, JustTold, NoPingDue, NothingDue, StampsBehind
<1>9. TurnBounded'
  <2>1. CASE told
    BY <1>1, <1>2, <2>1, ClockAssumption DEF TurnBounded
  <2>2. CASE ~ told
    BY <1>1, <1>2, <2>2, ClockAssumption DEF Stamps, TurnBounded, AtStart, Reading
  <2>3. QED
    BY <2>1, <2>2
<1>5. Elapsed(lastPing, currentTime) \in Nat /\ currentTime \in Nat
  BY <1>2, ElapsedFacts, ClockAssumption DEF Reading
<1>6. PingStamp' /\ PingsGoOn'
  BY <1>1, <1>2, <1>5, ElapsedFacts, ClockAssumption
  DEF Stamps, PingStamp, NoPingDue, PingsGoOn
<1>7. RequestStamp' /\ RetriesNotLate'
  <2>1. CASE request = NoRequest
    BY <1>1, <2>1, ClockAssumption DEF RequestStamp, RetriesNotLate
  <2>2. CASE request # NoRequest
    <3>1. request.timestamp \in Reading
      BY <1>2, <2>2 DEF TypeOK
    <3>2. Elapsed(request.timestamp, currentTime) \in Nat
      BY <1>2, <3>1, ElapsedFacts, ClockAssumption
    <3>3. RequestStamp'
      BY <1>1, <1>2, <2>2, <3>2, ClockAssumption DEF Stamps, RequestStamp
    <3>4. RetriesNotLate'
      <4>1. CASE told
        BY <1>1, <1>2, <2>2, <3>2, <4>1, ClockAssumption
        DEF Stamps, RequestStamp, NothingDue, RetriesNotLate
      <4>2. CASE ~ told
        BY <1>1, <1>2, <2>2, <4>2, ClockAssumption
        DEF Stamps, TurnBounded, AtStart, RetriesNotLate
      <4>3. QED
        BY <4>1, <4>2
    <3>5. QED
      BY <3>3, <3>4
  <2>3. QED
    BY <2>1, <2>2
<1>8. QED
  BY <1>1, <1>3, <1>4, <1>6, <1>7, <1>9 DEF IInv, Stamps, InTime, PanicsOnlyAfterWrap

LEMMA NextInv == IInv /\ [Next]_vars => IInv'
<1> SUFFICES ASSUME IInv, [Next]_vars PROVE IInv'
  OBVIOUS
<1>1. CASE NextTurn
  <2>1. /\ phase = "packets" /\ phase' = "time"
        /\ UNCHANGED <<checked, currentTime, lastPing, request, lag, wrapped, pinged,
                       sincePing, sinceSent, sinceAsked, told, stamped>>
    BY <1>1 DEF NextTurn
  <2>2. TypeOK /\ Stamps /\ InTime
    BY <2>1 DEF IInv
  <2>3. TypeOK' /\ InTime'
    BY <2>1, <2>2 DEF TypeOK, InTime, PingsGoOn, RetriesNotLate
  <2>4. TurnBounded' /\ JustTold' /\ PingStamp' /\ NoPingDue'
    BY <2>1, <2>2 DEF Stamps, TurnBounded, AtStart, JustTold, PingStamp, NoPingDue
  <2>5. RequestStamp' /\ NothingDue' /\ StampsBehind'
    BY <2>1, <2>2 DEF Stamps, RequestStamp, NothingDue, StampsBehind
  <2>6. QED
    BY <2>1, <2>3, <2>4, <2>5 DEF IInv, Stamps, PanicsOnlyAfterWrap
<1>2. CASE UNCHANGED vars
  <2>1. TypeOK' /\ PanicsOnlyAfterWrap' /\ (phase' = "panicked" <=> phase = "panicked")
    BY <1>2 DEF vars, IInv, TypeOK, PanicsOnlyAfterWrap
  <2>2. phase # "panicked" => InTime'
    BY <1>2 DEF vars, IInv, InTime, PingsGoOn, RetriesNotLate
  <2>3. phase # "panicked" => TurnBounded' /\ JustTold' /\ PingStamp' /\ NoPingDue'
    BY <1>2 DEF vars, IInv, Stamps, TurnBounded, AtStart, JustTold, PingStamp, NoPingDue
  <2>4. phase # "panicked" => RequestStamp' /\ NothingDue' /\ StampsBehind'
    BY <1>2 DEF vars, IInv, Stamps, RequestStamp, NothingDue, StampsBehind
  <2>5. QED
    BY <2>1, <2>2, <2>3, <2>4 DEF IInv, Stamps
<1>3. QED
  BY <1>1, <1>2, UpdateTimeInv, PingInv, TimeoutsInv, PacketsInv, TimePassesInv DEF Next

LEMMA InvInductive == Spec => []IInv
BY InitInv, NextInv, PTL DEF Spec

(* Every stamp is a reading of the clock, whatever its width. *)
THEOREM TypeCorrect == Spec => []TypeOK
<1>1. IInv => TypeOK
  BY DEF IInv
<1>2. QED
  BY InvInductive, <1>1, PTL

(* Without a wrap-around no subtraction of the manager underflows. *)
THEOREM NoPanicBeforeWrap == Spec => []PanicsOnlyAfterWrap
<1>1. IInv => PanicsOnlyAfterWrap
  BY DEF IInv
<1>2. QED
  BY InvInductive, <1>1, PTL

(* Pings keep coming: the interval and one turn of the loop at most. *)
THEOREM PingsComeInTime == Spec => []PingsGoOn
<1>1. IInv => PingsGoOn
  BY DEF IInv, InTime, PingsGoOn
<1>2. QED
  BY InvInductive, <1>1, PTL

(* Pings keep their distance, wrap-around or not. *)
THEOREM PingsKeepDistance == Spec => PingsSpaced
<1>1. IInv /\ [Next]_vars => [Spaced]_vars
  <2>1. SUFFICES ASSUME IInv, Next, lastPing' # lastPing, pinged
                 PROVE  sincePing >= Interval
    BY DEF Spaced, vars
  <2>2. SendDevicePing
    BY <2>1 DEF Next, UpdateTime, ProcessTimeouts, Panic, Ask, Answered, TimePasses,
                NextTurn
  <2>3. phase = "ping" /\ Interval # 0 /\ Elapsed(lastPing, currentTime) >= Interval
    BY <2>1, <2>2 DEF SendDevicePing, Panic
  <2>4. lag = 0 /\ sincePing = Elapsed(lastPing, currentTime) + lag
    BY <2>1, <2>3 DEF IInv, Stamps, JustTold, PingStamp
  <2>5. Elapsed(lastPing, currentTime) \in Nat
    BY <2>1, ElapsedFacts, ClockAssumption DEF IInv, TypeOK
  <2>6. QED
    BY <2>3, <2>4, <2>5
<1>2. QED
  BY InvInductive, <1>1, PTL DEF Spec, PingsSpaced

(* A retry is not early by more than a turn of the loop. *)
THEOREM NoEarlyRetry == Spec => RetriesNotEarly
<1>1. IInv /\ [Next]_vars => [NotEarly]_vars
  <2>1. SUFFICES ASSUME IInv, Next, SentAgain, stamped
                 PROVE  sinceSent + MaxTurn >= Timeout
    BY DEF NotEarly, vars
  <2>2. request # NoRequest /\ request' # NoRequest /\ request' # request
    <3>1. request # NoRequest /\ request' # NoRequest
          /\ request'.retries = request.retries + 1
      BY <2>1 DEF SentAgain
    <3>2. request.retries \in Nat
      BY <2>1, <3>1, ClockAssumption DEF IInv, TypeOK
    <3>3. QED
      BY <3>1, <3>2
  <2>3. ProcessTimeouts
    BY <2>1, <2>2 DEF Next, UpdateTime, SendDevicePing, Panic, Ask, Answered,
                      TimePasses, NextTurn
  <2>4. phase = "timeouts" /\ TimedOut
    BY <2>2, <2>3 DEF ProcessTimeouts, Panic
  <2>5. lag = 0 /\ Elapsed(request.timestamp, currentTime) + lag <= sinceSent + MaxTurn
    BY <2>1, <2>2, <2>4 DEF IInv, Stamps, JustTold, RequestStamp
  <2>6. Elapsed(request.timestamp, currentTime) \in Nat /\ sinceSent \in Nat
    <3>1. request.timestamp \in Reading /\ currentTime \in Reading /\ sinceSent \in Nat
      BY <2>1, <2>2 DEF IInv, TypeOK
    <3>2. QED
      BY <3>1, ElapsedFacts, ClockAssumption
  <2>7. QED
    BY <2>4, <2>5, <2>6, ClockAssumption DEF TimedOut
<1>2. QED
  BY InvInductive, <1>1, PTL DEF Spec, RetriesNotEarly

(* Nor is it late by more than a turn of the loop. *)
THEOREM NoLateRetry == Spec => []RetriesNotLate
<1>1. IInv => RetriesNotLate
  BY DEF IInv, InTime, RetriesNotLate
<1>2. QED
  BY InvInductive, <1>1, PTL

(* Every attempt takes at most AttemptTime, and a read with r retries has  *)
(* made r attempts before the present one.                                 *)
AttemptTime == Timeout + MaxTurn - 1

AttemptsInTime ==
  phase # "panicked" =>
    IF request = NoRequest THEN sinceAsked = 0
    ELSE sinceAsked <= request.retries * AttemptTime + sinceSent

LEMMA Attempts ==
  /\ AttemptTime \in Nat
  /\ \A r \in Nat : r * AttemptTime \in Nat
  /\ \A r \in Nat : (r + 1) * AttemptTime = r * AttemptTime + AttemptTime
  /\ \A r \in 0..RetryCount : r * AttemptTime <= RetryCount * AttemptTime
  /\ (RetryCount + 1) * (AttemptTime + 1) =
       RetryCount * AttemptTime + AttemptTime + RetryCount + 1
<1>1. AttemptTime \in Nat /\ RetryCount \in Nat
  BY ClockAssumption DEF AttemptTime
<1>2. ASSUME NEW k \in Nat, NEW r \in Nat, NEW n \in Nat
      PROVE  r * k \in Nat /\ (r + 1) * k = r * k + k /\ (r <= n => r * k <= n * k)
  <2>1. ASSUME r <= n PROVE r * k <= n * k
    <3>1. PICK d \in Nat : n = r + d
      BY <2>1
    <3>2. d * k \in Nat /\ n * k = r * k + d * k
      BY <3>1
    <3>3. QED
      BY <3>2
  <2>2. QED
    BY <2>1
<1>3. QED
  BY <1>1, <1>2

LEMMA AttemptsInv == IInv /\ AttemptsInTime /\ [Next]_vars => AttemptsInTime'
<1> SUFFICES ASSUME IInv, AttemptsInTime, [Next]_vars, phase # "panicked",
                    phase' # "panicked"
             PROVE  AttemptsInTime'
  <2>1. CASE phase = "panicked"
    BY <2>1 DEF Next, vars, UpdateTime, SendDevicePing, ProcessTimeouts, Ask,
                Answered, TimePasses, NextTurn, AttemptsInTime
  <2>2. CASE phase' = "panicked"
    BY <2>2 DEF AttemptsInTime
  <2>3. QED
    BY <2>1, <2>2
<1>1. /\ request \in [timestamp : Reading, retries : 0..RetryCount] \cup {NoRequest}
      /\ sinceSent \in Nat /\ sinceAsked \in Nat /\ sinceSent <= AttemptTime
  BY ClockAssumption DEF IInv, TypeOK, InTime, RetriesNotLate, AttemptTime
<1>2. CASE UpdateTime \/ SendDevicePing \/ NextTurn \/ UNCHANGED vars
  <2>1. UNCHANGED <<request, sinceSent, sinceAsked>>
    BY <1>2 DEF UpdateTime, SendDevicePing, Panic, NextTurn, vars
  <2>2. QED
    BY <2>1 DEF AttemptsInTime
<1>3. CASE ProcessTimeouts
  <2>1. CASE ~ TimedOut
    BY <1>3, <2>1 DEF ProcessTimeouts, Panic, AttemptsInTime
  <2>2. CASE TimedOut
    <3>1. /\ request' = Expire /\ sinceSent' = 0
          /\ sinceAsked' = IF Expire = NoRequest THEN 0 ELSE sinceAsked
      BY <1>3, <2>2 DEF ProcessTimeouts, Panic
    <3>2. request # NoRequest /\ request.retries \in Nat
      BY <1>1, <2>2, ClockAssumption DEF TimedOut
    <3>3. CASE Expire = NoRequest
      BY <3>1, <3>3 DEF AttemptsInTime
    <3>4. CASE Expire # NoRequest
      <4>1. request'.retries = request.retries + 1 /\ request' # NoRequest
        BY <3>1, <3>4, Requests DEF Expire
      <4>2. sinceAsked <= request.retries * AttemptTime + sinceSent
        BY <3>2 DEF AttemptsInTime
      <4>3. request'.retries * AttemptTime = request.retries * AttemptTime + AttemptTime
        BY <3>2, <4>1, Attempts
      <4>4. request.retries * AttemptTime \in Nat /\ AttemptTime \in Nat
        BY <3>2, Attempts
      <4>5. sinceAsked' <= request'.retries * AttemptTime + sinceSent'
        BY <1>1, <3>1, <3>4, <4>2, <4>3, <4>4
      <4>6. QED
        BY <4>1, <4>5 DEF AttemptsInTime
    <3>5. QED
      BY <3>3, <3>4
  <2>3. QED
    BY <2>1, <2>2
<1>4. CASE Ask
  <2>1. /\ request' = [timestamp |-> currentTime, retries |-> 0]
        /\ sinceSent' = 0 /\ sinceAsked' = 0
    BY <1>4 DEF Ask
  <2>2. request'.retries = 0 /\ 0 * AttemptTime = 0
    BY <2>1, Attempts
  <2>3. QED
    BY <2>1, <2>2 DEF AttemptsInTime
<1>5. CASE Answered
  BY <1>5 DEF Answered, AttemptsInTime
<1>6. CASE TimePasses
  <2>1. CASE request = NoRequest
    BY <1>6, <2>1 DEF TimePasses, AttemptsInTime
  <2>2. CASE request # NoRequest
    <3>1. request.retries \in Nat /\ request.retries * AttemptTime \in Nat
      BY <1>1, <2>2, ClockAssumption, Attempts
    <3>2. sinceAsked <= request.retries * AttemptTime + sinceSent
      BY <2>2 DEF AttemptsInTime
    <3>3. sinceAsked + 1 <= request.retries * AttemptTime + (sinceSent + 1)
      BY <1>1, <3>1, <3>2
    <3>4. QED
      BY <1>6, <2>2, <3>3 DEF TimePasses, AttemptsInTime
  <2>3. QED
    BY <2>1, <2>2
<1>7. QED
  BY <1>2, <1>3, <1>4, <1>5, <1>6 DEF Next

(* A read that is never answered is gone after its retries, and within the *)
(* time these can take.                                                    *)
THEOREM ReadsGivenUp == Spec => []GivenUpInTime
<1>1. Init => AttemptsInTime
  BY DEF Init, AttemptsInTime
<1>2. IInv /\ AttemptsInTime => GivenUpInTime
  <2>1. SUFFICES ASSUME IInv, AttemptsInTime, phase # "panicked"
                 PROVE  sinceAsked < (RetryCount + 1) * (Timeout + MaxTurn)
    BY DEF GivenUpInTime
  <2>2. /\ request \in [timestamp : Reading, retries : 0..RetryCount] \cup {NoRequest}
        /\ sinceSent \in Nat /\ sinceAsked \in Nat /\ sinceSent <= AttemptTime
    BY <2>1, ClockAssumption DEF IInv, TypeOK, InTime, RetriesNotLate, AttemptTime
  <2>3. /\ AttemptTime \in Nat /\ RetryCount \in Nat
        /\ RetryCount * AttemptTime \in Nat
        /\ Timeout + MaxTurn = AttemptTime + 1
    BY ClockAssumption, Attempts DEF AttemptTime
  <2>4. sinceAsked <= RetryCount * AttemptTime + AttemptTime
    <3>1. CASE request = NoRequest
      BY <2>1, <2>3, <3>1 DEF AttemptsInTime
    <3>2. CASE request # NoRequest
      <4>1. request.retries \in 0..RetryCount /\ request.retries \in Nat
        BY <2>2, <3>2, ClockAssumption
      <4>2. request.retries * AttemptTime \in Nat
            /\ request.retries * AttemptTime <= RetryCount * AttemptTime
        BY <4>1, Attempts
      <4>3. sinceAsked <= request.retries * AttemptTime + sinceSent
        BY <2>1, <3>2 DEF AttemptsInTime
      <4>4. QED
        BY <2>2, <2>3, <4>2, <4>3
    <3>3. QED
      BY <3>1, <3>2
  <2>5. (RetryCount + 1) * (Timeout + MaxTurn) =
          RetryCount * AttemptTime + AttemptTime + RetryCount + 1
    BY <2>3, Attempts
  <2>6. QED
    BY <2>2, <2>3, <2>4, <2>5
<1>3. QED
  BY InvInductive, AttemptsInv, <1>1, <1>2, PTL DEF Spec
=============================================================================
