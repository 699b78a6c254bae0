------------------------------- MODULE Clock -------------------------------
(***************************************************************************)
(* The time of the device manager, src/src/device.rs: a millisecond        *)
(* counter of fixed width that the application hands in (update_time), the *)
(* rate limit of the discovery ping and the timeout of one pending read,   *)
(* both a plain subtraction of readings.  A build that checks arithmetic   *)
(* panics when a subtraction underflows; another wraps.                    *)
(*                                                                         *)
(* The host is the loop of the module's documentation: handle packets,     *)
(* tell the time, ping, retry.  It may begin with the packets, as there,   *)
(* or with the time, as the examples do.  What is received and asked for   *)
(* is stamped with the last reading, up to one turn of the loop old, or    *)
(* with 0 as long as no time was told.  DeviceManager counts the age of a  *)
(* read instead; here is why it may.                                       *)
(***************************************************************************)
EXTENDS Naturals

CONSTANTS
  Wrap,        \* number of readings of the clock (2^32)
  Interval,    \* device_ping_interval_ms
  Timeout,     \* timeout_ms
  RetryCount,  \* retry_count
  MaxTurn      \* longest turn of the loop, in ms

ASSUME ClockAssumption ==
  /\ Wrap \in Nat /\ Interval \in Nat /\ RetryCount \in Nat
  /\ Timeout \in Nat \ {0} /\ MaxTurn \in Nat \ {0}
  /\ Timeout + MaxTurn <= Wrap
  /\ Interval + MaxTurn <= Wrap

VARIABLES
  checked,      \* whether the build checks arithmetic
  phase,        \* where the loop is
  currentTime,  \* current_time
  lastPing,     \* last_ping_time
  request,      \* the pending read: its timestamp and its retries
  lag,          \* what the time source is ahead of current_time
  wrapped,      \* whether the time source has wrapped around
  pinged,       \* whether a ping was ever sent
  sincePing,    \* ms since the last ping, or since the start
  sinceSent,    \* ms since the read was last sent
  sinceAsked,   \* ms since the read was first sent
  told,         \* whether update_time was ever called
  stamped       \* history: whether the read's stamp is a time that was told

vars == <<checked, phase, currentTime, lastPing, request, lag, wrapped,
          pinged, sincePing, sinceSent, sinceAsked, told, stamped>>

Reading == 0..(Wrap - 1)

NoRequest == [timestamp |-> 0, retries |-> RetryCount + 1]

(* Seeded fault: the difference is taken either way round. *)
ElapsedEitherWay(from, to) == IF from <= to THEN to - from ELSE from - to

(* Seeded fault: saturating_sub in the place of a subtraction that wraps. *)
ElapsedSaturating(from, to) == IF from <= to THEN to - from ELSE 0

(* to - from, in the arithmetic of u32. *)
Elapsed(from, to) == IF from <= to THEN to - from ELSE to + Wrap - from

(* The subtraction panics. *)
Underflows(from) == checked /\ currentTime < from

Panic ==
  /\ phase' = "panicked"
  /\ UNCHANGED <<checked, currentTime, lastPing, request, lag, wrapped,
                 pinged, sincePing, sinceSent, sinceAsked, told, stamped>>

-----------------------------------------------------------------------------
(* Seeded fault: the time is not cut down to the width of the clock. *)
UpdateTimeWide ==
  /\ phase = "time"
  /\ phase' = "ping"
  /\ currentTime' = currentTime + lag
  /\ lag' = 0 /\ told' = TRUE
  /\ UNCHANGED <<checked, lastPing, request, wrapped, pinged, sincePing,
                 sinceSent, sinceAsked, stamped>>

(* update_time: the reading is that of the time source, modulo its width. *)
UpdateTime ==
  /\ phase = "time"
  /\ phase' = "ping"
  /\ currentTime' = IF currentTime + lag < Wrap THEN currentTime + lag
                                                ELSE currentTime + lag - Wrap
  /\ wrapped' = (wrapped \/ currentTime + lag >= Wrap)
  /\ lag' = 0 /\ told' = TRUE
  /\ UNCHANGED <<checked, lastPing, request, pinged, sincePing, sinceSent,
                 sinceAsked, stamped>>

(* Seeded fault: the time of the next ping is kept, not that of the last. *)
SendDevicePingKeepingDeadline ==
  /\ phase = "ping"
  /\ IF Interval # 0 /\ Underflows(lastPing) THEN Panic
     ELSE /\ phase' = "timeouts"
          /\ IF Interval # 0 /\ Elapsed(lastPing, currentTime) >= Interval
               THEN /\ lastPing' = (currentTime + Interval) % Wrap
                    /\ pinged' = TRUE
                    /\ sincePing' = 0
               ELSE UNCHANGED <<lastPing, pinged, sincePing>>
          /\ UNCHANGED <<checked, currentTime, request, lag, wrapped,
                         sinceSent, sinceAsked, told, stamped>>

(* send_device_ping: nothing with an interval of 0, which is looked at     *)
(* before the subtraction.                                                 *)
SendDevicePing ==
  /\ phase = "ping"
  /\ IF Interval # 0 /\ Underflows(lastPing) THEN Panic
     ELSE /\ phase' = "timeouts"
          /\ IF Interval # 0 /\ Elapsed(lastPing, currentTime) >= Interval
               THEN /\ lastPing' = currentTime
                    /\ pinged' = TRUE
                    /\ sincePing' = 0
               ELSE UNCHANGED <<lastPing, pinged, sincePing>>
          /\ UNCHANGED <<checked, currentTime, request, lag, wrapped,
                         sinceSent, sinceAsked, told, stamped>>

TimedOut ==
  request # NoRequest /\ Elapsed(request.timestamp, currentTime) >= Timeout

(* Seeded fault: a retry is not counted. *)
ExpireUncounted == [request EXCEPT !.timestamp = currentTime]

(* What becomes of a read that has timed out. *)
Expire == IF request.retries >= RetryCount
            THEN NoRequest
            ELSE [timestamp |-> currentTime, retries |-> request.retries + 1]

(* process_timeouts; the read is sent again, or given up. *)
ProcessTimeouts ==
  /\ phase = "timeouts"
  /\ IF request # NoRequest /\ Underflows(request.timestamp) THEN Panic
     ELSE /\ phase' = "packets"
          /\ IF TimedOut
               THEN /\ request' = Expire
                    /\ sinceSent' = 0 /\ stamped' = TRUE
                    /\ sinceAsked' = IF Expire = NoRequest THEN 0 ELSE sinceAsked
               ELSE UNCHANGED <<request, sinceSent, sinceAsked, stamped>>
          /\ UNCHANGED <<checked, currentTime, lastPing, lag, wrapped,
                         pinged, sincePing, told>>

(* request_parameter and every handler that queues a read. *)
Ask ==
  /\ phase = "packets"
  /\ request = NoRequest
  /\ request' = [timestamp |-> currentTime, retries |-> 0]
  /\ sinceSent' = 0 /\ stamped' = told
  /\ sinceAsked' = 0
  /\ UNCHANGED <<checked, phase, currentTime, lastPing, lag, wrapped, pinged,
                 sincePing, told>>

(* The answer arrives. *)
Answered ==
  /\ phase = "packets"
  /\ request # NoRequest
  /\ request' = NoRequest
  /\ sinceSent' = 0
  /\ sinceAsked' = 0
  /\ UNCHANGED <<checked, phase, currentTime, lastPing, lag, wrapped, pinged,
                 sincePing, told, stamped>>

(* A millisecond passes, at most MaxTurn of them in one turn of the loop. *)
TimePasses ==
  /\ phase = "packets"
  /\ IF told THEN lag < MaxTurn ELSE sincePing < MaxTurn
  /\ lag' = lag + 1
  /\ sincePing' = sincePing + 1
  /\ sinceSent' = IF request = NoRequest THEN 0 ELSE sinceSent + 1
  /\ sinceAsked' = IF request = NoRequest THEN 0 ELSE sinceAsked + 1
  /\ UNCHANGED <<checked, phase, currentTime, lastPing, request, wrapped,
                 pinged, told, stamped>>

NextTurn ==
  /\ phase = "packets"
  /\ phase' = "time"
  /\ UNCHANGED <<checked, currentTime, lastPing, request, lag, wrapped,
                 pinged, sincePing, sinceSent, sinceAsked, told, stamped>>

(* The time source reads anything at the start, except that it does not    *)
(* wrap around in a first turn that begins with packets.                   *)
Init ==
  /\ checked \in BOOLEAN
  /\ phase \in {"time", "packets"}
  /\ currentTime = 0
  /\ lastPing = 0
  /\ request = NoRequest
  /\ lag \in Reading /\ (phase = "packets" => lag + MaxTurn < Wrap)
  /\ wrapped = FALSE
  /\ pinged = FALSE
  /\ sincePing = 0
  /\ sinceSent = 0
  /\ sinceAsked = 0
  /\ told = FALSE /\ stamped = FALSE

Next ==
  \/ UpdateTime \/ SendDevicePing \/ ProcessTimeouts
  \/ Ask \/ Answered \/ TimePasses \/ NextTurn

Spec == Init /\ [][Next]_vars

-----------------------------------------------------------------------------
(* Every reading and stamp is one of the clock's, every count is bounded. *)
TypeOK ==
  /\ {checked, wrapped, pinged, told, stamped} \subseteq BOOLEAN
  /\ phase \in {"time", "ping", "timeouts", "packets", "panicked"}
  /\ currentTime \in Reading
  /\ lastPing \in Reading
  /\ request \in [timestamp : Reading, retries : 0..RetryCount] \cup {NoRequest}
  /\ lag \in Nat
  /\ sincePing \in Nat /\ sinceSent \in Nat /\ sinceAsked \in Nat

(* Between two pings there is always the configured interval, even when    *)
(* the clock wraps around in between ("The function handles rate limiting  *)
(* internally").                                                           *)
Spaced == lastPing' # lastPing => ~ pinged \/ sincePing >= Interval
PingsSpaced == [][Spaced]_vars

(* A read is sent again no sooner than its timeout after it was last sent, *)
(* less the turn of the loop by which its stamp may be old: a clock that   *)
(* wraps does not hasten it.  Excepted is a read made before update_time   *)
(* was first called: it is stamped 0, and as old as the time source, so    *)
(* the first call may have it sent again at once.                          *)
SentAgain ==
  /\ request # NoRequest
  /\ request' # NoRequest
  /\ request'.retries = request.retries + 1
NotEarly == SentAgain /\ stamped => sinceSent + MaxTurn >= Timeout
RetriesNotEarly == [][NotEarly]_vars

(* A pending read is never left longer than its timeout and one turn of    *)
(* the loop: a clock that wraps does not delay it.                         *)
RetriesNotLate == phase # "panicked" => sinceSent < Timeout + MaxTurn

(* A device that never answers is given up: after retry_count retries the  *)
(* read is gone, within the time those and the first attempt can take.     *)
GivenUpInTime ==
  phase # "panicked" => sinceAsked < (RetryCount + 1) * (Timeout + MaxTurn)

(* A ping is sent as soon as the interval is over and the loop comes round.*)
PingsGoOn ==
  Interval # 0 /\ phase # "panicked" => sincePing < Interval + MaxTurn

(* Only a clock that has wrapped around makes a checked build panic.       *)
PanicsOnlyAfterWrap == phase = "panicked" => wrapped
=============================================================================
