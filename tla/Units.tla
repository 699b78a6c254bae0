------------------------------- MODULE Units --------------------------------
(***************************************************************************)
(* The conversions between the units of the wire and those of the caller:  *)
(* baro_altitude.rs (decimetres to the packed altitude), gps.rs (metres),  *)
(* rc_channels_packed.rs (microseconds and ticks) and param_tui.rs (the    *)
(* value of a Float parameter).  The vertical speed of baro_altitude.rs is *)
(* a float logarithm and left out.                                         *)
(***************************************************************************)
EXTENDS Integers, SequencesExt

Within(x, low, high) == low <= x /\ x <= high

(* i32 division truncates towards zero. *)
Quotient(a, b) == IF a >= 0 THEN a \div b ELSE -((-a) \div b)

AltMin       == 10000
AltThreshold == 32768 - AltMin
AltMax       == 32766 * 10 - 5

(* Seeded fault: metres are cut off instead of rounded. *)
AltitudePackedCut(dm) ==
  IF dm < -AltMin THEN 0 ELSE
  IF dm > AltMax THEN 65534 ELSE
  IF dm < AltThreshold THEN dm + AltMin ELSE Quotient(dm, 10) + 32768

(* get_altitude_packed() *)
AltitudePacked(dm) ==
  IF dm < -AltMin THEN 0 ELSE
  IF dm > AltMax THEN 65534 ELSE
  IF dm < AltThreshold THEN dm + AltMin ELSE Quotient(dm + 5, 10) + 32768

(* get_altitude_dm() *)
AltitudeDm(packed) ==
  IF packed >= 32768 THEN (packed - 32768) * 10 ELSE packed - 10000

(* meters_to_raw() adds in i32, and the addition does not hold the last    *)
(* thousand metres: a panic where overflow is checked, and elsewhere a sum *)
(* below 0, which is refused.                                              *)
MaxI32    == 2147483647
Err       == -1   \* Err(InvalidPayload)
Overflow  == -2   \* Err or a panic, by the build

MetersToRaw(m) ==
  IF m > MaxI32 - 1000 THEN Overflow
  ELSE IF Within(m + 1000, 0, 65535) THEN m + 1000 ELSE Err

(* altitude_meters() *)
AltitudeMeters(raw) == raw - 1000

TicksToUs(ticks) == (Quotient((ticks - 992) * 5, 8) + 1500) % 65536

UsToTicks(us) == (Quotient((us - 1500) * 8, 5) + 992) % 65536

(* An i32 is given by its four bytes, the most significant first.  The     *)
(* user interface writes a Float with to_le_bytes();                       *)
WriteFloat(value) == Reverse(value)

(* and the mock device takes it with from_be_bytes(), as the library reads *)
(* the value of a Float entry.                                             *)
TakeFloat(bytes) == bytes

-----------------------------------------------------------------------------
(* What is left of a quantity, `back`, when `given` was stored.            *)
Near(a, b, d) == Within(a - b, -d, d)

(* An altitude reads back the same, in metres above 2276.8 m rounded to    *)
(* the nearest, and saturates out of range.                                *)
BaroKept(given, back) ==
  IF given < -10000 THEN back = -10000 ELSE
  IF given > 327655 THEN back = 327660 ELSE
  IF given < 22768 THEN back = given ELSE Near(back, given, 5)

(* A GPS altitude reads back the same, or is refused; but that the sum may *)
(* overflow, and the refusal be a panic, 1000 m below the end of an i32.   *)
GpsKept(given, stored, back) ==
  IF Within(given, -1000, 64535) THEN back = given
  ELSE stored = IF given > MaxI32 - 1000 THEN Overflow ELSE Err

(* The ticks of a channel fit its 11 bits for 880 to 2159 us; outside, the *)
(* conversion to u16 wraps, back into range at 41840 us.                   *)
UsKept(given, stored, back) ==
  /\ stored <= 2047 <=> Within(given, 880, 2159) \/ Within(given, 41840, 43119)
  /\ Within(given, 880, 2159) => Near(back, given, 1)

TicksKept(given, back) == given <= 2047 => Near(back, given, 2)
=============================================================================
