----------------------------- MODULE UnitsProofs -----------------------------
(***************************************************************************)
(* The conversions of Units for every value their types can hold: the runs *)
(* try them at their boundaries only.                                      *)
(***************************************************************************)
EXTENDS Units, TLAPS

(* Division truncates towards zero. *)
Truncates(a, b, q) ==
  /\ q \in Int
  /\ IF a >= 0 THEN b * q <= a /\ a < b * q + b ELSE b * q >= a /\ a > b * q - b

LEMMA Truncated ==
  ASSUME NEW a \in Int
  PROVE  /\ Truncates(a, 5, Quotient(a, 5))
         /\ Truncates(a, 8, Quotient(a, 8))
         /\ Truncates(a, 10, Quotient(a, 10))
<1>1. CASE a >= 0
  BY <1>1 DEF Truncates, Quotient
<1>2. CASE ~ (a >= 0)
  <2>1. -a \in Nat
    BY <1>2
  <2>2. ASSUME NEW b \in {5, 8, 10}
        PROVE  LET q == (-a) \div b IN q \in Nat /\ b * q <= -a /\ -a < b * q + b
    BY <2>1
  <2>3. QED
    BY <1>2, <2>2 DEF Truncates, Quotient
<1>3. QED
  BY <1>1, <1>2

(* The altitude a caller sets with get_altitude_packed() is what           *)
(* get_altitude_dm() reads, for every i32: it is a u16 on the wire, exact  *)
(* or rounded, and saturates at both ends.                                 *)
THEOREM BaroAltitudeKept ==
  ASSUME NEW dm \in Int
  PROVE  /\ Within(AltitudePacked(dm), 0, 65535)
         /\ BaroKept(dm, AltitudeDm(AltitudePacked(dm)))
<1> DEFINE packed == AltitudePacked(dm)
           back   == AltitudeDm(packed)
<1>1. /\ packed \in Int /\ Within(packed, 0, 65535)
      /\ dm < -10000 => packed = 0
      /\ dm > 327655 => packed = 65534
      /\ dm >= -10000 /\ dm < 22768 => packed = dm + 10000
      /\ dm >= 22768 /\ dm <= 327655 =>
           /\ packed >= 32768
           /\ 10 * (packed - 32768) <= dm + 5 /\ dm + 5 < 10 * (packed - 32768) + 10
  <2>1. Truncates(dm + 5, 10, Quotient(dm + 5, 10))
    BY Truncated
  <2>2. QED
    BY <2>1 DEF AltitudePacked, AltMin, AltMax, AltThreshold, Truncates, Within
<1>2. back = IF packed >= 32768 THEN (packed - 32768) * 10 ELSE packed - 10000
  BY DEF AltitudeDm
<1> HIDE DEF packed, back
<1>3. BaroKept(dm, back)
  BY <1>1, <1>2 DEF BaroKept, Near, Within
<1>4. QED
  BY <1>1, <1>3 DEF packed, back

(* No altitude that is higher than another is packed lower. *)
THEOREM BaroAltitudeOrdered ==
  ASSUME NEW dm \in Int, NEW higher \in Int, dm <= higher
  PROVE  AltitudePacked(dm) <= AltitudePacked(higher)
BY DEF AltitudePacked, Quotient, AltMin, AltMax, AltThreshold

(* meters_to_raw() refuses what a u16 does not hold, by a panic at worst,  *)
(* for every i32, and altitude_meters() reads back all else; what it makes *)
(* is the u16 that is sent.                                                *)
THEOREM GpsAltitudeKept ==
  ASSUME NEW m \in Int, m <= MaxI32
  PROVE  /\ GpsKept(m, MetersToRaw(m), AltitudeMeters(MetersToRaw(m)))
         /\ MetersToRaw(m) \in {Err, Overflow} \/ Within(MetersToRaw(m), 0, 65535)
BY DEF GpsKept, MetersToRaw, AltitudeMeters, Within, Err, Overflow, MaxI32

(* us_to_ticks() leaves the 11 bits of a channel outside of 880..2159 us,  *)
(* for any u16, but where the wrapped value falls into them again.         *)
THEOREM PulseKept ==
  ASSUME NEW us \in Nat, us <= 65535
  PROVE  UsKept(us, UsToTicks(us), TicksToUs(UsToTicks(us)))
<1> DEFINE q      == Quotient((us - 1500) * 8, 5)
           ticks  == (q + 992) % 65536
           r      == Quotient((ticks - 992) * 5, 8)
           back   == (r + 1500) % 65536
<1>1. Truncates((us - 1500) * 8, 5, q)
  BY Truncated
<1>2. UsToTicks(us) = ticks /\ TicksToUs(ticks) = back
  BY DEF UsToTicks, TicksToUs
<1> HIDE DEF q
<1>3. /\ ticks \in Int
      /\ ticks <= 2047 <=> Within(us, 880, 2159) \/ Within(us, 41840, 43119)
      /\ Within(us, 880, 2159) => ticks = q + 992
  BY <1>1 DEF Truncates, Within
<1> HIDE DEF ticks
<1>4. Truncates((ticks - 992) * 5, 8, r)
  BY <1>3, Truncated
<1> HIDE DEF r
<1>5. Within(us, 880, 2159) => Near(back, us, 1)
  BY <1>1, <1>3, <1>4 DEF Truncates, Within, Near
<1>6. QED
  BY <1>2, <1>3, <1>5 DEF UsKept

(* ... and each of the 2048 values of a channel survives the way to        *)
(* microseconds and back within two ticks.                                 *)
THEOREM ChannelKept ==
  ASSUME NEW ticks \in Nat, ticks <= 65535
  PROVE  TicksKept(ticks, UsToTicks(TicksToUs(ticks)))
BY DEF TicksKept, UsToTicks, TicksToUs, Quotient, Near, Within
=============================================================================
