--------------------------- MODULE HostCallProofs ---------------------------
(***************************************************************************)
(* Theorems about host calls and what they are made of: the numbers and    *)
(* times that cross, for any widths; routing and renaming, for any names,  *)
(* paths, mounts and trees; errors; values and the parameters of tools,    *)
(* whatever is nested in them; and the answer to a call from end to end.   *)
(*                                                                         *)
(* For OS calls first the words: FS.relative compares the letters of two   *)
(* clean paths, and that is shown to compare their elements.  Then the     *)
(* steps: who is asked, who answers, and what MemFS.Rename has moved when  *)
(* its range is half way through.  For values, types and annotations first *)
(* the depth: what is in one, level by level, and that a function over all *)
(* of it is what its rule for one level says; then kind by kind what the   *)
(* codec makes of a value, and a conversion of a value and a type, given   *)
(* what it makes of those inside.  Induction, along a sequence or over the *)
(* depth of a value or a type, is said of sets (Induction, KidsInduction). *)
(***************************************************************************)
EXTENDS HostCall, SequenceTheorems, WellFoundedInduction, TLAPS

(***************************************************************************)
(* Numbers and times                                                       *)
(***************************************************************************)

\* The widths are numbers.
LEMMA Widths ==
  /\ MaxInt \in Nat \ {0} /\ Nanos \in Nat \ {0} /\ Micros \in Nat \ {0} /\ Seconds \in Nat \ {0}
  /\ MinInt = -MaxInt - 1
BY ArithmeticAssumption DEF MinInt

\* A quotient and a remainder are the only ones.
LEMMA DivMod ==
  ASSUME NEW d \in Nat \ {0}, NEW q \in Int, NEW r \in 0..(d - 1)
  PROVE  (q * d + r) \div d = q /\ (q * d + r) % d = r
<1> DEFINE a == q * d + r
           x == a \div d
           y == a % d
<1>1. a \in Int /\ x \in Int /\ y \in 0..(d - 1) /\ a = d * x + y
  OBVIOUS
<1> HIDE DEF a, x, y
<1>2. d * x + y = q * d + r
  BY <1>1 DEF a
<1>3. d * (x - q) = r - y
  BY <1>1, <1>2
<1>4. x = q
  <2>1. CASE x - q >= 1
    <3>1. d * (x - q) >= d
      BY <1>1, <2>1
    <3> QED BY <1>1, <1>3, <3>1
  <2>2. CASE x - q <= -1
    <3>1. d * (x - q) <= -d
      BY <1>1, <2>2
    <3> QED BY <1>1, <1>3, <3>1
  <2> QED BY <1>1, <2>1, <2>2
<1> QED BY <1>1, <1>3, <1>4 DEF a, x, y

LEMMA DivBounds ==
  ASSUME NEW d \in Nat \ {0}, NEW n \in Nat
  PROVE  n \div d \in Nat /\ (n \div d) * d <= n
OBVIOUS

\* What fits does not wrap.
LEMMA WrappedIs ==
  ASSUME NEW n, IsInt64(n)
  PROVE  Wrapped(n) = n
<1>1. n \in Int /\ n - MinInt \in 0..(2 * (MaxInt + 1) - 1) /\ 2 * (MaxInt + 1) \in Nat \ {0}
  BY Widths DEF IsInt64, MinInt
<1>2. (0 * (2 * (MaxInt + 1)) + (n - MinInt)) % (2 * (MaxInt + 1)) = n - MinInt
  BY <1>1, DivMod
<1> QED BY <1>1, <1>2, Widths DEF Wrapped

LEMMA DayIs == Day \in Nat \ {0}
BY Widths DEF Day

\* Nor what fits the wire's fields (value.go, encode).
LEMMA Int32Is ==
  ASSUME NEW n, IsInt32(n)
  PROVE  Int32(n) = n
<1> DEFINE w == 2 * (MaxInt32 + 1)
           k == n + MaxInt32 + 1
<1>1. MaxInt32 \in Nat
  BY ArithmeticAssumption
<1>2. n \in Int /\ k \in 0..(w - 1) /\ w \in Nat \ {0}
  BY <1>1 DEF IsInt32
<1>3. (0 * w + k) % w = k
  <2> HIDE DEF w, k
  <2> QED BY <1>2, DivMod
<1>4. k % w = k
  <2> HIDE DEF k
  <2> QED BY <1>2, <1>3
<1>5. Int32(n) = (k % w) - MaxInt32 - 1
  BY DEF Int32
<1> QED BY <1>1, <1>2, <1>4, <1>5

LEMMA QuotientExact ==
  ASSUME NEW n \in Int
  PROVE  Quotient(n * Nanos, Nanos) = n
<1>1. CASE n >= 0
  <2>1. (n * Nanos + 0) \div Nanos = n
    BY Widths, DivMod
  <2>2. ~(n * Nanos < 0) /\ n * Nanos + 0 = n * Nanos
    BY Widths, <1>1
  <2> QED BY <2>1, <2>2 DEF Quotient
<1>2. CASE n < 0
  <2>1. ((-n) * Nanos + 0) \div Nanos = -n
    BY Widths, DivMod
  <2>2. n * Nanos < 0 /\ -(n * Nanos) = (-n) * Nanos + 0
    BY Widths, <1>2
  <2> QED BY <2>1, <2>2 DEF Quotient
<1> QED BY <1>1, <1>2

\* The days of m microseconds, as encodeDuration counts them.
Floored(m) == Quotient(m, Day) - (IF m % Day # 0 /\ m < 0 THEN 1 ELSE 0)

\* Days are the floor, although the division goes towards zero.
LEMMA FloorOfDays ==
  ASSUME NEW q \in Int, NEW r \in 0..(Day - 1)
  PROVE  Floored(q * Day + r) = q
<1> DEFINE m == q * Day + r
<1>1. m \div Day = q /\ m % Day = r /\ m \in Int
  BY DayIs, DivMod
<1>2. Day \in Nat \ {0}
  BY DayIs
<1>3. CASE m < 0 /\ r = 0
  <2>1. ((-q) * Day + 0) \div Day = -q
    BY DayIs, DivMod
  <2>2. -m = (-q) * Day + 0
    BY <1>2, <1>3
  <2> HIDE DEF m
  <2>3. Quotient(m, Day) = -(-q)
    BY <1>3, <2>1, <2>2 DEF Quotient
  <2> QED BY <1>1, <1>3, <2>3 DEF Floored, m
<1>4. CASE m < 0 /\ r # 0
  <2>1. ((-q - 1) * Day + (Day - r)) \div Day = -q - 1
    BY DayIs, DivMod, <1>4
  <2>2. -m = (-q - 1) * Day + (Day - r)
    BY <1>2
  <2> HIDE DEF m
  <2>3. Quotient(m, Day) = -(-q - 1)
    BY <1>4, <2>1, <2>2 DEF Quotient
  <2> QED BY <1>1, <1>4, <2>3 DEF Floored, m
<1>5. CASE ~(m < 0)
  <2> HIDE DEF m
  <2>1. Quotient(m, Day) = q
    BY <1>1, <1>5 DEF Quotient
  <2> QED BY <1>1, <1>5, <2>1 DEF Floored, m
<1> HIDE DEF m
<1>6. Floored(m) = q
  BY <1>1, <1>3, <1>4, <1>5 DEF m
<1> QED BY <1>6 DEF m

\* Python's normal form.
Normal(days, secs, micros) == days \in Int /\ secs \in 0..(Seconds - 1) /\ micros \in 0..(Micros - 1)

Sum(days, secs, micros) == days * Day + secs * Micros + micros

\* It goes out as it is if the days fit.
LEMMA DeltaIs ==
  ASSUME NEW days, NEW secs, NEW micros, Normal(days, secs, micros), IsInt32(days)
  PROVE  encodeDelta(days, secs, micros) = << "timedelta", days, secs, micros >>
<1>1. IsInt32(secs) /\ IsInt32(micros)
  <2>1. /\ MaxInt32 \in Nat /\ Seconds \in Nat /\ Micros \in Nat
        /\ Seconds <= MaxInt32 /\ Micros <= MaxInt32
    BY ArithmeticAssumption
  <2> QED BY <2>1 DEF Normal, IsInt32
<1> QED BY <1>1, Int32Is DEF encodeDelta

\* Seconds and microseconds are less than a day, and can be read back.
LEMMA RestOfDay ==
  ASSUME NEW secs \in 0..(Seconds - 1), NEW micros \in 0..(Micros - 1)
  PROVE  /\ secs * Micros + micros \in 0..(Day - 1)
         /\ (secs * Micros + micros) \div Micros = secs
         /\ (secs * Micros + micros) % Micros = micros
<1>1. secs \in Int /\ Micros \in Nat \ {0} /\ Seconds \in Nat \ {0}
  BY Widths
<1>2. secs * Micros >= 0 /\ (Seconds - 1 - secs) * Micros >= 0
  BY <1>1
<1>3. (Seconds - 1 - secs) * Micros = Seconds * Micros - Micros - secs * Micros
  BY <1>1
<1>4. secs * Micros + micros \in 0..(Day - 1)
  BY <1>1, <1>2, <1>3 DEF Day
<1> QED BY <1>1, <1>4, DivMod

\* Every number of microseconds has one normal form, which encodeDuration finds
\* if its days fit.
LEMMA EncodesNormal ==
  ASSUME NEW days, NEW secs, NEW micros, Normal(days, secs, micros), IsInt32(days),
         NEW d, Quotient(d, Nanos) = Sum(days, secs, micros)
  PROVE  encodeDuration(d) = << "timedelta", days, secs, micros >>
<1> DEFINE rest == secs * Micros + micros
           m == Quotient(d, Nanos)
<1>1. days \in Int /\ rest \in 0..(Day - 1) /\ rest \div Micros = secs /\ rest % Micros = micros
  BY RestOfDay DEF Normal
<1>2. m = days * Day + rest
  <2>1. days * Day \in Int /\ secs * Micros \in Int /\ micros \in Int
    BY DayIs, Widths DEF Normal
  <2> QED BY <2>1 DEF Sum
<1>3. Floored(m) = days
  BY <1>1, <1>2, FloorOfDays
<1>4. m - days * Day = rest
  <2>1. days * Day \in Int /\ rest \in Int
    BY <1>1, DayIs
  <2> HIDE DEF rest
  <2> QED BY <1>2, <2>1
<1>5. encodeDuration(d) =
        encodeDelta(Floored(m), (m - Floored(m) * Day) \div Micros, (m - Floored(m) * Day) % Micros)
  BY Zenon DEF encodeDuration, Floored
<1> HIDE DEF rest, m
<1> QED BY <1>1, <1>3, <1>4, <1>5, DeltaIs

LEMMA LongestFits ==
  /\ MaxMicros \in Nat /\ MaxMicros * Nanos <= MaxInt /\ MaxMicros + Day <= MaxInt
BY Widths, DivBounds, ArithmeticAssumption DEF MaxMicros

\* The days of a Duration, and one more, fit.
LEMMA LongestDaysFit ==
  \A q \in Int : -(MaxMicros \div Day) - 1 <= q /\ q <= MaxMicros \div Day => IsInt32(q)
<1>1. MaxMicros \div Day \in Nat
  BY LongestFits, DayIs, DivBounds
<1>2. MaxMicros \div Day < MaxInt32 /\ MaxInt32 \in Nat
  BY ArithmeticAssumption DEF MaxMicros
<1> QED BY <1>1, <1>2 DEF IsInt32

\* Days within the bound, so that the sum does not wrap.
LEMMA SumFits ==
  ASSUME NEW days, NEW secs, NEW micros, Normal(days, secs, micros),
         days <= MaxMicros \div Day, -(MaxMicros \div Day) <= days
  PROVE  /\ Sum(days, secs, micros) \in Int
         /\ Total(days, secs, micros) = Sum(days, secs, micros)
<1> DEFINE rest == secs * Micros + micros
           most == MaxMicros \div Day
<1>1. days \in Int /\ rest \in 0..(Day - 1)
  BY RestOfDay DEF Normal
<1>2. Day \in Nat \ {0} /\ MaxMicros \in Nat /\ MaxMicros + Day <= MaxInt
  BY DayIs, LongestFits
<1>3. most \in Nat /\ most * Day <= MaxMicros
  BY <1>2, DivBounds
<1>4. Sum(days, secs, micros) = days * Day + rest
  <2>1. days * Day \in Int /\ secs * Micros \in Int /\ micros \in Int
    BY DayIs, Widths DEF Normal
  <2> QED BY <2>1 DEF Sum
<1> HIDE DEF rest, most
<1>5. (most - days) * Day >= 0 /\ (most + days) * Day >= 0
  BY <1>1, <1>2, <1>3 DEF most
<1>6. (most - days) * Day = most * Day - days * Day /\ (most + days) * Day = most * Day + days * Day
  BY <1>1, <1>2, <1>3
<1>7. most * Day \in Int /\ days * Day \in Int
  BY <1>1, <1>2, <1>3
<1>8. days * Day <= MaxMicros /\ -MaxMicros <= days * Day
  BY <1>2, <1>3, <1>5, <1>6, <1>7
<1>9. IsInt64(days * Day + rest)
  BY <1>1, <1>2, <1>7, <1>8, Widths DEF IsInt64
<1>10. Total(days, secs, micros) = Wrapped(Sum(days, secs, micros))
  BY DEF Total, Sum
<1>11. days * Day + rest \in Int
  BY <1>1, <1>7
<1> QED BY <1>4, <1>9, <1>10, <1>11, WrappedIs

\* A timedelta is the same one when it comes back, whether it fits a Duration or
\* not, and it is a Duration in between exactly if its days and its microseconds
\* fit one: that the sum may wrap does not show (value.go, decode).
THEOREM TimedeltaSurvives ==
  ASSUME NEW days, NEW secs, NEW micros, Normal(days, secs, micros)
  PROVE  LET sum == Sum(days, secs, micros)
             v == decodeTimedelta(days, secs, micros)
         IN IF /\ days \in -(MaxMicros \div Day)..(MaxMicros \div Day)
               /\ sum \in -MaxMicros..MaxMicros
            THEN /\ v = << "duration", sum * Nanos >> /\ IsInt64(sum * Nanos)
                 /\ encodeDuration(sum * Nanos) = << "timedelta", days, secs, micros >>
            ELSE v = << "timedelta", days, secs, micros >>
<1> DEFINE most == MaxMicros \div Day
           sum == Sum(days, secs, micros)
           total == Total(days, secs, micros)
<1>1. days \in Int /\ most \in Nat /\ MaxMicros \in Nat
  BY LongestFits, DayIs, DivBounds DEF Normal
<1>2. decodeTimedelta(days, secs, micros) =
        IF days > most \/ days < -most \/ total > MaxMicros \/ total < -MaxMicros
        THEN << "timedelta", days, secs, micros >> ELSE << "duration", total * Nanos >>
  BY DEF decodeTimedelta
<1>3. CASE days \in -most..most
  <2>1. sum \in Int /\ total = sum
    BY <1>1, <1>3, SumFits
  <2>2. CASE sum \in -MaxMicros..MaxMicros
    <3>1. decodeTimedelta(days, secs, micros) = << "duration", sum * Nanos >>
      <4> HIDE DEF most, sum, total
      <4> QED BY <1>1, <1>2, <1>3, <2>1, <2>2
    <3>2. IsInt64(sum * Nanos)
      <4>1. Nanos \in Nat \ {0} /\ MaxMicros * Nanos <= MaxInt /\ MaxInt \in Nat
        BY Widths, LongestFits
      <4> HIDE DEF sum
      <4>2. (MaxMicros - sum) * Nanos >= 0 /\ (MaxMicros + sum) * Nanos >= 0
        BY <1>1, <2>1, <2>2, <4>1
      <4>3. /\ (MaxMicros - sum) * Nanos = MaxMicros * Nanos - sum * Nanos
            /\ (MaxMicros + sum) * Nanos = MaxMicros * Nanos + sum * Nanos
            /\ MaxMicros * Nanos \in Int /\ sum * Nanos \in Int
        BY <1>1, <2>1, <4>1
      <4> QED BY <4>1, <4>2, <4>3, Widths DEF IsInt64
    <3>3. encodeDuration(sum * Nanos) = << "timedelta", days, secs, micros >>
      <4>1. IsInt32(days)
        BY <1>1, <1>3, LongestDaysFit
      <4> QED BY <2>1, <4>1, QuotientExact, EncodesNormal
    <3> QED BY <1>3, <2>2, <3>1, <3>2, <3>3
  <2>3. CASE ~(sum \in -MaxMicros..MaxMicros)
    <3>1. decodeTimedelta(days, secs, micros) = << "timedelta", days, secs, micros >>
      <4> HIDE DEF most, sum, total
      <4> QED BY <1>1, <1>2, <1>3, <2>1, <2>3
    <3> QED BY <2>3, <3>1
  <2> QED BY <2>2, <2>3
<1>4. CASE ~(days \in -most..most)
  <2>1. decodeTimedelta(days, secs, micros) = << "timedelta", days, secs, micros >>
    <3> HIDE DEF most, total
    <3> QED BY <1>1, <1>2, <1>4
  <2> QED BY <1>4, <2>1
<1> QED BY <1>3, <1>4

\* A Duration is cut to microseconds and goes out in Python's normal form, also
\* one below zero, for which Go's division and Python's differ (encodeDuration).
THEOREM DurationIsNormal ==
  ASSUME NEW d, IsInt64(d)
  PROVE  LET w == encodeDuration(d)
         IN Normal(w[2], w[3], w[4]) /\ Sum(w[2], w[3], w[4]) = Quotient(d, Nanos)
<1> DEFINE m == Quotient(d, Nanos)
           q == m \div Day
           r == m % Day
           s == r \div Micros
           u == r % Micros
<1>1. m \in Int
  BY Widths DEF Quotient, IsInt64
<1>2. q \in Int /\ r \in 0..(Day - 1) /\ m = q * Day + r
  <2> HIDE DEF m
  <2> QED BY <1>1, DayIs
<1>3. Micros \in Nat \ {0} /\ Seconds \in Nat \ {0}
  BY Widths
<1>4. s \in Int /\ u \in 0..(Micros - 1) /\ r = s * Micros + u
  <2> HIDE DEF m, r
  <2> QED BY <1>2, <1>3, DayIs
<1> HIDE DEF m, q, r, s, u
<1>5. s >= 0
  <2> SUFFICES ASSUME s <= -1 PROVE FALSE
    BY <1>4
  <2>1. (s + 1) * Micros <= 0
    BY <1>3, <1>4
  <2>2. (s + 1) * Micros = s * Micros + Micros /\ s * Micros \in Int
    BY <1>3, <1>4
  <2> QED BY <1>2, <1>3, <1>4, <2>1, <2>2, DayIs
<1>6. s <= Seconds - 1
  <2> SUFFICES ASSUME s >= Seconds PROVE FALSE
    BY <1>3, <1>4
  <2>1. (s - Seconds) * Micros >= 0
    BY <1>3, <1>4
  <2>2. (s - Seconds) * Micros = s * Micros - Seconds * Micros /\ s * Micros \in Int
    BY <1>3, <1>4
  <2>3. r < Seconds * Micros /\ Seconds * Micros \in Int
    BY <1>2, <1>3 DEF Day
  <2> QED BY <1>2, <1>4, <2>1, <2>2, <2>3, <1>3
<1>7. Normal(q, s, u)
  BY <1>2, <1>3, <1>4, <1>5, <1>6 DEF Normal
<1>8. Sum(q, s, u) = m
  <2>1. q * Day \in Int /\ s * Micros \in Int
    BY <1>2, <1>3, <1>4, DayIs
  <2> QED BY <1>2, <1>3, <1>4, <2>1 DEF Sum
<1>9. IsInt32(q)
  <2> DEFINE most == MaxMicros \div Day
  <2>1. MaxMicros \in Nat /\ most \in Nat /\ most * Day <= MaxMicros /\ Day \in Nat \ {0}
    BY LongestFits, DayIs, DivBounds
  <2>2. MaxMicros < (most + 1) * Day
    <3>1. MaxMicros % Day \in 0..(Day - 1) /\ MaxMicros = Day * most + (MaxMicros % Day)
      BY <2>1
    <3> QED BY <2>1, <3>1
  <2>3. m <= MaxMicros /\ -MaxMicros - 1 <= m
    <3>1. MaxInt < (MaxMicros + 1) * Nanos
      <4>1. MaxInt % Nanos \in 0..(Nanos - 1) /\ MaxInt = Nanos * MaxMicros + (MaxInt % Nanos)
        BY Widths DEF MaxMicros
      <4> QED BY <2>1, <4>1, Widths
    <3>2. ASSUME NEW n \in Nat, n <= MaxInt + 1
          PROVE  n \div Nanos \in Nat /\ n \div Nanos <= MaxMicros + 1
                 /\ (n <= MaxInt => n \div Nanos <= MaxMicros)
      <4>1. n \div Nanos \in Nat /\ (n \div Nanos) * Nanos <= n
        BY Widths, DivBounds
      <4>2. \A k \in Nat : k <= MaxMicros \/ (MaxMicros + 1) * Nanos <= k * Nanos
        BY <2>1, Widths
      <4>3. \A k \in Nat : k <= MaxMicros + 1 \/ (MaxMicros + 1) * Nanos + Nanos <= k * Nanos
        BY <2>1, Widths
      <4>4. (MaxMicros + 1) * Nanos \in Int /\ (n \div Nanos) * Nanos \in Int
        BY <2>1, <4>1, Widths
      <4> DEFINE k == n \div Nanos
      <4>5. /\ k <= MaxMicros \/ (MaxMicros + 1) * Nanos <= k * Nanos
            /\ k <= MaxMicros + 1 \/ (MaxMicros + 1) * Nanos + Nanos <= k * Nanos
        BY <4>1, <4>2, <4>3
      <4> HIDE DEF k
      <4> QED BY <2>1, <3>1, <3>2, <4>1, <4>4, <4>5, Widths DEF k
    <3>3. CASE d < 0
      <4>1. -d \in Nat /\ -d <= MaxInt + 1
        BY <3>3, Widths DEF IsInt64
      <4>2. m = -((-d) \div Nanos)
        BY <3>3 DEF m, Quotient
      <4> QED BY <2>1, <3>2, <4>1, <4>2, Widths
    <3>4. CASE ~(d < 0)
      <4>1. d \in Nat /\ d <= MaxInt
        BY <3>4, Widths DEF IsInt64
      <4>2. m = d \div Nanos
        BY <3>4 DEF m, Quotient
      <4> QED BY <2>1, <3>2, <4>1, <4>2, Widths
    <3> QED BY <3>3, <3>4
  <2> HIDE DEF most
  <2>4. q <= most
    <3> SUFFICES ASSUME q >= most + 1 PROVE FALSE
      BY <1>2, <2>1
    <3>1. (most + 1) * Day <= q * Day /\ q * Day \in Int /\ (most + 1) * Day \in Int
      BY <1>2, <2>1
    <3> QED BY <1>1, <1>2, <2>1, <2>2, <2>3, <3>1
  <2>5. -most - 1 <= q
    <3> SUFFICES ASSUME q <= -most - 2 PROVE FALSE
      BY <1>2, <2>1
    <3>1. q * Day <= (-most - 2) * Day /\ q * Day \in Int
      BY <1>2, <2>1
    <3>2. (-most - 2) * Day = -((most + 1) * Day) - Day /\ (most + 1) * Day \in Int
      BY <2>1
    <3> QED BY <1>1, <1>2, <2>1, <2>2, <2>3, <3>1, <3>2
  <2> QED BY <1>2, <2>4, <2>5, LongestDaysFit DEF most
<1>10. encodeDuration(d) = << "timedelta", q, s, u >>
  BY <1>7, <1>8, <1>9, EncodesNormal DEF m
<1> QED BY <1>7, <1>8, <1>10 DEF m

(***************************************************************************)
(* Induction                                                               *)
(***************************************************************************)

\* The order of the numbers, as a relation.
LEMMA LtWF == \E R \in SUBSET (Nat \X Nat) : IsWellFoundedOn(R, Nat) /\ \A x, y \in Nat : x < y => << x, y >> \in R
<1> DEFINE R == { xy \in Nat \X Nat : xy[1] < xy[2] }
<1>1. R = OpToRel(<, Nat)
  BY Zenon DEF OpToRel
<1>2. IsWellFoundedOn(R, Nat)
  BY <1>1, NatLessThanWellFounded, Zenon
<1>3. \A x, y \in Nat : x < y => << x, y >> \in R
  OBVIOUS
<1> HIDE DEF R
<1>4. R \in SUBSET (Nat \X Nat)
  BY DEF R
<1> QED BY <1>2, <1>3, <1>4

\* Induction, over a set instead of a predicate.
LEMMA Induction ==
  ASSUME NEW S, 0 \in S, \A n \in Nat : n \in S => n + 1 \in S
  PROVE  Nat \subseteq S
<1> DEFINE T == Nat \ S
<1> SUFFICES ASSUME T # {} PROVE FALSE
  OBVIOUS
<1>0. PICK R \in SUBSET (Nat \X Nat) : IsWellFoundedOn(R, Nat) /\ \A x, y \in Nat : x < y => << x, y >> \in R
  BY LtWF
<1>1. PICK x \in T : \A y \in T : ~ (<< y, x >> \in R)
  <2>1. T \subseteq Nat
    OBVIOUS
  <2>2. T # {}
    OBVIOUS
  <2> HIDE DEF T
  <2>3. IsWellFoundedOn(R, Nat)
    BY <1>0
  <2> QED BY <2>1, <2>2, <2>3, WFMin, Zenon
<1>a. x \in Nat /\ x \notin S
  OBVIOUS
<1>2. \A y \in T : ~(y < x)
  <2> SUFFICES ASSUME NEW y \in T, y < x PROVE FALSE
    OBVIOUS
  <2>1. y \in Nat
    OBVIOUS
  <2>2. << y, x >> \in R
    BY <2>1, <1>a, <1>0
  <2> QED BY <2>2, <1>1
<1>3. x # 0
  BY <1>a
<1>5. x - 1 \in Nat /\ x - 1 < x /\ (x - 1) + 1 = x
  BY <1>a, <1>3
<1>4. x - 1 \in S
  BY <1>2, <1>5
<1> QED BY <1>a, <1>5, <1>4

(***************************************************************************)
(* Floats                                                                  *)
(***************************************************************************)

LEMMA LeastNumber ==
  ASSUME NEW S \in SUBSET Nat, S # {}
  PROVE  \E x \in S : \A y \in S : x <= y
<1>1. PICK R \in SUBSET (Nat \X Nat) : IsWellFoundedOn(R, Nat) /\ \A x, y \in Nat : x < y => << x, y >> \in R
  BY LtWF
<1>2. PICK x \in S : \A y \in S : ~ (<< y, x >> \in R)
  <2>1. IsWellFoundedOn(R, Nat)
    BY <1>1
  <2> QED BY <2>1, WFMin, Zenon
<1>3. ASSUME NEW y \in S PROVE x <= y
  <2>1. x \in Nat /\ y \in Nat /\ ~(y < x)
    BY <1>1, <1>2
  <2> QED BY <2>1
<1> QED BY <1>3

LEMMA SizeIs ==
  ASSUME NEW n \in Int
  PROVE  Size(n) \in Nat /\ (n >= 0 => Size(n) = n) /\ (n < 0 => Size(n) = -n)
BY DEF Size

\* A format, and the units one by one.
LEMMA Format ==
  ASSUME NEW F \in {Double, Single}
  PROVE  /\ F.exact \in Nat \ {0} /\ \E k \in Nat \ {0} : F.exact = 2 * k
         /\ 1 \in F.units /\ F.units \in SUBSET (Nat \ {0})
         /\ \A u \in F.units : u = 1 \/ \E w \in F.units : u = 2 * w
         /\ \A u \in F.units : F.exact * u < Inf
         /\ Inf \in Nat \ {0} /\ NaN \in Int /\ Inf < NaN
<1>1. /\ F.exact \in Nat \ {0} /\ F.exact % 2 = 0
      /\ 1 \in F.units /\ F.units \subseteq Nat \ {0}
      /\ \A u, w \in F.units : u <= w => w % u = 0
      /\ \A u \in F.units : u = 1 \/ \E w \in F.units : u = 2 * w
      /\ \A u \in F.units : F.exact * u < Inf
      /\ Inf < NaN
  BY FloatAssumption
<1>2. \E k \in Nat \ {0} : F.exact = 2 * k
  <2> DEFINE e == F.exact
  <2>1. e \in Nat \ {0} /\ e % 2 = 0
    BY <1>1
  <2> HIDE DEF e
  <2>2. e \div 2 \in Nat \ {0} /\ e = 2 * (e \div 2)
    BY <2>1
  <2> QED BY <2>2 DEF e
<1>4. Inf \in Int /\ NaN \in Int
  BY ArithmeticAssumption
<1>5. Inf > 0
  <2>1. F.exact * 1 < Inf
    BY <1>1
  <2> QED BY <1>1, <1>4, <2>1
<1>6. F.units \in SUBSET (Nat \ {0}) /\ Inf \in Nat \ {0}
  BY <1>1, <1>4, <1>5
<1> QED BY <1>1, <1>2, <1>4, <1>6

LEMMA UnitsDivide ==
  ASSUME NEW F \in {Double, Single}, NEW u \in F.units, NEW w \in F.units, u <= w
  PROVE  \E c \in Nat \ {0} : w = c * u
<1>1. u \in Nat \ {0} /\ w \in Nat \ {0} /\ w % u = 0
  BY FloatAssumption
<1> DEFINE c == w \div u
<1>2. c \in Nat /\ w = u * c + (w % u)
  BY <1>1
<1> HIDE DEF c
<1>3. w = c * u /\ c # 0
  BY <1>1, <1>2
<1> QED BY <1>2, <1>3

\* How large a float is.
LEMMA FiniteIs ==
  ASSUME NEW F \in {Double, Single}, NEW f \in Finite(F)
  PROVE  /\ f \in Int
         /\ \E m \in Int : \E w \in F.units : f = m * w /\ Size(f) <= (F.exact - 1) * w
<1>1. PICK m \in (1 - F.exact)..(F.exact - 1), w \in F.units : f = m * w
  BY DEF Finite
<1>2. F.exact \in Nat \ {0} /\ w \in Nat \ {0} /\ m \in Int
  BY Format
<1>3. f \in Int
  BY <1>1, <1>2
<1>4. Size(f) <= (F.exact - 1) * w
  <2> DEFINE e == F.exact - 1
  <2>1. e \in Nat /\ -e <= m /\ m <= e
    BY <1>2
  <2> HIDE DEF e
  <2>2. (e - m) * w >= 0 /\ (e + m) * w >= 0
    BY <1>2, <2>1
  <2>3. (e - m) * w = e * w - m * w /\ (e + m) * w = e * w + m * w /\ e * w \in Int /\ m * w \in Int
    BY <1>2, <2>1
  <2>4. f <= e * w /\ -f <= e * w
    BY <1>1, <1>3, <2>2, <2>3
  <2> QED BY <1>3, <2>4, SizeIs DEF e
<1> QED BY <1>1, <1>2, <1>3, <1>4

LEMMA NearestMultiple ==
  ASSUME NEW h \in Int, NEW u \in Nat \ {0}
  PROVE  /\ \E j \in Int : Turned(h, u) = j * u
         /\ Turned(h, u) \in Int
         /\ 2 * Size(Turned(h, u) - h) <= u
         /\ \A i \in Int : i * u \in Int /\ Size(Turned(h, u) - h) <= Size(i * u - h)
<1> DEFINE q == h \div u
           r == h % u
           n == Turned(h, u)
<1>1. q \in Int /\ r \in 0..(u - 1) /\ h = u * q + r
  OBVIOUS
<1>2. n = (q + 1) * u \/ n = q * u
  BY DEF Turned
<1>3. (n = (q + 1) * u /\ 2 * r >= u) \/ (n = q * u /\ 2 * r <= u)
  <2>1. n = IF 2 * r > u \/ (2 * r = u /\ q % 2 = 1) THEN (q + 1) * u ELSE q * u
    BY DEF Turned
  <2> HIDE DEF n, q, r
  <2> QED BY <1>1, <2>1
<1> HIDE DEF n, q, r
<1>4. q * u \in Int /\ (q + 1) * u = q * u + u /\ h = q * u + r
  BY <1>1
<1>5. (n = q * u + u /\ 2 * r >= u) \/ (n = q * u /\ 2 * r <= u)
  BY <1>3, <1>4
<1> DEFINE p == q * u
<1>6. p \in Int /\ h = p + r /\ ((n = p + u /\ 2 * r >= u) \/ (n = p /\ 2 * r <= u))
  BY <1>4, <1>5
<1> HIDE DEF p
<1>7. n \in Int /\ n - h \in Int
  BY <1>1, <1>6
<1>8. 2 * Size(n - h) <= u /\ Size(n - h) <= r /\ Size(n - h) <= u - r
  BY <1>1, <1>6, <1>7 DEF Size
<1>9. ASSUME NEW i \in Int PROVE i * u \in Int /\ Size(n - h) <= Size(i * u - h)
  <2> DEFINE x == i * u
  <2>1. x \in Int
    OBVIOUS
  <2>2. CASE i <= q
    <3>1. (q - i) * u >= 0 /\ (q - i) * u = p - x
      BY <1>1, <2>2 DEF p
    <3> HIDE DEF x
    <3>2. x <= p
      BY <1>6, <2>1, <3>1
    <3> QED BY <1>1, <1>6, <1>8, <2>1, <3>2, SizeIs DEF Size, x
  <2>3. CASE i >= q + 1
    <3>1. (i - (q + 1)) * u >= 0 /\ (i - (q + 1)) * u = x - p - u
      BY <1>1, <2>3 DEF p
    <3> HIDE DEF x
    <3>2. x >= p + u
      BY <1>6, <2>1, <3>1
    <3> QED BY <1>1, <1>6, <1>8, <2>1, <3>2, SizeIs DEF Size, x
  <2> QED BY <1>1, <2>2, <2>3
<1>10. \E j \in Int : n = j * u
  <2>1. q \in Int /\ q + 1 \in Int
    BY <1>1
  <2> QED BY <1>2, <2>1
<1> QED BY <1>7, <1>8, <1>9, <1>10 DEF n

\* With the least unit that fits, no float is nearer.
LEMMA NearestWithin ==
  ASSUME NEW h \in Int, NEW F \in {Double, Single}, NEW u \in F.units, Size(h) <= F.exact * u,
         \A w \in F.units : Size(h) <= F.exact * w => u <= w,
         NEW f \in Finite(F)
  PROVE  Size(Turned(h, u) - h) <= Size(f - h)
<1> DEFINE n == Turned(h, u)
           e == F.exact
<1>1. PICK m \in Int, w \in F.units : f = m * w /\ Size(f) <= (F.exact - 1) * w
  BY FiniteIs
<1>2. f \in Int /\ u \in Nat \ {0} /\ w \in Nat \ {0} /\ e \in Nat \ {0} /\ Size(h) \in Nat
  BY Format, FiniteIs, SizeIs
<1>3. \A i \in Int : i * u \in Int /\ Size(n - h) <= Size(i * u - h)
  BY <1>2, NearestMultiple
<1>4. CASE u <= w
  <2>1. PICK c \in Nat \ {0} : w = c * u
    BY <1>4, UnitsDivide
  <2>2. f = (m * c) * u /\ m * c \in Int
    BY <1>1, <1>2, <2>1
  <2> HIDE DEF n
  <2> QED BY <1>3, <2>2 DEF n
<1>5. CASE w < u
  <2>1. PICK x \in F.units : u = 2 * x
    <3>1. u # 1
      BY <1>2, <1>5
    <3> QED BY <3>1, Format
  <2>2. PICK k \in Nat \ {0} : e = 2 * k
    BY Format
  <2>3. x \in Nat \ {0} /\ x < u
    BY <2>1, Format
  <2>4. e * x < Size(h)
    <3>1. ~(Size(h) <= e * x)
      BY <1>2, <2>3
    <3>2. e * x \in Int
      BY <1>2, <2>3
    <3> QED BY <1>2, <3>1, <3>2
  <2>5. w <= x
    <3> SUFFICES ASSUME x < w PROVE FALSE
      BY <1>2, <2>3
    <3>a. x <= w
      BY <1>2, <2>3
    <3>1. PICK c \in Nat \ {0} : w = c * x
      BY <1>2, <2>3, <3>a, UnitsDivide
    <3>2. c = 1 \/ c >= 2
      OBVIOUS
    <3>3. c >= 2 => w >= 2 * x
      <4>1. (c - 2) * x = w - 2 * x /\ (c >= 2 => (c - 2) * x >= 0)
        BY <2>3, <3>1
      <4> QED BY <1>2, <2>3, <4>1
    <3> QED BY <1>5, <2>1, <2>3, <3>1, <3>2, <3>3
  <2>6. k * u = e * x /\ k * u \in Nat
    BY <2>1, <2>2, <2>3
  <2>7. Size(f) < k * u
    <3>1. (e - 1) * w <= (e - 1) * x
      <4>1. (e - 1) * (x - w) >= 0 /\ (e - 1) * (x - w) = (e - 1) * x - (e - 1) * w
        BY <1>2, <2>3, <2>5
      <4>2. (e - 1) * x \in Int /\ (e - 1) * w \in Int
        BY <1>2, <2>3
      <4> QED BY <4>1, <4>2
    <3>2. (e - 1) * x < e * x /\ (e - 1) * x \in Int /\ (e - 1) * w \in Int
      BY <1>2, <2>3
    <3>3. Size(f) <= (e - 1) * w /\ Size(f) \in Nat
      BY <1>1, <1>2, SizeIs
    <3> HIDE DEF e
    <3> QED BY <2>6, <3>1, <3>2, <3>3
  <2> DEFINE p == k * u
  <2>8. p \in Nat /\ p < Size(h) /\ Size(f) < p
    BY <2>4, <2>6, <2>7
  <2>9. /\ Size(n - h) <= Size(p - h) /\ Size(n - h) <= Size(-p - h)
        /\ n - h \in Int
    <3>1. (-k) * u = -p /\ -k \in Int /\ k \in Int
      BY <1>2
    <3>2. n \in Int
      BY <1>2, NearestMultiple
    <3> HIDE DEF n
    <3> QED BY <1>3, <3>1, <3>2
  <2> HIDE DEF n, p
  <2>10. Size(n - h) \in Nat
    BY <2>9, SizeIs
  <2>11. Size(p - h) <= Size(f - h) \/ Size(-p - h) <= Size(f - h)
    BY <1>2, <2>8 DEF Size
  <2>12. Size(p - h) \in Nat /\ Size(-p - h) \in Nat /\ Size(f - h) \in Nat
    <3>1. p - h \in Int /\ -p - h \in Int /\ f - h \in Int
      BY <1>2, <2>8
    <3> QED BY <3>1, SizeIs
  <2> QED BY <2>9, <2>10, <2>11, <2>12 DEF n
<1> QED BY <1>2, <1>4, <1>5

\* It is a float, or the largest unit does not do for it and all are smaller.
LEMMA FiniteWithin ==
  ASSUME NEW h \in Int, NEW F \in {Double, Single}, NEW u \in F.units, Size(h) <= F.exact * u
  PROVE  LET n == Turned(h, u)
         IN IF Size(n) = F.exact * u /\ 2 * u \notin F.units
            THEN \A f \in Finite(F) : Size(f) < Size(h)
            ELSE n \in Finite(F)
<1> DEFINE n == Turned(h, u)
           e == F.exact
<1>1. u \in Nat \ {0} /\ e \in Nat \ {0} /\ Size(h) \in Nat /\ e * u \in Nat
  BY Format, SizeIs
<1>2. n \in Int /\ 2 * Size(n - h) <= u /\ n - h \in Int /\ Size(n - h) \in Nat
  <2>1. n \in Int /\ 2 * Size(n - h) <= u
    BY <1>1, NearestMultiple
  <2> HIDE DEF n
  <2> QED BY <2>1, SizeIs
<1>3. PICK j \in Int : n = j * u
  BY <1>1, NearestMultiple
<1> HIDE DEF n
<1>4. -e <= j /\ j <= e
  <2> DEFINE b == e * u
  <2>1. n <= b + u - 1 /\ -b - u + 1 <= n
    <3>1. Size(h) <= b /\ b \in Nat
      BY <1>1
    <3> HIDE DEF b
    <3> QED BY <1>1, <1>2, <3>1 DEF Size
  <2>2. j >= e + 1 => n >= b + u
    <3>1. (j - (e + 1)) * u = n - b - u /\ (j >= e + 1 => (j - (e + 1)) * u >= 0) /\ b \in Int
      BY <1>1, <1>3
    <3> HIDE DEF b
    <3> QED BY <1>1, <1>2, <3>1
  <2>3. j <= -e - 1 => n <= -b - u
    <3>1. (-e - 1 - j) * u = -b - u - n /\ (j <= -e - 1 => (-e - 1 - j) * u >= 0) /\ b \in Int
      BY <1>1, <1>3
    <3> HIDE DEF b
    <3> QED BY <1>1, <1>2, <3>1
  <2>4. b \in Int
    BY <1>1
  <2> HIDE DEF b, e
  <2> QED BY <1>1, <1>2, <2>1, <2>2, <2>3, <2>4
<1>5. CASE -e < j /\ j < e
  <2>1. j \in (1 - e)..(e - 1)
    BY <1>1, <1>5
  <2>2. n \in Finite(F)
    BY <1>3, <2>1 DEF Finite
  <2>3. Size(n) # e * u
    <3>1. (e - j) * u > 0 /\ (e + j) * u > 0
      BY <1>1, <1>5
    <3>2. (e - j) * u = e * u - n /\ (e + j) * u = e * u + n
      BY <1>1, <1>3
    <3> DEFINE b == e * u
    <3>3. b \in Nat /\ n < b /\ -b < n
      BY <1>1, <1>2, <3>1, <3>2
    <3> HIDE DEF b
    <3> QED BY <1>2, <3>3 DEF Size, b
  <2> QED BY <2>2, <2>3 DEF n
<1>6. CASE (j = e \/ j = -e) /\ 2 * u \in F.units
  <2>1. PICK k \in Nat \ {0} : e = 2 * k
    BY Format
  <2>2. PICK i \in {k, -k} : j = 2 * i
    BY <1>6, <2>1
  <2>3. i \in (1 - e)..(e - 1) /\ n = i * (2 * u)
    BY <1>1, <1>3, <2>1, <2>2
  <2>4. n \in Finite(F)
    BY <1>6, <2>3 DEF Finite
  <2> QED BY <1>6, <2>4 DEF n
<1>7. CASE (j = e \/ j = -e) /\ 2 * u \notin F.units
  <2>1. \A w \in F.units : w <= u
    <3> DEFINE S == { w \in F.units : u < w }
    <3> SUFFICES S = {}
      BY <1>1, Format
    <3> SUFFICES ASSUME S # {} PROVE FALSE
      OBVIOUS
    <3>1. S \in SUBSET Nat
      BY Format
    <3> HIDE DEF S
    <3>2. PICK w \in S : \A y \in S : w <= y
      BY <3>1, LeastNumber
    <3>3. w \in F.units /\ u < w /\ w \in Nat \ {0}
      BY <3>2, Format DEF S
    <3>4. PICK x \in F.units : w = 2 * x
      <4>1. w # 1
        BY <1>1, <3>3
      <4> QED BY <3>3, <4>1, Format
    <3>5. x \in Nat \ {0} /\ x < w
      BY <3>3, <3>4, Format
    <3>6. ~(u < x)
      <4> SUFFICES ASSUME x \in S PROVE FALSE
        BY DEF S
      <4> QED BY <3>2, <3>3, <3>5
    <3>7. PICK c \in Nat \ {0} : w = c * u
      <4>1. u <= w
        BY <1>1, <3>3
      <4> QED BY <3>3, <4>1, UnitsDivide
    <3>8. c = 1 \/ w >= 2 * u
      <4>1. (c - 2) * u = w - 2 * u /\ (c >= 2 => (c - 2) * u >= 0)
        BY <1>1, <3>7
      <4> QED BY <1>1, <3>3, <4>1
    <3>9. w = 2 * u
      BY <1>1, <3>3, <3>4, <3>5, <3>6, <3>7, <3>8
    <3> QED BY <1>7, <3>3, <3>9
  <2>2. Size(n) = e * u
    <3>1. n = e * u \/ n = -(e * u)
      BY <1>1, <1>3, <1>7
    <3> DEFINE b == e * u
    <3>2. b \in Nat
      BY <1>1
    <3> HIDE DEF b
    <3> QED BY <3>1, <3>2 DEF Size, b
  <2>3. ASSUME NEW f \in Finite(F) PROVE Size(f) < Size(h)
    <3>1. PICK m \in Int, w \in F.units : f = m * w /\ Size(f) <= (e - 1) * w
      BY FiniteIs
    <3>2. f \in Int /\ Size(f) \in Nat /\ w \in Nat \ {0}
      BY FiniteIs, Format, SizeIs
    <3>3. (e - 1) * w <= e * u - u
      <4>1. (e - 1) * (u - w) >= 0
        BY <1>1, <2>1, <3>2
      <4>2. (e - 1) * (u - w) = (e - 1) * u - (e - 1) * w /\ (e - 1) * u = e * u - u
            /\ (e - 1) * w \in Int
        BY <1>1, <3>2
      <4> QED BY <1>1, <4>1, <4>2
    <3>4. (e - 1) * w \in Int
      BY <1>1, <3>2
    <3>5. e * u - u < Size(h)
      <4> DEFINE b == e * u
      <4>1. b \in Nat /\ Size(n) = b
        BY <1>1, <2>2
      <4> HIDE DEF b
      <4>2. b - u < Size(h)
        BY <1>1, <1>2, <4>1 DEF Size
      <4> QED BY <4>2 DEF b
    <3> QED BY <1>1, <3>1, <3>2, <3>3, <3>4, <3>5
  <2> QED BY <1>7, <2>2, <2>3 DEF n
<1>8. j = e \/ j = -e \/ (-e < j /\ j < e)
  BY <1>1, <1>4
<1> QED BY <1>5, <1>6, <1>7, <1>8

\* An integer becomes the float nearest to it, or the infinity of its sign if
\* every float is smaller; so does a float64 that is narrowed to a float32
\* (convert, for reflect.Float32 and reflect.Float64).
THEOREM FloatsAreNearest ==
  ASSUME NEW h \in Int, NEW F \in {Double, Single}
  PROVE  Rounded(h, F) \in Floats(F) /\ Nearest(h, Rounded(h, F), F)
<1> DEFINE fit == { u \in F.units : Size(h) <= F.exact * u }
           unit == CHOOSE u \in fit : \A w \in fit : u <= w
           n == Turned(h, unit)
           inf == IF h < 0 THEN -Inf ELSE Inf
<1>1. Rounded(h, F) =
        IF fit = {} \/ (Size(n) = F.exact * unit /\ 2 * unit \notin F.units) THEN inf ELSE n
  BY Zenon DEF Rounded
<1>2. inf \in Floats(F)
  BY DEF Floats
<1>3. CASE fit = {}
  <2>1. Rounded(h, F) = inf
    <3> HIDE DEF fit, n, unit, inf
    <3> QED BY <1>1, <1>3
  <2>2. ASSUME NEW f \in Finite(F) PROVE Size(f) < Size(h)
    <3>1. PICK m \in Int, w \in F.units : f = m * w /\ Size(f) <= (F.exact - 1) * w
      BY FiniteIs
    <3>2. f \in Int /\ Size(f) \in Nat /\ Size(h) \in Nat /\ w \in Nat \ {0} /\ F.exact \in Nat
      BY FiniteIs, Format, SizeIs
    <3>3. ~(Size(h) <= F.exact * w)
      BY <1>3
    <3>4. (F.exact - 1) * w = F.exact * w - w /\ F.exact * w \in Int
      BY <3>2
    <3> QED BY <3>1, <3>2, <3>3, <3>4
  <2> HIDE DEF fit, n, unit
  <2> QED BY <1>2, <2>1, <2>2 DEF Nearest
<1>4. CASE fit # {}
  <2>1. unit \in fit /\ \A w \in fit : unit <= w
    <3>1. fit \in SUBSET Nat
      BY Format
    <3> HIDE DEF fit
    <3>2. \E u \in fit : \A w \in fit : u <= w
      BY <1>4, <3>1, LeastNumber
    <3> QED BY <3>2
  <2>2. unit \in F.units /\ Size(h) <= F.exact * unit
        /\ \A w \in F.units : Size(h) <= F.exact * w => unit <= w
    <3> HIDE DEF unit
    <3> QED BY <2>1
  <2>3. \A f \in Finite(F) : Size(n - h) <= Size(f - h)
    <3> HIDE DEF unit
    <3> QED BY <2>2, NearestWithin
  <2>4. IF Size(n) = F.exact * unit /\ 2 * unit \notin F.units
        THEN \A f \in Finite(F) : Size(f) < Size(h)
        ELSE n \in Finite(F)
    <3> HIDE DEF unit
    <3> QED BY <2>2, FiniteWithin
  <2> HIDE DEF fit, n, unit
  <2>5. CASE Size(n) = F.exact * unit /\ 2 * unit \notin F.units
    <3>1. Rounded(h, F) = inf
      <4> HIDE DEF inf
      <4> QED BY <1>1, <2>5
    <3> QED BY <1>2, <2>4, <2>5, <3>1 DEF Nearest
  <2>6. CASE ~(Size(n) = F.exact * unit /\ 2 * unit \notin F.units)
    <3>1. Rounded(h, F) = n
      BY <1>1, <1>4, <2>6
    <3> QED BY <2>3, <2>4, <2>6, <3>1 DEF Nearest, Floats
  <2> QED BY <2>5, <2>6
<1> QED BY <1>3, <1>4

\* Floats are numbers, and each is the one nearest to itself.
LEMMA FloatsAre ==
  ASSUME NEW F \in {Double, Single}, NEW f \in Floats(F)
  PROVE  f \in Int /\ (f # NaN => Nearest(f, f, F))
<1>1. Inf \in Nat \ {0} /\ NaN \in Int
  BY Format
<1>2. CASE f \in Finite(F)
  <2>1. f \in Int
    BY <1>2, FiniteIs
  <2>2. ASSUME NEW x \in Finite(F) PROVE Size(f - f) <= Size(x - f)
    <3>1. x - f \in Int
      BY <2>1, FiniteIs
    <3>2. Size(x - f) \in Nat /\ f - f = 0 /\ Size(0) = 0
      BY <2>1, <3>1, SizeIs
    <3> QED BY <3>2
  <2> QED BY <1>2, <2>1, <2>2 DEF Nearest
<1>3. CASE f \in {Inf, -Inf}
  <2>1. Size(f) = Inf
    BY <1>1, <1>3 DEF Size
  <2>2. ASSUME NEW x \in Finite(F) PROVE Size(x) < Size(f)
    <3>1. PICK m \in Int, w \in F.units : x = m * w /\ Size(x) <= (F.exact - 1) * w
      BY FiniteIs
    <3>2. x \in Int /\ Size(x) \in Nat /\ w \in Nat \ {0} /\ F.exact \in Nat /\ F.exact * w < Inf
      BY FiniteIs, Format, SizeIs
    <3>3. (F.exact - 1) * w = F.exact * w - w /\ F.exact * w \in Int
      BY <3>2
    <3> QED BY <1>1, <2>1, <3>1, <3>2, <3>3
  <2>3. f = IF f < 0 THEN -Inf ELSE Inf
    BY <1>1, <1>3
  <2> QED BY <1>1, <1>3, <2>2, <2>3 DEF Nearest
<1> QED BY <1>1, <1>2, <1>3 DEF Floats

(***************************************************************************)
(* Numbers for parameters                                                  *)
(***************************************************************************)

\* Numbers as they come from decode: an int is one of 64 bits.
Number ==
  { << "bool", b >> : b \in BOOLEAN } \cup { << "int", n >> : n \in MinInt..MaxInt }
  \cup { << "bigInt", n >> : n \in Int } \cup { << "float", h >> : h \in Floats(Double) }

Signed == { << k >> : k \in {"int", "int8", "duration"} }

LEMMA WrappedFits ==
  ASSUME NEW n \in Int
  PROVE  IsInt64(Wrapped(n))
<1> DEFINE w == 2 * (MaxInt + 1)
<1>1. w \in Nat \ {0} /\ n - MinInt \in Int
  BY Widths
<1>2. (n - MinInt) % w \in 0..(w - 1)
  BY <1>1
<1> QED BY <1>1, <1>2, Widths DEF Wrapped, IsInt64

LEMMA Truncated ==
  ASSUME NEW h \in Int
  PROVE  /\ Quotient(h, 2) \in Int /\ (h % 2 = 0 => 2 * Quotient(h, 2) = h)
         /\ \A proc : /\ IsInt64(toInt64(h, proc))
                      /\ IsInt64(Quotient(h, 2)) => toInt64(h, proc) = Quotient(h, 2)
                      /\ ~IsInt64(Quotient(h, 2)) => toInt64(h, proc) \in {MinInt, MaxInt}
<1>1. Quotient(h, 2) \in Int /\ (h % 2 = 0 => 2 * Quotient(h, 2) = h)
  BY DEF Quotient
<1>2. IsInt64(MinInt) /\ IsInt64(MaxInt)
  BY Widths DEF IsInt64
<1> QED BY <1>1, <1>2 DEF toInt64

\* What a type holds; the edges of an int64 fit no int8.
LEMMA FitsIs ==
  ASSUME NEW n, NEW T
  PROVE  /\ T[1] \in {"int", "duration"} => (Fits(n, T) <=> IsInt64(n))
         /\ T[1] = "int8" => (Fits(n, T) <=> n \in (-MaxSmall - 1)..MaxSmall)
         /\ T[1] = "uint8" => (Fits(n, T) <=> n \in 0..(2 * MaxSmall + 1))
         /\ T[1] = "uint64" => (Fits(n, T) <=> n \in 0..(2 * MaxInt + 1))
BY DEF Fits

LEMMA SmallIsInside == \A T : T[1] = "int8" => ~Fits(MinInt, T) /\ ~Fits(MaxInt, T)
<1> SUFFICES ASSUME NEW T, T[1] = "int8" PROVE ~Fits(MinInt, T) /\ ~Fits(MaxInt, T)
  OBVIOUS
<1>1. ~(MinInt \in (-MaxSmall - 1)..MaxSmall) /\ ~(MaxInt \in (-MaxSmall - 1)..MaxSmall)
  BY Widths, ArithmeticAssumption
<1> QED BY <1>1, FitsIs

\* convertInt, kind by kind, for every architecture.
LEMMA ConvertedInt ==
  ASSUME NEW T, NEW n
  PROVE  \A a : convertInt(<< "int", n >>, T, a) =
                  IF ~Fits(n, T) THEN Error
                  ELSE IF T[1] = "duration" THEN << "duration", Wrapped(n * Micros * Nanos) >>
                  ELSE << T[1], n >>
BY Zenon DEF convertInt

LEMMA ConvertedFloat ==
  ASSUME NEW T, NEW h
  PROVE  \A a : convertInt(<< "float", h >>, T, a) =
                  IF Whole(h) /\ Fits(toInt64(h, a), T) THEN << T[1], toInt64(h, a) >> ELSE Error
BY Zenon DEF convertInt

LEMMA ConvertedBool ==
  ASSUME NEW T
  PROVE  /\ \A a : convertInt(<< "bool", TRUE >>, T, a) = << T[1], 1 >>
         /\ \A a : convertInt(<< "bool", FALSE >>, T, a) = << T[1], 0 >>
BY Zenon DEF convertInt

LEMMA ConvertedBig == \A n, T, a : convertInt(<< "bigInt", n >>, T, a) = Error
BY Zenon DEF convertInt

LEMMA SignedType == \A T \in Signed : T[1] \in {"int", "int8", "duration"}
BY DEF Signed

\* Halves of a number.
LEMMA HalvesOfInt ==
  \A k \in {"int", "int8", "duration", "uint8", "uint64", "bigInt"} : \A n : Halves(<< k, n >>) = 2 * n
BY Zenon DEF Halves

LEMMA HalvesOfFloat == \A h : \A k \in {"float", "float32"} : Halves(<< k, h >>) = h
BY Zenon DEF Halves

LEMMA HalvesOfBool == Halves(<< "bool", TRUE >>) = 2 /\ Halves(<< "bool", FALSE >>) = 0
BY Zenon DEF Halves

\* A parameter of an integer type, or a Duration, gets the number that was
\* passed, or the call fails; what the processor makes of a float that is out of
\* range reaches an int or a Duration only (convert).
THEOREM IntegersAreKept ==
  ASSUME NEW v \in Number, NEW proc, NEW T \in Signed
  PROVE  LET g == convertInt(v, T, proc)
         IN \/ IsError(g)
            \/ /\ g[1] = T[1] /\ Fits(g[2], T) /\ Kept(v, T, g)
               /\ v[1] # "float" \/ T[1] = "int8" \/ IsInt64(Quotient(v[2], 2))
                    => \A other : convertInt(v, T, other) = g
<1> DEFINE g == convertInt(v, T, proc)
<1>0. T[1] \in {"int", "int8", "duration"} /\ IsError(Error)
  BY SignedType DEF Error, IsError
<1>1. ASSUME NEW n \in MinInt..MaxInt, v = << "int", n >>, ~IsError(g)
      PROVE  g[1] = T[1] /\ Fits(g[2], T) /\ Kept(v, T, g) /\ \A other : convertInt(v, T, other) = g
  <2>1. n \in Int /\ Fits(n, T)
    <3>1. n \in Int
      BY Widths
    <3>2. ~Fits(n, T) => g = Error
      BY <1>1, ConvertedInt, Zenon
    <3> QED BY <1>0, <1>1, <3>1, <3>2
  <2>2. CASE T[1] = "duration"
    <3>1. g = << "duration", Wrapped(n * Micros * Nanos) >> /\ \A other : convertInt(v, T, other) = g
      BY <1>1, <2>1, <2>2, ConvertedInt
    <3>2. n * Micros * Nanos \in Int
      BY <2>1, Widths
    <3>3. IsInt64(Wrapped(n * Micros * Nanos))
      BY <3>2, WrappedFits
    <3>4. g[2] = n * Micros * Nanos \/ ~IsInt64(n * Micros * Nanos)
      BY <3>1, WrappedIs
    <3> HIDE DEF g
    <3> QED BY <1>1, <2>2, <3>1, <3>3, <3>4, FitsIs DEF Kept
  <2>3. CASE T[1] # "duration"
    <3>1. g = << T[1], n >> /\ \A other : convertInt(v, T, other) = g
      BY <1>1, <2>1, <2>3, ConvertedInt
    <3> HIDE DEF g
    <3>2. Halves(g) = 2 * n /\ Halves(v) = 2 * n
      BY <1>0, <1>1, <3>1, HalvesOfInt
    <3> QED BY <1>0, <1>1, <2>1, <2>3, <3>1, <3>2 DEF Kept
  <2> QED BY <2>2, <2>3
<1>2. ASSUME NEW h \in Int, v = << "float", h >>, ~IsError(g)
      PROVE  /\ g[1] = T[1] /\ Fits(g[2], T) /\ Kept(v, T, g)
             /\ T[1] = "int8" \/ IsInt64(Quotient(h, 2)) => \A other : convertInt(v, T, other) = g
  <2>1. Whole(h) /\ Fits(toInt64(h, proc), T) /\ g = << T[1], toInt64(h, proc) >>
    BY <1>0, <1>2, ConvertedFloat
  <2>2. IsInt64(Quotient(h, 2)) \/ T[1] # "int8"
    BY <2>1, Truncated, SmallIsInside
  <2>3. IsInt64(Quotient(h, 2)) => 2 * toInt64(h, proc) = h
    BY <2>1, Truncated DEF Whole
  <2>4. ASSUME IsInt64(Quotient(h, 2)), NEW other PROVE convertInt(v, T, other) = g
    <3>1. toInt64(h, other) = toInt64(h, proc)
      BY <2>4, Truncated
    <3> QED BY <1>2, <2>1, <3>1, ConvertedFloat
  <2> HIDE DEF g
  <2>5. Halves(g) = 2 * toInt64(h, proc) /\ Halves(v) = h
    BY <1>0, <1>2, <2>1, HalvesOfInt, HalvesOfFloat
  <2>6. Kept(v, T, g)
    BY <1>0, <1>2, <2>2, <2>3, <2>5 DEF Kept
  <2> QED BY <2>1, <2>2, <2>4, <2>6
<1>3. ASSUME NEW n \in {0, 1}, v = IF n = 1 THEN << "bool", TRUE >> ELSE << "bool", FALSE >>
      PROVE  g[1] = T[1] /\ Fits(g[2], T) /\ Kept(v, T, g) /\ \A other : convertInt(v, T, other) = g
  <2>1. g = << T[1], n >> /\ (\A other : convertInt(v, T, other) = g) /\ Halves(v) = 2 * n
    <3>1. CASE n = 1
      <4>1. v = << "bool", TRUE >>
        BY <1>3, <3>1, Zenon
      <4>2. (\A a : convertInt(v, T, a) = << T[1], 1 >>) /\ Halves(v) = 2
        BY <4>1, ConvertedBool, HalvesOfBool, Zenon
      <4> QED BY <3>1, <4>2
    <3>2. CASE n = 0
      <4>1. v = << "bool", FALSE >>
        <5>1. ~(n = 1)
          BY <3>2
        <5> QED BY <1>3, <5>1, Zenon
      <4>2. (\A a : convertInt(v, T, a) = << T[1], 0 >>) /\ Halves(v) = 0
        BY <4>1, ConvertedBool, HalvesOfBool, Zenon
      <4> QED BY <3>2, <4>2
    <3> QED BY <3>1, <3>2
  <2> HIDE DEF g
  <2>2. Halves(g) = 2 * n
    BY <1>0, <2>1, HalvesOfInt
  <2>3. Fits(n, T)
    <3>1. IsInt64(n)
      BY Widths DEF IsInt64
    <3>2. MaxSmall # 0 => n \in (-MaxSmall - 1)..MaxSmall
      BY ArithmeticAssumption
    <3> QED BY <1>0, <3>1, <3>2, FitsIs, ArithmeticAssumption
  <2>4. v[1] = "bool"
    BY <1>3, Zenon
  <2> QED BY <1>0, <2>1, <2>2, <2>3, <2>4 DEF Kept
<1>4. ASSUME NEW n, v = << "bigInt", n >> PROVE IsError(g)
  BY <1>0, <1>4, ConvertedBig
<1>5. CASE \E b \in BOOLEAN : v = << "bool", b >>
  <2>1. v = << "bool", TRUE >> \/ v = << "bool", FALSE >>
    BY <1>5, Zenon
  <2>2. 1 = 1 /\ ~(0 = 1)
    OBVIOUS
  <2>3. \/ v = IF 1 = 1 THEN << "bool", TRUE >> ELSE << "bool", FALSE >>
        \/ v = IF 0 = 1 THEN << "bool", TRUE >> ELSE << "bool", FALSE >>
    BY <2>1, <2>2, Zenon
  <2>4. \A n \in {0, 1} :
          v = (IF n = 1 THEN << "bool", TRUE >> ELSE << "bool", FALSE >>) =>
            g[1] = T[1] /\ Fits(g[2], T) /\ Kept(v, T, g) /\ \A other : convertInt(v, T, other) = g
    BY <1>3
  <2> HIDE DEF g
  <2> QED BY <2>3, <2>4, Zenon DEF g
<1>6. Floats(Double) \subseteq Int
  BY FloatsAre
<1> QED BY <1>1, <1>2, <1>4, <1>5, <1>6 DEF Number

\* The same for an unsigned parameter; and no number that fits one is refused.
THEOREM UnsignedAreKept ==
  ASSUME NEW v \in Number, NEW T \in { << k >> : k \in {"uint8", "uint64"} }
  PROVE  LET g == convertUint(v, T)
         IN /\ IsError(g) \/ (g[1] = T[1] /\ Fits(g[2], T) /\ Kept(v, T, g))
            /\ v[1] \in {"int", "bigInt"} /\ Fits(v[2], T) => ~IsError(g)
<1> DEFINE g == convertUint(v, T)
<1>0. T[1] \in {"uint8", "uint64"} /\ IsError(Error)
  BY DEF Error, IsError
<1>1. g = IF v[1] \in {"int", "bigInt"} /\ v[2] >= 0 /\ Fits(v[2], T) THEN << T[1], v[2] >> ELSE Error
  BY DEF convertUint
<1>2. CASE v[1] \in {"int", "bigInt"} /\ v[2] >= 0 /\ Fits(v[2], T)
  <2>1. g = << T[1], v[2] >>
    BY <1>1, <1>2
  <2>2. v = << v[1], v[2] >>
    BY DEF Number
  <2> HIDE DEF g
  <2>3. Halves(g) = 2 * v[2] /\ Halves(v) = 2 * v[2]
    BY <1>0, <1>2, <2>1, <2>2, HalvesOfInt
  <2>4. ~IsError(g)
    BY <1>0, <2>1 DEF IsError
  <2> QED BY <1>0, <1>2, <2>1, <2>3, <2>4 DEF Kept, g
<1>3. CASE ~(v[1] \in {"int", "bigInt"} /\ v[2] >= 0 /\ Fits(v[2], T))
  <2>1. g = Error
    BY <1>1, <1>3
  <2>2. ~(v[1] \in {"int", "bigInt"} /\ Fits(v[2], T))
    <3> SUFFICES ASSUME v[1] \in {"int", "bigInt"}, Fits(v[2], T) PROVE FALSE
      OBVIOUS
    <3>1. v[2] >= 0
      BY <1>0, FitsIs, Widths, ArithmeticAssumption
    <3> QED BY <1>3, <3>1
  <2> HIDE DEF g
  <2> QED BY <1>0, <2>1, <2>2 DEF g
<1> QED BY <1>2, <1>3

(***************************************************************************)
(* Cleaning a path                                                         *)
(***************************************************************************)

\* What one more element makes of a clean path.
Step(q, e) ==
  CASE e \in {"", "."} -> q
    [] e = ".." -> IF q = << >> THEN << >> ELSE Front(q)
    [] OTHER -> Append(q, e)

IsClean(q, p, n) == q = [i \in 0..n |-> IF i = 0 THEN << >> ELSE Step(q[i - 1], p[i])]

LEMMA CleanExists ==
  ASSUME NEW p \in Seq(Element)
  PROVE  \A n \in 0..Len(p) : \E q : IsClean(q, p, n)
<1> DEFINE S == { n \in Nat : n <= Len(p) => \E q : IsClean(q, p, n) }
<1>1. 0 \in S
  <2> DEFINE q0 == [i \in 0..0 |-> << >>]
  <2>1. q0 = [i \in 0..0 |-> IF i = 0 THEN << >> ELSE Step(q0[i - 1], p[i])]
    OBVIOUS
  <2>2. IsClean(q0, p, 0)
    BY <2>1 DEF IsClean
  <2> QED BY <2>2
<1>2. ASSUME NEW n \in Nat, n \in S PROVE n + 1 \in S
  <2> SUFFICES ASSUME n + 1 <= Len(p) PROVE \E q : IsClean(q, p, n + 1)
    OBVIOUS
  <2>1. Len(p) \in Nat
    OBVIOUS
  <2>2. PICK q : IsClean(q, p, n)
    BY <1>2, <2>1
  <2> DEFINE r == [i \in 0..(n + 1) |-> IF i = n + 1 THEN Step(q[n], p[n + 1]) ELSE q[i]]
  <2>3. q = [i \in 0..n |-> IF i = 0 THEN << >> ELSE Step(q[i - 1], p[i])]
    BY <2>2 DEF IsClean
  <2>4. ASSUME NEW i \in 0..(n + 1)
        PROVE r[i] = IF i = 0 THEN << >> ELSE Step(r[i - 1], p[i])
    <3>1. CASE i = n + 1
      BY <3>1
    <3>2. CASE i # n + 1
      <4>1. i \in 0..n /\ r[i] = q[i] /\ (i # 0 => r[i - 1] = q[i - 1])
        BY <3>2
      <4> HIDE DEF r
      <4> QED BY <4>1, <2>3
    <3> QED BY <3>1, <3>2
  <2>5. r = [i \in 0..(n + 1) |-> r[i]]
    OBVIOUS
  <2> HIDE DEF r
  <2>6. IsClean(r, p, n + 1)
    BY <2>4, <2>5 DEF IsClean
  <2> QED BY <2>6
<1> HIDE DEF S
<1>3. Nat \subseteq S
  BY <1>1, <1>2, Induction
<1> QED BY <1>3 DEF S

\* Clean(p) is the last of a sequence of steps.
LEMMA CleanSteps ==
  ASSUME NEW p \in Seq(Element)
  PROVE  \E q : IsClean(q, p, Len(p)) /\ Clean(p) = q[Len(p)]
<1> DEFINE G(q) == q = [i \in 0..Len(p) |->
        IF i = 0 THEN << >>
        ELSE CASE p[i] \in {"", "."} -> q[i - 1]
               [] p[i] = ".." -> IF q[i - 1] = << >> THEN << >> ELSE Front(q[i - 1])
               [] OTHER -> Append(q[i - 1], p[i])]
<1> DEFINE g == CHOOSE q : G(q)
<1>1. Clean(p) = g[Len(p)]
  BY DEF Clean
<1>2. \A q : IsClean(q, p, Len(p)) <=> G(q)
  BY Zenon DEF IsClean, Step
<1>3. \E q : IsClean(q, p, Len(p))
  BY CleanExists
<1>4. \E q : G(q)
  BY <1>2, <1>3
<1> HIDE DEF G
<1>5. G(g)
  BY <1>4
<1> QED BY <1>1, <1>2, <1>5

LEMMA InductionTo ==
  ASSUME NEW S, NEW n \in Nat, 0 \in S, \A i \in Nat : i < n /\ i \in S => i + 1 \in S
  PROVE  \A i \in 0..n : i \in S
<1> DEFINE T == { i \in Nat : i <= n => i \in S }
<1>1. 0 \in T
  OBVIOUS
<1>2. \A i \in Nat : i \in T => i + 1 \in T
  OBVIOUS
<1> HIDE DEF T
<1>3. Nat \subseteq T
  BY <1>1, <1>2, Induction
<1> QED BY <1>3 DEF T

LEMMA PrefixByIndex ==
  ASSUME NEW S, NEW s \in Seq(S), NEW t \in Seq(S)
  PROVE  IsPrefix(s, t) <=> Len(s) <= Len(t) /\ \A i \in 1..Len(s) : s[i] = t[i]
<1>1. Len(s) \in Nat /\ Len(t) \in Nat
  OBVIOUS
<1>2. SubSeq(s, 1, Len(s)) = s
  BY SubSeqFull
<1> SUFFICES ASSUME Len(s) <= Len(t)
             PROVE  s = SubSeq(t, 1, Len(s)) <=> \A i \in 1..Len(s) : s[i] = t[i]
  BY <1>2 DEF IsPrefix
<1> DEFINE u == SubSeq(t, 1, Len(s))
<1>3. /\ u \in Seq(S) /\ Len(u) = Len(s)
      /\ \A i \in 1..Len(s) : u[i] = t[i]
  <2>1. \A i \in 1..Len(s) : t[i] \in S
    BY <1>1
  <2> QED BY <2>1, <1>1, SubSeqProperties
<1> HIDE DEF u
<1>4. s = u <=> \A i \in 1..Len(s) : s[i] = t[i]
  BY <1>3, SeqEqual
<1> QED BY <1>4 DEF u

(***************************************************************************)
(* Clean paths                                                             *)
(***************************************************************************)

LEMMA StepNames ==
  ASSUME NEW q \in Seq(Names), NEW e \in Element
  PROVE  Step(q, e) \in Seq(Names)
<1>1. q # << >> => Front(q) \in Seq(Names)
  <2> SUFFICES ASSUME q # << >> PROVE Front(q) \in Seq(Names)
    OBVIOUS
  <2>1. Len(q) \in Nat /\ \A i \in 1..(Len(q) - 1) : q[i] \in Names
    OBVIOUS
  <2> QED BY <2>1, SubSeqProperties DEF Front
<1>2. e \notin {"", ".", ".."} => e \in Names
  BY DEF Element
<1>3. << >> \in Seq(Names)
  OBVIOUS
<1>4. e \in Names => Append(q, e) \in Seq(Names)
  OBVIOUS
<1> QED BY <1>1, <1>2, <1>3, <1>4, Zenon DEF Step

LEMMA CleanNames ==
  ASSUME NEW p \in Seq(Element)
  PROVE  Clean(p) \in Seq(Names)
<1>1. PICK q : IsClean(q, p, Len(p)) /\ Clean(p) = q[Len(p)]
  BY CleanSteps
<1>2. Len(p) \in Nat
  OBVIOUS
<1> DEFINE S == { i \in Nat : q[i] \in Seq(Names) }
<1>3. q[0] = << >> /\ \A i \in 1..Len(p) : q[i] = Step(q[i - 1], p[i])
  BY <1>1, <1>2 DEF IsClean
<1>4. 0 \in S
  BY <1>3, EmptySeq
<1>5. ASSUME NEW i \in Nat, i < Len(p), i \in S PROVE i + 1 \in S
  <2>1. i + 1 \in 1..Len(p) /\ (i + 1) - 1 = i
    BY <1>5, <1>2
  <2>2. q[i + 1] = Step(q[i], p[i + 1])
    BY <2>1, <1>3
  <2>3. p[i + 1] \in Element
    BY <2>1
  <2>4. q[i] \in Seq(Names)
    BY <1>5
  <2>5. q[i + 1] \in Seq(Names) /\ i + 1 \in Nat
    BY <2>2, <2>3, <2>4, StepNames
  <2> QED BY <2>5
<1>6. Len(p) \in S
  <2>1. \A i \in Nat : i < Len(p) /\ i \in S => i + 1 \in S
    BY <1>5
  <2> HIDE DEF S
  <2>2. \A i \in 0..Len(p) : i \in S
    BY <1>2, <1>4, <2>1, InductionTo
  <2> QED BY <1>2, <2>2
<1> QED BY <1>1, <1>6

\* A name is clean.
LEMMA CleanOfNames ==
  ASSUME NEW p \in Seq(Names)
  PROVE  Clean(p) = p
<1>0. p \in Seq(Element)
  BY SeqMonotonic DEF Element
<1>1. PICK q : IsClean(q, p, Len(p)) /\ Clean(p) = q[Len(p)]
  BY <1>0, CleanSteps
<1>2. Len(p) \in Nat
  OBVIOUS
<1> DEFINE S == { i \in Nat : q[i] = SubSeq(p, 1, i) }
<1>3. q[0] = << >> /\ \A i \in 1..Len(p) : q[i] = Step(q[i - 1], p[i])
  BY <1>1, <1>2 DEF IsClean
<1>4. 0 \in S
  <2>1. SubSeq(p, 1, 0) = << >>
    BY SubSeqEmpty
  <2> QED BY <1>3, <2>1
<1>5. ASSUME NEW i \in Nat, i < Len(p), i \in S PROVE i + 1 \in S
  <2>1. i + 1 \in 1..Len(p) /\ (i + 1) - 1 = i
    BY <1>5, <1>2
  <2>2. q[i + 1] = Step(q[i], p[i + 1])
    BY <2>1, <1>3
  <2>3. p[i + 1] \in Names
    BY <2>1
  <2>4. Step(q[i], p[i + 1]) = Append(q[i], p[i + 1])
    BY <2>3, SpellingAssumption, Zenon DEF Step
  <2>5. SubSeq(p, 1, i + 1) = Append(SubSeq(p, 1, i), p[i + 1])
    <3>1. SubSeq(p, 1, i) \in Seq(Names)
      <4>1. \A k \in 1..i : p[k] \in Names
        BY <1>2, <1>5
      <4> QED BY <4>1, SubSeqProperties
    <3>2. SubSeq(p, 1, i + 1) = SubSeq(p, 1, i) \o << p[i + 1] >>
      <4>1. 1 \in 1..Len(p) /\ i + 1 \in 1..Len(p)
        BY <1>2, <2>1
      <4> QED BY <2>1, <4>1, SubSeqRecursiveSecond
    <3> QED BY <3>1, <3>2, <2>3, AppendIsConcat
  <2>6. q[i + 1] = SubSeq(p, 1, i + 1) /\ i + 1 \in Nat
    BY <1>5, <2>2, <2>4, <2>5
  <2> QED BY <2>6
<1>6. Len(p) \in S
  <2>1. \A i \in Nat : i < Len(p) /\ i \in S => i + 1 \in S
    BY <1>5
  <2> HIDE DEF S
  <2>2. \A i \in 0..Len(p) : i \in S
    BY <1>2, <1>4, <2>1, InductionTo
  <2> QED BY <1>2, <2>2
<1> QED BY <1>1, <1>6, SubSeqFull

(***************************************************************************)
(* Spelling                                                                *)
(***************************************************************************)

IsFlat(q, f, n) == q = [i \in 1..n |-> IF i = 1 THEN f[i] ELSE q[i - 1] \o f[i]]

LEMMA FlatExists ==
  ASSUME NEW f, NEW len \in Nat
  PROVE  \E q : IsFlat(q, f, len)
<1> DEFINE S == { n \in Nat : \E q : IsFlat(q, f, n) }
<1>1. 0 \in S
  <2> DEFINE q0 == [i \in 1..0 |-> << >>]
  <2>1. q0 = [i \in 1..0 |-> IF i = 1 THEN f[i] ELSE q0[i - 1] \o f[i]]
    OBVIOUS
  <2>2. IsFlat(q0, f, 0)
    BY <2>1 DEF IsFlat
  <2> QED BY <2>2
<1>2. ASSUME NEW n \in Nat, n \in S PROVE n + 1 \in S
  <2>2. PICK q : IsFlat(q, f, n)
    BY <1>2
  <2> DEFINE r == [i \in 1..(n + 1) |->
                     IF i = n + 1 THEN IF i = 1 THEN f[i] ELSE q[i - 1] \o f[i] ELSE q[i]]
  <2>3. q = [i \in 1..n |-> IF i = 1 THEN f[i] ELSE q[i - 1] \o f[i]]
    BY <2>2 DEF IsFlat
  <2>4. ASSUME NEW i \in 1..(n + 1)
        PROVE r[i] = IF i = 1 THEN f[i] ELSE r[i - 1] \o f[i]
    <3>1. CASE i = n + 1
      <4>1. i # 1 => r[i - 1] = q[i - 1]
        BY <3>1
      <4> QED BY <3>1, <4>1
    <3>2. CASE i # n + 1
      <4>1. i \in 1..n /\ r[i] = q[i] /\ (i # 1 => r[i - 1] = q[i - 1])
        BY <3>2
      <4> HIDE DEF r
      <4> QED BY <4>1, <2>3
    <3> QED BY <3>1, <3>2
  <2>5. r = [i \in 1..(n + 1) |-> r[i]]
    OBVIOUS
  <2> HIDE DEF r
  <2>6. IsFlat(r, f, n + 1)
    BY <2>4, <2>5 DEF IsFlat
  <2> QED BY <2>6
<1> HIDE DEF S
<1>3. Nat \subseteq S
  BY <1>1, <1>2, Induction
<1> QED BY <1>3 DEF S

\* FlattenSeq(f) is the last of a sequence of concatenations.
LEMMA FlatSteps ==
  ASSUME NEW f, Len(f) \in Nat \ {0}
  PROVE  \E q : IsFlat(q, f, Len(f)) /\ FlattenSeq(f) = q[Len(f)]
<1> DEFINE g == CHOOSE q : q = [i \in 1..Len(f) |-> IF i = 1 THEN f[i] ELSE q[i - 1] \o f[i]]
<1>1. FlattenSeq(f) = g[Len(f)]
  BY DEF FlattenSeq
<1>2. \E q : IsFlat(q, f, Len(f))
  BY FlatExists
<1>3. IsFlat(g, f, Len(f))
  BY <1>2 DEF IsFlat
<1> QED BY <1>1, <1>3

LEMMA FlatAt ==
  ASSUME NEW q, NEW f, NEW n \in Nat, IsFlat(q, f, n), NEW i \in Nat, i < n
  PROVE  q[i + 1] = IF i = 0 THEN f[i + 1] ELSE q[i] \o f[i + 1]
<1>1. i + 1 \in 1..n /\ (i + 1) - 1 = i /\ (i + 1 = 1 <=> i = 0)
  OBVIOUS
<1>2. \A k \in 1..n : q[k] = IF k = 1 THEN f[k] ELSE q[k - 1] \o f[k]
  BY DEF IsFlat
<1> QED BY <1>1, <1>2

Letter == {"/"} \cup UNION { { Spelling[n][i] : i \in DOMAIN Spelling[n] } : n \in Names }

Segment(n) == << "/" >> \o Spelling[n]

LEMMA SegmentText ==
  ASSUME NEW n \in Names
  PROVE  Spelling[n] \in Seq(Letter) /\ Segment(n) \in Seq(Letter)
<1> DEFINE L == { Spelling[n][i] : i \in DOMAIN Spelling[n] }
<1>1. Spelling[n] \in Seq(L)
  BY SpellingAssumption
<1>4. L \subseteq Letter
  BY DEF Letter
<1> HIDE DEF L
<1>2. Spelling[n] \in Seq(Letter)
  BY <1>1, <1>4, SeqMonotonic
<1>3. << "/" >> \in Seq(Letter)
  BY DEF Letter
<1> QED BY <1>2, <1>3, ConcatProperties DEF Segment

Segments(p) == [i \in DOMAIN p |-> Segment(p[i])]

LEMMA SpeltSegments == \A p : Spelt(p) = FlattenSeq(Segments(p))
BY DEF Spelt, Segments, Segment

LEMMA SegmentsText ==
  ASSUME NEW p \in Seq(Names)
  PROVE  /\ Segments(p) \in Seq(Seq(Letter))
         /\ Len(Segments(p)) = Len(p)
         /\ \A i \in 1..Len(p) : Segments(p)[i] = Segment(p[i])
<1>1. DOMAIN p = 1..Len(p) /\ Len(p) \in Nat /\ \A i \in 1..Len(p) : p[i] \in Names
  OBVIOUS
<1>2. \A i \in 1..Len(p) : Segment(p[i]) \in Seq(Letter)
  BY <1>1, SegmentText
<1> QED BY <1>1, <1>2 DEF Segments

LEMMA SpeltEmpty == Spelt(<< >>) = << >>
<1>1. Segments(<< >>) = << >>
  BY DEF Segments
<1> QED BY <1>1, SpeltSegments DEF FlattenSeq

LEMMA SpeltText ==
  ASSUME NEW p \in Seq(Names)
  PROVE  Spelt(p) \in Seq(Letter)
<1>1. CASE p = << >>
  BY <1>1, SpeltEmpty, EmptySeq
<1>2. CASE p # << >>
  <2> DEFINE f == Segments(p)
  <2>1. /\ f \in Seq(Seq(Letter)) /\ Len(f) = Len(p) /\ Len(p) \in Nat \ {0}
    BY <1>2, SegmentsText
  <2>2. PICK q : IsFlat(q, f, Len(f)) /\ Spelt(p) = q[Len(f)]
    BY <2>1, FlatSteps, SpeltSegments
  <2>3. \A i \in 1..Len(f) : f[i] \in Seq(Letter)
    BY <2>1
  <2> DEFINE S == { i \in Nat : i = 0 \/ q[i] \in Seq(Letter) }
  <2>4. ASSUME NEW i \in Nat, i < Len(f), i \in S PROVE i + 1 \in S
    <3>1. i + 1 \in 1..Len(f) /\ (i + 1) - 1 = i
      BY <2>1, <2>4
    <3>2. q[i + 1] = IF i = 0 THEN f[i + 1] ELSE q[i] \o f[i + 1]
      BY <2>1, <2>2, <2>4, FlatAt
    <3>3. i # 0 => q[i] \in Seq(Letter)
      BY <2>4
    <3>4. q[i + 1] \in Seq(Letter) /\ i + 1 \in Nat
      BY <2>3, <3>1, <3>2, <3>3, ConcatProperties
    <3> QED BY <3>4
  <2>5. 0 \in S /\ \A i \in Nat : i < Len(f) /\ i \in S => i + 1 \in S
    BY <2>4
  <2>6. Len(f) \in S
    <3> HIDE DEF S, f
    <3>1. \A i \in 0..Len(f) : i \in S
      BY <2>1, <2>5, InductionTo
    <3> QED BY <2>1, <3>1
  <2>7. q[Len(f)] \in Seq(Letter)
    BY <2>1, <2>6
  <2> QED BY <2>2, <2>7
<1> QED BY <1>1, <1>2

LEMMA Associates ==
  \A a, b, c \in Seq(Letter) : (a \o b) \o c = a \o (b \o c)
<1> TAKE a, b, c \in Seq(Letter)
<1> QED BY ConcatAssociative

\* The first element is spelt first.
LEMMA SpeltFirst ==
  ASSUME NEW p \in Seq(Names), p # << >>
  PROVE  Spelt(p) = Segment(p[1]) \o Spelt(Tail(p))
<1> DEFINE f == Segments(p)
           g == Segments(Tail(p))
<1>1. f \in Seq(Seq(Letter)) /\ Len(f) = Len(p) /\ Len(p) \in Nat \ {0}
  BY SegmentsText
<1>2. Tail(p) \in Seq(Names) /\ Len(Tail(p)) = Len(p) - 1
      /\ \A i \in 1..(Len(p) - 1) : Tail(p)[i] = p[i + 1]
  BY HeadTailProperties
<1>3. g \in Seq(Seq(Letter)) /\ Len(g) = Len(p) - 1
      /\ \A i \in 1..(Len(p) - 1) : g[i] = Segment(p[i + 1])
  BY <1>2, SegmentsText
<1>4. \A i \in 1..Len(p) : f[i] = Segment(p[i])
  BY SegmentsText
<1>5. PICK q : IsFlat(q, f, Len(p)) /\ Spelt(p) = q[Len(p)]
  BY <1>1, FlatSteps, SpeltSegments
<1> HIDE DEF f, g
<1>6. q[1] = f[1] /\ f[1] = Segment(p[1]) /\ f[1] \in Seq(Letter)
  <2>1. p[1] \in Names /\ 1 \in 1..Len(p)
    BY <1>1
  <2> QED BY <1>1, <1>4, <1>5, <2>1, SegmentText DEF IsFlat
<1>7. CASE Len(p) = 1
  <2>1. Tail(p) = << >>
    <3>1. Len(Tail(p)) = 0 /\ Tail(p) \in Seq(Names)
      BY <1>2, <1>7
    <3> QED BY <3>1, EmptySeq
  <2> QED BY <2>1, <1>5, <1>6, <1>7, SpeltEmpty, ConcatEmptySeq
<1>8. CASE Len(p) # 1
  <2> DEFINE n == Len(p) - 1
  <2>1. n \in Nat \ {0} /\ n + 1 = Len(p)
    BY <1>1, <1>8
  <2>2. PICK s : IsFlat(s, g, n) /\ Spelt(Tail(p)) = s[n]
    <3>1. Len(g) \in Nat \ {0} /\ Len(g) = n
      BY <1>3, <2>1
    <3>2. FlattenSeq(g) = Spelt(Tail(p))
      BY SpeltSegments DEF g
    <3> HIDE DEF n
    <3> QED BY <3>1, <3>2, FlatSteps
  <2>3. ASSUME NEW i \in 1..n PROVE g[i] = f[i + 1] /\ g[i] \in Seq(Letter)
    <3>1. i \in 1..(Len(p) - 1) /\ i + 1 \in 1..Len(p) /\ i \in 1..Len(g)
      BY <1>1, <1>3
    <3>2. g[i] = f[i + 1]
      BY <3>1, <1>3, <1>4
    <3>3. g[i] \in Seq(Letter)
      BY <3>1, <1>3, ElementOfSeq
    <3> QED BY <3>2, <3>3
  <2> DEFINE S == { i \in Nat : i = 0 \/ (s[i] \in Seq(Letter) /\ q[i + 1] = f[1] \o s[i]) }
  <2> HIDE DEF n
  <2>4. ASSUME NEW i \in Nat, i < n, i \in S PROVE i + 1 \in S
    <3>1. i + 1 \in 1..n /\ (i + 1) - 1 = i /\ i + 2 \in 1..Len(p) /\ (i + 2) - 1 = i + 1
          /\ (i + 1) + 1 = i + 2 /\ i + 2 # 1
      BY <2>1, <2>4
    <3>2. s[i + 1] = IF i = 0 THEN g[i + 1] ELSE s[i] \o g[i + 1]
      BY <2>1, <2>2, <2>4, FlatAt
    <3>3. q[i + 2] = q[i + 1] \o f[i + 2]
      BY <1>5, <3>1 DEF IsFlat
    <3>4. g[i + 1] = f[i + 2] /\ g[i + 1] \in Seq(Letter)
      BY <2>3, <3>1
    <3>5. s[i + 1] \in Seq(Letter) /\ q[i + 2] = f[1] \o s[i + 1]
      <4>1. CASE i = 0
        <5>1. s[i + 1] = g[i + 1] /\ q[i + 1] = f[1]
          BY <4>1, <3>2, <1>6
        <5> QED BY <5>1, <3>3, <3>4
      <4>2. CASE i # 0
        <5>1. s[i] \in Seq(Letter) /\ q[i + 1] = f[1] \o s[i]
          BY <2>4, <4>2
        <5>2. s[i + 1] = s[i] \o g[i + 1] /\ s[i + 1] \in Seq(Letter)
          BY <5>1, <4>2, <3>2, <3>4, ConcatProperties
        <5>3. (f[1] \o s[i]) \o g[i + 1] = f[1] \o (s[i] \o g[i + 1])
          <6>1. f[1] \in Seq(Letter) /\ s[i] \in Seq(Letter) /\ g[i + 1] \in Seq(Letter)
            BY <5>1, <3>4, <1>6
          <6> QED BY <6>1, Associates
        <5> QED BY <5>1, <5>2, <5>3, <3>3, <3>4
      <4> QED BY <4>1, <4>2
    <3>6. i + 1 \in Nat
      OBVIOUS
    <3> QED BY <3>1, <3>5, <3>6
  <2>5. 0 \in S /\ \A i \in Nat : i < n /\ i \in S => i + 1 \in S
    BY <2>4
  <2>6. n \in S
    <3> HIDE DEF S
    <3>1. \A i \in 0..n : i \in S
      BY <2>1, <2>5, InductionTo
    <3> QED BY <2>1, <3>1
  <2>7. q[n + 1] = f[1] \o s[n]
    BY <2>1, <2>6
  <2> QED BY <1>5, <1>6, <2>1, <2>2, <2>7
<1> QED BY <1>7, <1>8

\* A slash, and then none.
LEMMA SegmentLetters ==
  ASSUME NEW n \in Names
  PROVE  /\ Segment(n) \in Seq(Letter)
         /\ Len(Segment(n)) = Len(Spelling[n]) + 1
         /\ Len(Spelling[n]) \in Nat
         /\ Segment(n)[1] = "/"
         /\ \A i \in 1..Len(Spelling[n]) : /\ Segment(n)[i + 1] = Spelling[n][i]
                                           /\ Spelling[n][i] # "/"
<1>1. Spelling[n] \in Seq(Letter) /\ Segment(n) \in Seq(Letter)
  BY SegmentText
<1>2. << "/" >> \in Seq(Letter) /\ Len(<< "/" >>) = 1 /\ << "/" >>[1] = "/"
  BY DEF Letter
<1> DEFINE s == Spelling[n]
           t == << "/" >>
<1>3. DOMAIN s = 1..Len(s) /\ Len(s) \in Nat
  BY <1>1
<1>4. \A i \in 1..Len(s) : s[i] # "/"
  <2>1. \A i \in DOMAIN Spelling[n] : Spelling[n][i] # "/"
    BY SpellingAssumption
  <2> QED BY <2>1, <1>3
<1> HIDE DEF s, t
<1>5. /\ Len(t \o s) = 1 + Len(s)
      /\ \A i \in 1..(1 + Len(s)) : (t \o s)[i] = IF i <= 1 THEN t[i] ELSE s[i - 1]
  BY <1>1, <1>2, ConcatProperties DEF s, t
<1>6. \A i \in 1..Len(s) : (t \o s)[i + 1] = s[i]
  <2> SUFFICES ASSUME NEW i \in 1..Len(s) PROVE (t \o s)[i + 1] = s[i]
    OBVIOUS
  <2>1. i + 1 \in 1..(1 + Len(s)) /\ ~(i + 1 <= 1) /\ (i + 1) - 1 = i
    BY <1>3
  <2> QED BY <2>1, <1>5
<1>7. (t \o s)[1] = t[1]
  BY <1>3, <1>5
<1>8. Segment(n) = t \o s
  BY DEF Segment, s, t
<1> QED BY <1>1, <1>2, <1>3, <1>4, <1>5, <1>6, <1>7, <1>8 DEF s, t

\* Two segments compare by their letters, and a longer one is no prefix.
LEMMA SegmentsPrefix ==
  ASSUME NEW a \in Names, NEW b \in Names, NEW X \in Seq(Letter), NEW Y \in Seq(Letter),
         Len(X) # 0, X[1] = "/", Len(Y) # 0 => Y[1] = "/"
  PROVE  IsPrefix(Segment(a) \o X, Segment(b) \o Y) <=> a = b /\ IsPrefix(X, Y)
<1> DEFINE A == Segment(a)
           B == Segment(b)
<1>1. /\ A \in Seq(Letter) /\ B \in Seq(Letter)
      /\ Len(A) \in Nat /\ Len(B) \in Nat /\ Len(A) > 0 /\ Len(B) > 0
      /\ Len(A) = Len(Spelling[a]) + 1 /\ Len(B) = Len(Spelling[b]) + 1
  BY SegmentLetters
<1>2. /\ \A i \in 2..Len(A) : A[i] # "/"
      /\ \A i \in 2..Len(B) : B[i] # "/"
  <2>1. ASSUME NEW n \in Names, NEW i \in 2..Len(Segment(n)) PROVE Segment(n)[i] # "/"
    <3>1. i - 1 \in 1..Len(Spelling[n]) /\ (i - 1) + 1 = i
      BY SegmentLetters
    <3>2. Segment(n)[(i - 1) + 1] = Spelling[n][i - 1] /\ Spelling[n][i - 1] # "/"
      BY <3>1, SegmentLetters
    <3> QED BY <3>1, <3>2
  <2> QED BY <2>1
<1>3. Len(X) \in Nat /\ Len(Y) \in Nat /\ Len(X) > 0
  OBVIOUS
<1>a. a = b <=> A = B
  <2> SUFFICES ASSUME A = B PROVE a = b
    OBVIOUS
  <2>1. Len(Spelling[a]) = Len(Spelling[b]) /\ Len(Spelling[a]) \in Nat
    BY <1>1, SegmentLetters
  <2>2. \A i \in 1..Len(Spelling[a]) : Spelling[a][i] = Spelling[b][i]
    BY <2>1, SegmentLetters
  <2>3. Spelling[a] \in Seq(Letter) /\ Spelling[b] \in Seq(Letter)
    BY SegmentText
  <2>4. Spelling[a] = Spelling[b]
    BY <2>1, <2>2, <2>3, SeqEqual
  <2> QED BY <2>4, SpellingAssumption
<1> HIDE DEF A, B
<1>4. /\ A \o X \in Seq(Letter) /\ Len(A \o X) = Len(A) + Len(X)
      /\ \A i \in 1..(Len(A) + Len(X)) : (A \o X)[i] = IF i <= Len(A) THEN A[i] ELSE X[i - Len(A)]
  BY <1>1, ConcatProperties
<1>5. /\ B \o Y \in Seq(Letter) /\ Len(B \o Y) = Len(B) + Len(Y)
      /\ \A i \in 1..(Len(B) + Len(Y)) : (B \o Y)[i] = IF i <= Len(B) THEN B[i] ELSE Y[i - Len(B)]
  BY <1>1, ConcatProperties
<1>6. IsPrefix(A \o X, B \o Y) <=>
        /\ Len(A) + Len(X) <= Len(B) + Len(Y)
        /\ \A i \in 1..(Len(A) + Len(X)) : (A \o X)[i] = (B \o Y)[i]
  <2> DEFINE s == A \o X
             t == B \o Y
  <2>1. s \in Seq(Letter) /\ t \in Seq(Letter)
    BY <1>4, <1>5
  <2>2. Len(s) = Len(A) + Len(X) /\ Len(t) = Len(B) + Len(Y)
    BY <1>4, <1>5
  <2> HIDE DEF s, t
  <2>3. IsPrefix(s, t) <=> Len(s) <= Len(t) /\ \A i \in 1..Len(s) : s[i] = t[i]
    BY <2>1, PrefixByIndex
  <2>4. IsPrefix(s, t) <=> /\ Len(A) + Len(X) <= Len(B) + Len(Y)
                           /\ \A i \in 1..(Len(A) + Len(X)) : s[i] = t[i]
    BY <2>2, <2>3
  <2> QED BY <2>4 DEF s, t
<1>7. IsPrefix(X, Y) <=> Len(X) <= Len(Y) /\ \A i \in 1..Len(X) : X[i] = Y[i]
  BY PrefixByIndex
<1>8. ASSUME IsPrefix(A \o X, B \o Y) PROVE A = B /\ IsPrefix(X, Y)
  <2>0. /\ Len(A) + Len(X) <= Len(B) + Len(Y)
        /\ \A i \in 1..(Len(A) + Len(X)) : (A \o X)[i] = (B \o Y)[i]
    BY <1>6, <1>8
  <2>1. ASSUME Len(A) < Len(B) PROVE FALSE
    <3>1. Len(A) + 1 \in 1..(Len(A) + Len(X)) /\ Len(A) + 1 \in 1..(Len(B) + Len(Y))
          /\ Len(A) + 1 \in 2..Len(B) /\ (Len(A) + 1) - Len(A) = 1 /\ ~(Len(A) + 1 <= Len(A))
      BY <1>1, <1>3, <2>1
    <3>2. (A \o X)[Len(A) + 1] = X[1]
      BY <3>1, <1>4
    <3>3. (B \o Y)[Len(A) + 1] = B[Len(A) + 1]
      BY <3>1, <1>5
    <3> QED BY <3>1, <3>2, <3>3, <2>0, <1>2
  <2>2. ASSUME Len(A) > Len(B) PROVE FALSE
    <3>1. Len(B) + 1 \in 1..(Len(A) + Len(X)) /\ Len(B) + 1 \in 1..(Len(B) + Len(Y))
          /\ Len(B) + 1 \in 2..Len(A) /\ (Len(B) + 1) - Len(B) = 1 /\ ~(Len(B) + 1 <= Len(B))
          /\ Len(Y) # 0
      BY <1>1, <1>3, <2>0, <2>2
    <3>2. (A \o X)[Len(B) + 1] = A[Len(B) + 1]
      BY <3>1, <1>4
    <3>3. (B \o Y)[Len(B) + 1] = Y[1]
      BY <3>1, <1>5
    <3> QED BY <3>1, <3>2, <3>3, <2>0, <1>2
  <2>3. Len(A) = Len(B)
    BY <1>1, <2>1, <2>2
  <2>4. \A i \in 1..Len(A) : A[i] = B[i]
    <3> TAKE i \in 1..Len(A)
    <3>1. i \in 1..(Len(A) + Len(X)) /\ i \in 1..(Len(B) + Len(Y)) /\ i <= Len(A) /\ i <= Len(B)
      BY <1>1, <1>3, <2>3
    <3> QED BY <3>1, <1>4, <1>5, <2>0
  <2>5. A = B
    BY <1>1, <2>3, <2>4, SeqEqual
  <2>6. \A i \in 1..Len(X) : X[i] = Y[i]
    <3> TAKE i \in 1..Len(X)
    <3>1. i + Len(A) \in 1..(Len(A) + Len(X)) /\ i + Len(A) \in 1..(Len(B) + Len(Y))
          /\ ~(i + Len(A) <= Len(A)) /\ (i + Len(A)) - Len(A) = i
      BY <1>1, <1>3, <2>0, <2>3
    <3>2. (A \o X)[i + Len(A)] = X[i]
      BY <3>1, <1>4
    <3>3. (B \o Y)[i + Len(A)] = Y[i]
      BY <3>1, <1>5, <2>3
    <3> QED BY <3>1, <3>2, <3>3, <2>0
  <2>7. Len(X) <= Len(Y)
    BY <1>1, <1>3, <2>0, <2>3
  <2> QED BY <2>5, <2>6, <2>7, <1>7
<1>9. ASSUME A = B, IsPrefix(X, Y) PROVE IsPrefix(A \o X, B \o Y)
  <2>1. Len(X) <= Len(Y) /\ \A i \in 1..Len(X) : X[i] = Y[i]
    BY <1>7, <1>9
  <2>2. \A i \in 1..(Len(A) + Len(X)) : (A \o X)[i] = (B \o Y)[i]
    <3> TAKE i \in 1..(Len(A) + Len(X))
    <3>1. i \in 1..(Len(B) + Len(Y)) /\ (~(i <= Len(A)) => i - Len(A) \in 1..Len(X))
      BY <1>1, <1>3, <1>9, <2>1
    <3> QED BY <3>1, <1>4, <1>5, <1>9, <2>1
  <2> QED BY <1>1, <1>3, <1>6, <1>9, <2>1, <2>2
<1>10. IsPrefix(A \o X, B \o Y) <=> a = b /\ IsPrefix(X, Y)
  BY <1>a, <1>8, <1>9
<1> QED BY <1>10 DEF A, B

Slashed(p) == Spelt(p) \o << "/" >>

LEMMA SlashText == << "/" >> \in Seq(Letter) /\ Len(<< "/" >>) = 1 /\ << "/" >>[1] = "/"
BY DEF Letter

LEMMA SlashedFirst ==
  ASSUME NEW p \in Seq(Names), p # << >>
  PROVE  Slashed(p) = Segment(p[1]) \o Slashed(Tail(p))
<1>1. p[1] \in Names /\ Tail(p) \in Seq(Names)
  OBVIOUS
<1>2. Segment(p[1]) \in Seq(Letter) /\ Spelt(Tail(p)) \in Seq(Letter) /\ << "/" >> \in Seq(Letter)
  BY <1>1, SegmentText, SpeltText, SlashText
<1>3. Spelt(p) = Segment(p[1]) \o Spelt(Tail(p))
  BY SpeltFirst
<1> QED BY <1>2, <1>3, Associates DEF Slashed

\* Where a spelling begins.
LEMMA SpeltBegins ==
  ASSUME NEW p \in Seq(Names)
  PROVE  /\ Spelt(p) \in Seq(Letter)
         /\ Len(Spelt(p)) # 0 <=> p # << >>
         /\ p # << >> => Spelt(p)[1] = "/"
<1>1. Spelt(p) \in Seq(Letter)
  BY SpeltText
<1>2. CASE p = << >>
  <2>1. Spelt(p) = << >>
    BY <1>2, SpeltEmpty
  <2> QED BY <1>1, <1>2, <2>1
<1>3. CASE p # << >>
  <2>1. p[1] \in Names /\ Tail(p) \in Seq(Names)
    BY <1>3
  <2>a. /\ Segment(p[1]) \in Seq(Letter) /\ Segment(p[1])[1] = "/"
        /\ Len(Segment(p[1])) = Len(Spelling[p[1]]) + 1 /\ Len(Spelling[p[1]]) \in Nat
    BY <2>1, SegmentLetters
  <2>2. Segment(p[1]) \in Seq(Letter) /\ Len(Segment(p[1])) >= 1 /\ Segment(p[1])[1] = "/"
        /\ Len(Segment(p[1])) \in Nat
    BY <2>a
  <2>b. Spelt(Tail(p)) \in Seq(Letter)
    BY <2>1, SpeltText
  <2>3. Spelt(Tail(p)) \in Seq(Letter) /\ Len(Spelt(Tail(p))) \in Nat
    BY <2>b, LenProperties
  <2>4. Spelt(p) = Segment(p[1]) \o Spelt(Tail(p))
    BY <1>3, SpeltFirst
  <2> DEFINE s == Segment(p[1])
             t == Spelt(Tail(p))
  <2> HIDE DEF s, t
  <2>5. Len(s \o t) = Len(s) + Len(t) /\ (s \o t)[1] = s[1]
    <3>1. s \in Seq(Letter) /\ t \in Seq(Letter) /\ Len(s) \in Nat /\ Len(t) \in Nat /\ Len(s) >= 1
      BY <2>2, <2>3 DEF s, t
    <3> QED BY <3>1, ConcatProperties
  <2> QED BY <1>1, <1>3, <2>2, <2>3, <2>4, <2>5 DEF s, t
<1> QED BY <1>2, <1>3

LEMMA SlashedBegins ==
  ASSUME NEW p \in Seq(Names)
  PROVE  Slashed(p) \in Seq(Letter) /\ Len(Slashed(p)) # 0 /\ Slashed(p)[1] = "/"
<1>1. CASE p = << >>
  <2>1. Slashed(p) = << "/" >>
    BY <1>1, SpeltEmpty, SlashText, ConcatEmptySeq DEF Slashed
  <2> QED BY <2>1, SlashText
<1>2. CASE p # << >>
  <2> DEFINE s == Spelt(p)
             t == << "/" >>
  <2>1. s \in Seq(Letter) /\ t \in Seq(Letter) /\ Len(s) # 0 /\ s[1] = "/" /\ Len(t) = 1
    BY <1>2, SpeltBegins, SlashText
  <2> HIDE DEF s, t
  <2>3. Len(s) \in Nat /\ Len(s) > 0
    BY <2>1, LenProperties
  <2>4. /\ s \o t \in Seq(Letter) /\ Len(s \o t) = Len(s) + Len(t)
        /\ \A i \in 1..(Len(s) + Len(t)) : (s \o t)[i] = IF i <= Len(s) THEN s[i] ELSE t[i - Len(s)]
    BY <2>1, ConcatProperties
  <2>2. s \o t \in Seq(Letter) /\ Len(s \o t) = Len(s) + 1 /\ Len(s) \in Nat /\ (s \o t)[1] = s[1]
    BY <2>1, <2>3, <2>4
  <2> QED BY <2>1, <2>2 DEF s, t, Slashed
<1> QED BY <1>1, <1>2

Inside(m, c) == IsPrefix(m, c) /\ Len(m) < Len(c)

LEMMA InsideTail ==
  ASSUME NEW m \in Seq(Names), NEW c \in Seq(Names), m # << >>, c # << >>
  PROVE  Inside(m, c) <=> m[1] = c[1] /\ Inside(Tail(m), Tail(c))
<1>1. /\ Tail(m) \in Seq(Names) /\ Tail(c) \in Seq(Names)
      /\ Len(Tail(m)) = Len(m) - 1 /\ Len(Tail(c)) = Len(c) - 1
      /\ Len(m) \in Nat /\ Len(c) \in Nat /\ Len(m) > 0 /\ Len(c) > 0
  OBVIOUS
<1>2. /\ \A i \in 1..(Len(m) - 1) : Tail(m)[i] = m[i + 1]
      /\ \A i \in 1..(Len(c) - 1) : Tail(c)[i] = c[i + 1]
  BY <1>1, HeadTailProperties
<1>3. IsPrefix(m, c) <=> Len(m) <= Len(c) /\ \A i \in 1..Len(m) : m[i] = c[i]
  BY PrefixByIndex
<1> DEFINE s == Tail(m)
           t == Tail(c)
<1> HIDE DEF s, t
<1>a. s \in Seq(Names) /\ t \in Seq(Names)
  BY <1>1 DEF s, t
<1>4. IsPrefix(s, t) <=> Len(s) <= Len(t) /\ \A i \in 1..Len(s) : s[i] = t[i]
  BY <1>a, PrefixByIndex
<1>5. Len(s) = Len(m) - 1 /\ Len(t) = Len(c) - 1
  BY <1>1 DEF s, t
<1>6. ASSUME Len(m) < Len(c), \A i \in 1..Len(m) : m[i] = c[i]
      PROVE  m[1] = c[1] /\ \A i \in 1..Len(s) : s[i] = t[i]
  <2>1. m[1] = c[1]
    BY <1>1, <1>6
  <2>2. ASSUME NEW i \in 1..Len(s) PROVE s[i] = t[i]
    <3>1. i \in 1..(Len(m) - 1) /\ i \in 1..(Len(c) - 1) /\ i + 1 \in 1..Len(m)
      BY <1>1, <1>5, <1>6
    <3> QED BY <3>1, <1>2, <1>6 DEF s, t
  <2> QED BY <2>1, <2>2
<1>7. ASSUME Len(m) < Len(c), m[1] = c[1], \A i \in 1..Len(s) : s[i] = t[i]
      PROVE  \A i \in 1..Len(m) : m[i] = c[i]
  <2> TAKE i \in 1..Len(m)
  <2>1. CASE i = 1
    BY <2>1, <1>7
  <2>2. CASE i # 1
    <3>1. i - 1 \in 1..(Len(m) - 1) /\ i - 1 \in 1..(Len(c) - 1) /\ (i - 1) + 1 = i
      BY <1>1, <1>7, <2>2
    <3>2. s[i - 1] = m[(i - 1) + 1] /\ t[i - 1] = c[(i - 1) + 1]
      BY <3>1, <1>2 DEF s, t
    <3> QED BY <3>1, <3>2, <1>5, <1>7
  <2> QED BY <2>1, <2>2
<1>8. Inside(m, c) <=> m[1] = c[1] /\ Inside(s, t)
  BY <1>1, <1>3, <1>4, <1>5, <1>6, <1>7 DEF Inside
<1> QED BY <1>8 DEF s, t

LEMMA NamesPrefix ==
  \A s, t \in Seq(Names) : IsPrefix(s, t) <=> Len(s) <= Len(t) /\ \A i \in 1..Len(s) : s[i] = t[i]
<1> TAKE s, t \in Seq(Names)
<1> QED BY PrefixByIndex

LEMMA LettersPrefix ==
  \A s, t \in Seq(Letter) : IsPrefix(s, t) <=> Len(s) <= Len(t) /\ \A i \in 1..Len(s) : s[i] = t[i]
<1> TAKE s, t \in Seq(Letter)
<1> QED BY PrefixByIndex

\* A slash after it makes a prefix of letters a prefix of elements.
LEMMA SlashPrefix ==
  ASSUME NEW mm \in Seq(Names), NEW cc \in Seq(Names)
  PROVE  IsPrefix(Slashed(mm), Spelt(cc)) <=> Inside(mm, cc)
<1> DEFINE Fine == { n \in Nat : \A m, c \in Seq(Names) : Len(m) = n =>
                    (IsPrefix(Slashed(m), Spelt(c)) <=> Inside(m, c)) }
<1>1. 0 \in Fine
  <2> SUFFICES ASSUME NEW m \in Seq(Names), NEW c \in Seq(Names), Len(m) = 0
               PROVE  IsPrefix(Slashed(m), Spelt(c)) <=> Inside(m, c)
    OBVIOUS
  <2>1. m = << >>
    BY EmptySeq
  <2>2. Slashed(m) = << "/" >>
    BY <2>1, SpeltEmpty, SlashText, ConcatEmptySeq DEF Slashed
  <2>3. IsPrefix(<< "/" >>, Spelt(c)) <=> Len(Spelt(c)) # 0
    <3>1. Spelt(c) \in Seq(Letter) /\ Len(Spelt(c)) \in Nat /\ (Len(Spelt(c)) # 0 => Spelt(c)[1] = "/")
      BY SpeltBegins
    <3> DEFINE s == << "/" >>
    <3>2. s \in Seq(Letter) /\ Len(s) = 1 /\ s[1] = "/"
      BY SlashText
    <3> HIDE DEF s
    <3>4. IsPrefix(s, Spelt(c)) <=> Len(s) <= Len(Spelt(c)) /\ \A i \in 1..Len(s) : s[i] = Spelt(c)[i]
      BY <3>1, <3>2, LettersPrefix
    <3>3. IsPrefix(s, Spelt(c)) <=> Len(Spelt(c)) # 0
      BY <3>1, <3>2, <3>4
    <3> QED BY <3>3 DEF s
  <2>4. Inside(m, c) <=> c # << >>
    <3>1. IsPrefix(m, c) <=> Len(m) <= Len(c) /\ \A i \in 1..Len(m) : m[i] = c[i]
      BY NamesPrefix
    <3>2. Len(c) \in Nat /\ (Len(c) # 0 <=> c # << >>)
      BY EmptySeq
    <3> QED BY <3>1, <3>2 DEF Inside
  <2> QED BY <2>2, <2>3, <2>4, SpeltBegins
<1>2. ASSUME NEW n \in Nat, n \in Fine PROVE n + 1 \in Fine
  <2> SUFFICES ASSUME NEW m \in Seq(Names), NEW c \in Seq(Names), Len(m) = n + 1
               PROVE  IsPrefix(Slashed(m), Spelt(c)) <=> Inside(m, c)
    OBVIOUS
  <2>1. m # << >> /\ Tail(m) \in Seq(Names) /\ Len(Tail(m)) = n /\ m[1] \in Names
    OBVIOUS
  <2>2. CASE c = << >>
    <3>1. Len(Spelt(c)) = 0 /\ Len(c) = 0
      BY <2>2, SpeltBegins
    <3>2. Len(Slashed(m)) \in Nat /\ Len(Slashed(m)) # 0
      BY SlashedBegins
    <3> QED BY <3>1, <3>2 DEF IsPrefix, Inside
  <2>3. CASE c # << >>
    <3>1. Tail(c) \in Seq(Names) /\ c[1] \in Names
      BY <2>3
    <3>2. Slashed(m) = Segment(m[1]) \o Slashed(Tail(m)) /\ Spelt(c) = Segment(c[1]) \o Spelt(Tail(c))
      BY <2>1, <2>3, SlashedFirst, SpeltFirst
    <3>3. Slashed(Tail(m)) \in Seq(Letter) /\ Len(Slashed(Tail(m))) # 0 /\ Slashed(Tail(m))[1] = "/"
      BY <2>1, SlashedBegins
    <3>4. Spelt(Tail(c)) \in Seq(Letter) /\ (Len(Spelt(Tail(c))) # 0 => Spelt(Tail(c))[1] = "/")
      BY <3>1, SpeltBegins
    <3>5. IsPrefix(Slashed(m), Spelt(c)) <=> m[1] = c[1] /\ IsPrefix(Slashed(Tail(m)), Spelt(Tail(c)))
      BY <2>1, <3>1, <3>2, <3>3, <3>4, SegmentsPrefix
    <3>6. IsPrefix(Slashed(Tail(m)), Spelt(Tail(c))) <=> Inside(Tail(m), Tail(c))
      BY <1>2, <2>1, <3>1
    <3>7. Inside(m, c) <=> m[1] = c[1] /\ Inside(Tail(m), Tail(c))
      BY <2>1, <2>3, InsideTail
    <3> QED BY <3>5, <3>6, <3>7
  <2> QED BY <2>2, <2>3
<1>3. Nat \subseteq Fine
  <2> HIDE DEF Fine
  <2> QED BY <1>1, <1>2, Induction
<1>4. Len(mm) \in Fine
  BY <1>3
<1> QED BY <1>4

(***************************************************************************)
(* Below a mount                                                           *)
(***************************************************************************)

\* A prefix and the rest.
LEMMA PrefixRest ==
  ASSUME NEW s \in Seq(Names), NEW t \in Seq(Names), IsPrefix(s, t)
  PROVE  /\ SubSeq(t, Len(s) + 1, Len(t)) \in Seq(Names)
         /\ s \o SubSeq(t, Len(s) + 1, Len(t)) = t
         /\ Len(SubSeq(t, Len(s) + 1, Len(t))) = Len(t) - Len(s)
<1>1. Len(s) \in Nat /\ Len(t) \in Nat /\ Len(s) <= Len(t)
  BY DEF IsPrefix
<1>2. SubSeq(t, 1, Len(s)) = s
  BY SubSeqFull DEF IsPrefix
<1>3. SubSeq(t, 1, Len(s)) \o SubSeq(t, Len(s) + 1, Len(t)) = SubSeq(t, 1, Len(t))
  <2>1. 1 \in 1..(Len(t) + 1) /\ Len(s) \in (1 - 1)..Len(t) /\ Len(t) \in Len(s)..Len(t)
    BY <1>1
  <2> QED BY <2>1, ConcatAdjacentSubSeq
<1>4. /\ SubSeq(t, Len(s) + 1, Len(t)) \in Seq(Names)
      /\ Len(SubSeq(t, Len(s) + 1, Len(t))) = IF Len(s) + 1 <= Len(t) THEN Len(t) - (Len(s) + 1) + 1 ELSE 0
  <2>1. \A i \in (Len(s) + 1)..Len(t) : t[i] \in Names
    BY <1>1
  <2> QED BY <1>1, <2>1, SubSeqProperties
<1>5. Len(SubSeq(t, Len(s) + 1, Len(t))) = Len(t) - Len(s)
  BY <1>1, <1>4
<1> QED BY <1>2, <1>3, <1>4, <1>5, SubSeqFull

\* A prefix of full length is all.
LEMMA PrefixAll ==
  ASSUME NEW s \in Seq(Names), NEW t \in Seq(Names), IsPrefix(s, t), s # t
  PROVE  Len(s) < Len(t)
<1>1. Len(s) \in Nat /\ Len(t) \in Nat /\ Len(s) <= Len(t)
  BY DEF IsPrefix
<1>2. Len(s) = Len(t) => s = t
  BY SubSeqFull DEF IsPrefix
<1> QED BY <1>1, <1>2

LEMMA NotName == NotBelow \notin Seq(Names)
<1> SUFFICES ASSUME NotBelow \in Seq(Names) PROVE FALSE
  OBVIOUS
<1>1. Len(NotBelow) = 1 /\ NotBelow[1] = ""
  BY DEF NotBelow
<1>2. NotBelow[1] \in Names
  <2>0. 1 \in 1..1
    OBVIOUS
  <2>1. 1 \in 1..Len(NotBelow)
    BY <1>1, <2>0, Zenon
  <2> QED BY <2>1, ElementOfSeq
<1> QED BY <1>1, <1>2, SpellingAssumption

\* FS.relative: a path is below a mount exactly if its elements begin with those
\* of the mount, although letters are compared, and its name there is the rest of
\* them, so that the mount and the name make the path again.
THEOREM RelativeMeans ==
  ASSUME NEW mount \in Seq(Element), NEW p \in Seq(Element)
  PROVE  /\ relative(mount, p) # NotBelow <=> IsPrefix(Clean(mount), Clean(p))
         /\ relative(mount, p) # NotBelow =>
              /\ relative(mount, p) \in Seq(Names)
              /\ Clean(mount) \o relative(mount, p) = Clean(p)
<1> DEFINE m == Clean(mount)
           c == Clean(p)
           r == relative(mount, p)
<1>1. m \in Seq(Names) /\ c \in Seq(Names)
  BY CleanNames
<1>2. r = CASE m = << >> -> c
            [] c = m /\ m # << >> -> << >>
            [] c # m /\ m # << >> /\ IsPrefix(Slashed(m), Spelt(c)) -> SubSeq(c, Len(m) + 1, Len(c))
            [] OTHER -> NotBelow
  BY DEF relative, Slashed
<1> HIDE DEF m, c, r
<1>3. CASE m = << >>
  <2>1. r = c
    BY <1>2, <1>3
  <2>2. IsPrefix(m, c)
    <3>1. Len(m) = 0 /\ Len(c) \in Nat
      BY <1>1, <1>3
    <3>2. SubSeq(m, 1, 0) = << >> /\ SubSeq(c, 1, 0) = << >>
      BY SubSeqEmpty
    <3> QED BY <3>1, <3>2 DEF IsPrefix
  <2>3. m \o c = c
    BY <1>1, <1>3, ConcatEmptySeq
  <2> QED BY <1>1, <2>1, <2>2, <2>3, NotName DEF m, c, r
<1>4. CASE c = m /\ m # << >>
  <2>1. r = << >> /\ << >> \in Seq(Names)
    BY <1>2, <1>4, EmptySeq
  <2>2. IsPrefix(m, c)
    BY <1>1, <1>4, SubSeqFull DEF IsPrefix
  <2>3. m \o r = c
    BY <1>1, <1>4, <2>1, ConcatEmptySeq
  <2> QED BY <2>1, <2>2, <2>3, NotName DEF m, c, r
<1>5. CASE c # m /\ m # << >>
  <2>1. Inside(m, c) <=> IsPrefix(m, c)
    BY <1>1, <1>5, PrefixAll DEF Inside
  <2>2. IsPrefix(Slashed(m), Spelt(c)) <=> IsPrefix(m, c)
    BY <1>1, <2>1, SlashPrefix
  <2>3. CASE IsPrefix(m, c)
    <3>1. r = SubSeq(c, Len(m) + 1, Len(c))
      BY <1>2, <1>5, <2>2, <2>3
    <3>2. r \in Seq(Names) /\ m \o r = c
      BY <1>1, <2>3, <3>1, PrefixRest
    <3> QED BY <2>3, <3>2, NotName DEF m, c, r
  <2>4. CASE ~IsPrefix(m, c)
    <3>1. r = NotBelow
      BY <1>2, <1>5, <2>2, <2>4
    <3> QED BY <2>4, <3>1 DEF m, c, r
  <2> QED BY <2>3, <2>4
<1> QED BY <1>3, <1>4, <1>5

(***************************************************************************)
(* The invariant                                                           *)
(***************************************************************************)

IsFiles(m) == m = [p \in DOMAIN m |-> m[p]] /\ DOMAIN m \subseteq Seq(Names) \ {<< >>}

TInv ==
  /\ stage \in {"asking", "ranging", "served"}
  /\ handlers \in Mounts /\ call \in OSRequests /\ before \in Stored
  /\ at \in Nat \ {0}
  /\ files = [f \in DOMAIN before |-> files[f]]
  /\ \A f \in DOMAIN before : IsFiles(files[f])
  /\ todo \subseteq Seq(Names)

Owns(i) == i \in Owners(handlers, call.path)

\* What the handlers before the one that is asked have said, and no files moved.
Passed ==
  /\ call.name \in PathCalls => \A i \in DOMAIN handlers : i < at => ~Owns(i)
  /\ stage = "asking" => files = before

\* Who renames, and what.
Renaming ==
  /\ at \in DOMAIN handlers /\ Owns(at) /\ call.name = "rename"
  /\ Source # NotBelow /\ Target # NotBelow /\ Target # << >>

OthersKept ==
  stage # "asking" =>
    \A f \in DOMAIN before :
      call.name # "rename" \/ at \notin DOMAIN handlers \/ f # handlers[at].files => files[f] = before[f]

Says(a) ==
  /\ a # NotHandled
  /\ call.name = "resolve" => a = Ret(<< "path", Clean(call.path) >>)
  /\ call.name = "iterdir" /\ a[1] = "return" =>
       \A q \in a[2][2] : Len(q) = Len(Clean(call.path)) + 1 /\ IsPrefix(Clean(call.path), q)

\* Who answered, and what.
Resolved ==
  stage = "served" /\ call.name \in PathCalls =>
    \/ at \notin DOMAIN handlers /\ result = NotHandled /\ files = before
    \/ /\ at \in DOMAIN handlers /\ Owns(at) /\ Says(result)
       /\ call.name = "rename" /\ result = Ret(<< "nil" >>) => Renaming /\ todo = {}

\* A range that has left to visit the names in left.
Half(old, new, was, is, left) ==
  /\ \A p \in left : p \in DOMAIN was /\ Within(p, old) /\ p \in DOMAIN is /\ is[p] = was[p]
  /\ \A p \in DOMAIN was : Within(p, old) /\ p \notin left =>
       p \notin DOMAIN is /\ Moved(p, old, new) \in DOMAIN is /\ is[Moved(p, old, new)] = was[p]
  /\ \A p \in DOMAIN was : ~Within(p, old) => p \in DOMAIN is /\ (Within(p, new) \/ is[p] = was[p])
  /\ \A p \in DOMAIN is : p \in DOMAIN was \/ Within(p, new)

Apart(old, new) == ~Within(old, new) /\ ~Within(new, old)

\* Nothing is touched but what is within the two names, nested or not.
Framed(old, new, was, is, left) ==
  /\ \A p \in left : Within(p, old)
  /\ \A p \in DOMAIN was : Within(p, old) \/ Within(p, new) \/ (p \in DOMAIN is /\ is[p] = was[p])
  /\ \A p \in DOMAIN is : p \in DOMAIN was \/ Within(p, new)

HalfMoved ==
  stage = "ranging" \/ (stage = "served" /\ call.name = "rename" /\ result = Ret(<< "nil" >>)) =>
    /\ Renaming
    /\ Framed(Source, Target, before[handlers[at].files], Held, todo)
    /\ Apart(Source, Target) => Half(Source, Target, before[handlers[at].files], Held, todo)

IInv == TInv /\ Passed /\ OthersKept /\ Resolved /\ HalfMoved

(***************************************************************************)
(* What a handler says                                                     *)
(***************************************************************************)

LEMMA FailedRaises ==
  ASSUME NEW e \in {Sentinel("ENOENT"), Sentinel("ErrInvalid"), Plainly("not implemented")}
  PROVE  \E type : Failed(e) = Raise(type)
<1>1. /\ e[1] \in {"sentinel", "plain"}
      /\ e # Sentinel("ErrNotHandled")
  <2>1. e[1] \in {"sentinel", "plain"} /\ e[2] # "ErrNotHandled"
    <3>1. CASE e = Sentinel("ENOENT")
      BY <3>1 DEF Sentinel
    <3>2. CASE e = Sentinel("ErrInvalid")
      BY <3>2 DEF Sentinel
    <3>3. CASE e = Plainly("not implemented")
      BY <3>3 DEF Plainly
    <3> QED BY <3>1, <3>2, <3>3
  <2>2. Sentinel("ErrNotHandled")[2] = "ErrNotHandled"
    BY DEF Sentinel
  <2> QED BY <2>1, <2>2
<1>2. Innermost(e) = e
  BY <1>1 DEF Innermost
<1>3. As(e) = {}
  BY <1>1, <1>2 DEF As
<1>4. ~Is(e, "ErrNotHandled")
  BY <1>1, <1>2 DEF Is
<1>5. fsError(e)[1] = "exception"
  BY <1>3, <1>4 DEF fsError, Exception
<1> QED BY <1>5, Zenon DEF Failed

LEMMA RaiseIsNone ==
  ASSUME NEW type
  PROVE  /\ Raise(type) \notin {NotHandled, Ranges, Ret(<< "nil" >>)}
         /\ Raise(type)[1] # "return"
BY DEF Raise, NotHandled, Ranges, Ret

LEMMA HandlerType ==
  ASSUME TInv
  PROVE  /\ DOMAIN handlers \subseteq Nat
         /\ call.path \in Seq(Element) /\ call.dest \in Seq(Element)
         /\ call.name \in PathCalls \cup Others
         /\ \A i \in DOMAIN handlers :
              /\ handlers[i].kind \in {"nil", "fs", "env", "clock"}
              /\ handlers[i].kind = "fs" => /\ handlers[i].mount \in Seq(Element)
                                            /\ handlers[i].files \in DOMAIN before
<1>1. handlers \in Mounts /\ call \in OSRequests /\ before \in Stored
  BY DEF TInv
<1>2. handlers \in Seq({ handlers[i] : i \in DOMAIN handlers })
  BY <1>1, OSAssumption
<1>3. DOMAIN handlers \subseteq Nat
  <2> DEFINE H == { handlers[i] : i \in DOMAIN handlers }
  <2>1. handlers \in Seq(H)
    BY <1>2
  <2> HIDE DEF H
  <2>2. DOMAIN handlers = 1..Len(handlers)
    BY <2>1, LenProperties
  <2> QED BY <2>2
<1>4. \A i \in DOMAIN handlers : IsHandler(handlers[i])
  BY <1>1, OSAssumption
<1>5. call.name \in PathCalls \cup Others /\ call.path \in Seq(Element) /\ call.dest \in Seq(Element)
  BY <1>1, OSAssumption
<1> QED BY <1>1, <1>3, <1>4, <1>5 DEF IsHandler

LEMMA Owning ==
  ASSUME TInv, NEW i \in DOMAIN handlers
  PROVE  Owns(i) <=> handlers[i].kind = "fs" /\ relative(handlers[i].mount, call.path) # NotBelow
<1>1. handlers[i].kind = "fs" => handlers[i].mount \in Seq(Element)
  BY HandlerType
<1>2. call.path \in Seq(Element)
  BY HandlerType
<1>3. Owns(i) <=> handlers[i].kind = "fs" /\ IsPrefix(Clean(handlers[i].mount), Clean(call.path))
  BY DEF Owns, Owners
<1> QED BY <1>1, <1>2, <1>3, RelativeMeans

LEMMA AskedAway ==
  ASSUME TInv, NEW i \in DOMAIN handlers, ~Owns(i), call.name \in PathCalls
  PROVE  Asked(handlers[i]) = NotHandled
<1> DEFINE h == handlers[i]
<1>1. h.kind \in {"nil", "fs", "env", "clock"}
  BY HandlerType
<1>2. call.name \notin {"getenv", "get_environ", "date_today", "datetime_now"}
  BY DEF PathCalls
<1>3. CASE h.kind = "nil"
  BY <1>3 DEF Asked
<1>4. CASE h.kind = "env"
  BY <1>2, <1>4 DEF Asked, Env
<1>5. CASE h.kind = "clock"
  BY <1>2, <1>5 DEF Asked, Clock
<1>6. CASE h.kind = "fs"
  <2>1. relative(h.mount, call.path) = NotBelow
    BY <1>6, Owning
  <2>2. HandleOSCall(h, call, files[h.files]) = NotHandled
    BY <2>1 DEF HandleOSCall
  <2> QED BY <1>6, <2>2 DEF Asked
<1> QED BY <1>1, <1>3, <1>4, <1>5, <1>6

\* What a directory lists lies one element below it.
LEMMA ListedBelow ==
  ASSUME NEW mount \in Seq(Element), NEW p \in Seq(Element), relative(mount, p) # NotBelow,
         NEW r \in Seq(Names), Within(r, relative(mount, p)), r # relative(mount, p)
  PROVE  LET q == virtual(mount, SubSeq(r, 1, Len(relative(mount, p)) + 1))
         IN Len(q) = Len(Clean(p)) + 1 /\ IsPrefix(Clean(p), q)
<1> DEFINE n == relative(mount, p)
           x == SubSeq(r, 1, Len(n) + 1)
           m == Clean(mount)
           c == Clean(p)
<1>1. n \in Seq(Names) /\ m \o n = c /\ m \in Seq(Names) /\ c \in Seq(Names)
  BY RelativeMeans, CleanNames
<1>2. IsPrefix(n, r) /\ n # r
  BY DEF Within
<1> HIDE DEF n, m, c
<1>3. Len(n) < Len(r) /\ Len(n) \in Nat /\ Len(r) \in Nat /\ Len(m) \in Nat /\ Len(c) \in Nat
  <2>1. Len(n) < Len(r)
    BY <1>1, <1>2, PrefixAll
  <2> QED BY <1>1, <2>1
<1>4. /\ x \in Seq(Names) /\ Len(x) = Len(n) + 1
      /\ \A i \in 1..(Len(n) + 1) : x[i] = r[i]
  <2>1. \A i \in 1..(Len(n) + 1) : r[i] \in Names
    BY <1>3
  <2> QED BY <1>3, <2>1, SubSeqProperties
<1>5. \A i \in 1..Len(n) : n[i] = r[i]
  BY <1>1, <1>2, NamesPrefix
<1> HIDE DEF x
<1>6. virtual(mount, x) = m \o x
  BY <1>4, CleanOfNames DEF virtual, m
<1>7. /\ m \o x \in Seq(Names) /\ Len(m \o x) = Len(m) + Len(x)
      /\ \A i \in 1..(Len(m) + Len(x)) : (m \o x)[i] = IF i <= Len(m) THEN m[i] ELSE x[i - Len(m)]
  BY <1>1, <1>4, ConcatProperties
<1>8. /\ Len(c) = Len(m) + Len(n)
      /\ \A i \in 1..(Len(m) + Len(n)) : c[i] = IF i <= Len(m) THEN m[i] ELSE n[i - Len(m)]
  BY <1>1, ConcatProperties
<1>9. \A i \in 1..Len(c) : c[i] = (m \o x)[i]
  <2> SUFFICES ASSUME NEW i \in 1..Len(c) PROVE c[i] = (m \o x)[i]
    OBVIOUS
  <2>1. i \in 1..(Len(m) + Len(n)) /\ i \in 1..(Len(m) + Len(x))
        /\ (~(i <= Len(m)) => i - Len(m) \in 1..Len(n) /\ i - Len(m) \in 1..(Len(n) + 1))
    BY <1>3, <1>4, <1>8
  <2> QED BY <2>1, <1>4, <1>5, <1>7, <1>8
<1>10. Len(m \o x) = Len(c) + 1
  BY <1>3, <1>4, <1>7, <1>8
<1>11. IsPrefix(c, m \o x)
  <2>1. Len(c) <= Len(m \o x)
    BY <1>3, <1>10
  <2> QED BY <1>1, <1>7, <1>9, <2>1, NamesPrefix
<1>12. Len(virtual(mount, x)) = Len(c) + 1 /\ IsPrefix(c, virtual(mount, x))
  BY <1>6, <1>10, <1>11
<1> QED BY <1>12 DEF x, n, c

LEMMA SaysPlainly ==
  /\ \A v : Ret(v) # NotHandled /\ Ret(v) # Ranges /\ Ret(v)[1] = "return"
  /\ Ranges # NotHandled /\ Ranges[1] # "return" /\ Ranges # Ret(<< "nil" >>)
BY DEF Ret, NotHandled, Ranges

LEMMA ListingSays ==
  ASSUME NEW h, NEW m, h.mount \in Seq(Element), NEW p \in Seq(Element), IsFiles(m),
         relative(h.mount, p) # NotBelow
  PROVE  LET a == Listing(h, m, relative(h.mount, p))
         IN /\ a # NotHandled /\ a # Ranges
            /\ a[1] = "return" => \A q \in a[2][2] : Len(q) = Len(Clean(p)) + 1 /\ IsPrefix(Clean(p), q)
<1> DEFINE n == relative(h.mount, p)
           a == Listing(h, m, n)
           listed == { virtual(h.mount, SubSeq(q, 1, Len(n) + 1)) :
                       q \in { r \in DOMAIN m : Within(r, n) /\ r # n } }
<1>1. CASE Directory(m, n)
  <2>1. a = Ret(<< "paths", listed >>)
    BY <1>1 DEF Listing, Directory
  <2>2. a[2][2] = listed
    BY <2>1 DEF Ret
  <2>3. \A q \in listed : Len(q) = Len(Clean(p)) + 1 /\ IsPrefix(Clean(p), q)
    <3> SUFFICES ASSUME NEW r \in DOMAIN m, Within(r, n), r # n
                 PROVE  LET q == virtual(h.mount, SubSeq(r, 1, Len(n) + 1))
                        IN Len(q) = Len(Clean(p)) + 1 /\ IsPrefix(Clean(p), q)
      OBVIOUS
    <3>1. r \in Seq(Names)
      BY DEF IsFiles
    <3> QED BY <3>1, ListedBelow
  <2> HIDE DEF listed, a
  <2>4. a # NotHandled /\ a # Ranges
    BY <2>1, SaysPlainly
  <2> QED BY <2>2, <2>3, <2>4 DEF a
<1>2. CASE ~Directory(m, n)
  <2>1. a \in {Failed(Plainly("not implemented")), Failed(Sentinel("ENOENT"))}
    BY <1>2 DEF Listing
  <2>2. \E type : a = Raise(type)
    BY <2>1, FailedRaises
  <2> HIDE DEF a
  <2>3. a # NotHandled /\ a # Ranges /\ a[1] # "return"
    BY <2>2, RaiseIsNone
  <2> QED BY <2>3 DEF a
<1> QED BY <1>1, <1>2

LEMMA RenameSays ==
  ASSUME NEW m, NEW old, NEW new
  PROVE  \/ Rename(m, old, new) = Ranges /\ new # << >>
         \/ \E type : Rename(m, old, new) = Raise(type)
BY FailedRaises DEF Rename

LEMMA AskedHere ==
  ASSUME TInv, at \in DOMAIN handlers, Owns(at), call.name \in PathCalls
  PROVE  LET a == Asked(handlers[at])
         IN Says(a) /\ (a = Ranges => Renaming) /\ (call.name = "rename" => a # Ret(<< "nil" >>))
<1> DEFINE h == handlers[at]
           a == Asked(h)
           m == files[h.files]
           p == call.path
<1>1. /\ h.kind = "fs" /\ h.mount \in Seq(Element) /\ h.files \in DOMAIN before
      /\ p \in Seq(Element) /\ call.dest \in Seq(Element)
      /\ relative(h.mount, p) # NotBelow
  BY HandlerType, Owning
<1>2. IsFiles(m)
  BY <1>1 DEF TInv
<1>3. a = HandleOSCall(h, call, m)
  BY <1>1 DEF Asked
<1>4. call.name \in {"stat", "iterdir", "resolve", "rename"} /\ call.name \notin Others
  BY DEF PathCalls, Others
<1>5. Source = relative(h.mount, p) /\ Target = relative(h.mount, call.dest)
  BY DEF Source, Target
<1> HIDE DEF h, a, m, p
<1> SUFFICES Says(a) /\ (a = Ranges => Renaming) /\ (call.name = "rename" => a # Ret(<< "nil" >>))
  BY DEF a, h
<1>6. CASE call.name = "resolve"
  <2>1. a = Ret(<< "path", virtual(h.mount, relative(h.mount, p)) >>)
    BY <1>1, <1>3, <1>4, <1>6 DEF HandleOSCall, p
  <2>2. virtual(h.mount, relative(h.mount, p)) = Clean(p)
    BY <1>1, RelativeMeans, CleanOfNames DEF virtual
  <2> QED BY <1>6, <2>1, <2>2, SaysPlainly DEF Says, p
<1>7. CASE call.name = "iterdir"
  <2>1. a = Listing(h, m, relative(h.mount, p))
    BY <1>1, <1>3, <1>4, <1>7 DEF HandleOSCall, p
  <2>2. /\ a # NotHandled /\ a # Ranges
        /\ a[1] = "return" => \A q \in a[2][2] : Len(q) = Len(Clean(p)) + 1 /\ IsPrefix(Clean(p), q)
    BY <1>1, <1>2, <2>1, ListingSays
  <2> QED BY <1>7, <2>2 DEF Says, p
<1>8. CASE call.name = "stat"
  <2>1. \/ a = Ret(StatResult(Directory(m, relative(h.mount, p))))
        \/ a = Failed(Sentinel("ENOENT"))
    BY <1>1, <1>3, <1>4, <1>8 DEF HandleOSCall, p
  <2>2. a # NotHandled /\ a # Ranges
    BY <2>1, FailedRaises, RaiseIsNone, SaysPlainly
  <2> QED BY <1>8, <2>2 DEF Says
<1>9. CASE call.name = "rename"
  <2>1. \/ a = Raise("PermissionError")
        \/ Target # NotBelow /\ a = Rename(m, Source, Target)
    BY <1>1, <1>3, <1>4, <1>5, <1>9 DEF HandleOSCall, p
  <2>2. \/ Target # NotBelow /\ Target # << >> /\ a = Ranges
        \/ \E type : a = Raise(type)
    BY <2>1, RenameSays
  <2>3. a # NotHandled /\ a # Ret(<< "nil" >>)
    BY <2>2, RaiseIsNone, SaysPlainly
  <2>4. a = Ranges => Target # NotBelow /\ Target # << >>
    BY <2>2, RaiseIsNone
  <2> QED BY <1>1, <1>5, <1>9, <2>3, <2>4 DEF Says, Renaming
<1> QED BY <1>4, <1>6, <1>7, <1>8, <1>9

\* Only a rename ranges.
LEMMA AskedRanges ==
  ASSUME TInv, at \in DOMAIN handlers, Asked(handlers[at]) = Ranges
  PROVE  Renaming
<1> DEFINE h == handlers[at]
<1>1. CASE call.name \in PathCalls
  <2>1. CASE Owns(at)
    BY <1>1, <2>1, AskedHere
  <2>2. CASE ~Owns(at)
    BY <1>1, <2>2, AskedAway, SaysPlainly
  <2> QED BY <2>1, <2>2
<1>2. CASE call.name \in Others
  <2>1. h.kind \in {"nil", "fs", "env", "clock"}
    BY HandlerType
  <2>2. HandleOSCall(h, call, files[h.files]) = NotHandled
    BY <1>2 DEF HandleOSCall, Others
  <2>3. Env(h, call) = NotHandled \/ \E v : Env(h, call) = Ret(v)
    BY DEF Env
  <2>4. Clock(h, call) = NotHandled \/ \E v : Clock(h, call) = Ret(v)
    BY DEF Clock
  <2>5. Asked(h) = NotHandled \/ \E v : Asked(h) = Ret(v)
    BY <2>1, <2>2, <2>3, <2>4 DEF Asked
  <2> QED BY <2>5, SaysPlainly
<1> QED BY <1>1, <1>2, HandlerType

(***************************************************************************)
(* Moving names                                                            *)
(***************************************************************************)

LEMMA MovedName ==
  ASSUME NEW old \in Seq(Names), NEW new \in Seq(Names), NEW p \in Seq(Names)
  PROVE  /\ Moved(p, old, new) \in Seq(Names)
         /\ Within(Moved(p, old, new), new)
         /\ new # << >> => Moved(p, old, new) # << >>
<1> DEFINE s == SubSeq(p, Len(old) + 1, Len(p))
<1>1. s \in Seq(Names)
  <2>1. Len(old) \in Nat /\ Len(p) \in Nat /\ \A i \in (Len(old) + 1)..Len(p) : p[i] \in Names
    OBVIOUS
  <2> QED BY <2>1, SubSeqProperties
<1> HIDE DEF s
<1>2. /\ new \o s \in Seq(Names) /\ Len(new \o s) = Len(new) + Len(s)
      /\ \A i \in 1..(Len(new) + Len(s)) : (new \o s)[i] = IF i <= Len(new) THEN new[i] ELSE s[i - Len(new)]
  BY <1>1, ConcatProperties
<1>3. Len(new) \in Nat /\ Len(s) \in Nat
  BY <1>1
<1>4. IsPrefix(new, new \o s)
  <2>1. \A i \in 1..Len(new) : new[i] = (new \o s)[i]
    BY <1>2, <1>3
  <2>2. Len(new) <= Len(new \o s)
    BY <1>2, <1>3
  <2> QED BY <1>2, <2>1, <2>2, NamesPrefix
<1>5. new # << >> => new \o s # << >>
  BY <1>1, ConcatEqualIffEmpty
<1>6. Moved(p, old, new) = new \o s
  BY DEF Moved, s
<1> QED BY <1>2, <1>4, <1>5, <1>6 DEF Within

\* Two names are not moved to one.
LEMMA MovedApart ==
  ASSUME NEW old \in Seq(Names), NEW new \in Seq(Names),
         NEW p \in Seq(Names), Within(p, old), NEW q \in Seq(Names), Within(q, old),
         Moved(p, old, new) = Moved(q, old, new)
  PROVE  p = q
<1> DEFINE s == SubSeq(p, Len(old) + 1, Len(p))
           t == SubSeq(q, Len(old) + 1, Len(q))
<1>1. /\ s \in Seq(Names) /\ old \o s = p
      /\ t \in Seq(Names) /\ old \o t = q
  BY PrefixRest DEF Within
<1>2. new \o s = new \o t
  BY DEF Moved
<1> HIDE DEF s, t
<1>3. s = t
  BY <1>1, <1>2, ConcatSimplifications
<1> QED BY <1>1, <1>3

\* Nothing is within two names that are apart.
LEMMA ApartIsDisjoint ==
  ASSUME NEW old \in Seq(Names), NEW new \in Seq(Names), NEW p \in Seq(Names),
         Within(p, old), Within(p, new)
  PROVE  ~Apart(old, new)
<1>1. /\ Len(old) \in Nat /\ Len(new) \in Nat /\ Len(p) \in Nat
      /\ \A i \in 1..Len(old) : old[i] = p[i]
      /\ \A i \in 1..Len(new) : new[i] = p[i]
  BY NamesPrefix DEF Within
<1>2. CASE Len(old) <= Len(new)
  <2>1. \A i \in 1..Len(old) : old[i] = new[i]
    BY <1>1, <1>2
  <2>2. IsPrefix(old, new)
    BY <1>2, <2>1, NamesPrefix
  <2> QED BY <2>2 DEF Apart, Within
<1>3. CASE Len(new) <= Len(old)
  <2>1. \A i \in 1..Len(new) : new[i] = old[i]
    BY <1>1, <1>3
  <2>2. IsPrefix(new, old)
    BY <1>3, <2>1, NamesPrefix
  <2> QED BY <2>2 DEF Apart, Within
<1> QED BY <1>1, <1>2, <1>3

\* The files when p has been moved.
After(is, p, to) ==
  [n \in (DOMAIN is \ {p}) \cup {to} |-> IF n = to THEN is[p] ELSE is[n]]

LEMMA HalfStep ==
  ASSUME NEW old \in Seq(Names), NEW new \in Seq(Names), Apart(old, new),
         NEW was, NEW is, NEW left, DOMAIN was \subseteq Seq(Names),
         Half(old, new, was, is, left), NEW p \in left
  PROVE  /\ ~Within(Moved(p, old, new), old)
         /\ Half(old, new, was, After(is, p, Moved(p, old, new)), left \ {p})
<1> DEFINE to == Moved(p, old, new)
           aft == After(is, p, to)
<1>1. p \in DOMAIN was /\ Within(p, old) /\ p \in DOMAIN is /\ is[p] = was[p] /\ p \in Seq(Names)
  BY DEF Half
<1>2. to \in Seq(Names) /\ Within(to, new)
  BY <1>1, MovedName
<1>3. \A q \in Seq(Names) : Within(q, new) => ~Within(q, old)
  BY ApartIsDisjoint
<1>4. ~Within(to, old) /\ to # p
  BY <1>1, <1>2, <1>3
<1>5. \A q \in DOMAIN was : Within(q, old) => Within(Moved(q, old, new), new) /\ Moved(q, old, new) \in Seq(Names)
  BY MovedName
<1>6. \A q \in DOMAIN was : Within(q, old) /\ q # p => Moved(q, old, new) # to
  BY <1>1, MovedApart
<1> HIDE DEF to
<1>7. /\ DOMAIN aft = (DOMAIN is \ {p}) \cup {to}
      /\ aft[to] = is[p]
      /\ \A q \in DOMAIN is : q # p /\ q # to => q \in DOMAIN aft /\ aft[q] = is[q]
  BY DEF After
<1> HIDE DEF aft
<1>8. ASSUME NEW q \in left \ {p}
      PROVE  q \in DOMAIN was /\ Within(q, old) /\ q \in DOMAIN aft /\ aft[q] = was[q]
  <2>1. q \in DOMAIN was /\ Within(q, old) /\ q \in DOMAIN is /\ is[q] = was[q]
    BY DEF Half
  <2> QED BY <1>4, <1>7, <2>1
<1>9. ASSUME NEW q \in DOMAIN was, Within(q, old), q \notin left \ {p}
      PROVE  q \notin DOMAIN aft /\ Moved(q, old, new) \in DOMAIN aft /\ aft[Moved(q, old, new)] = was[q]
  <2>1. CASE q = p
    BY <1>1, <1>4, <1>7, <2>1 DEF to
  <2>2. CASE q # p
    <3>1. q \notin DOMAIN is /\ Moved(q, old, new) \in DOMAIN is /\ is[Moved(q, old, new)] = was[q]
      BY <1>9, <2>2 DEF Half
    <3>2. q # to /\ Moved(q, old, new) # p /\ Moved(q, old, new) # to
      BY <1>1, <1>3, <1>4, <1>5, <1>6, <1>9, <2>2
    <3> QED BY <1>7, <3>1, <3>2
  <2> QED BY <2>1, <2>2
<1>10. ASSUME NEW q \in DOMAIN was, ~Within(q, old)
       PROVE  q \in DOMAIN aft /\ (Within(q, new) \/ aft[q] = was[q])
  <2>1. q \in DOMAIN is /\ (Within(q, new) \/ is[q] = was[q]) /\ q # p
    BY <1>1, <1>10 DEF Half
  <2> QED BY <1>2, <1>7, <2>1
<1>11. ASSUME NEW q \in DOMAIN aft PROVE q \in DOMAIN was \/ Within(q, new)
  <2>1. q = to \/ q \in DOMAIN is
    BY <1>7
  <2> QED BY <1>2, <2>1 DEF Half
<1>12. Half(old, new, was, aft, left \ {p})
  BY <1>8, <1>9, <1>10, <1>11 DEF Half
<1> QED BY <1>4, <1>12 DEF aft, to

LEMMA FramedStep ==
  ASSUME NEW old \in Seq(Names), NEW new \in Seq(Names), NEW was, NEW is, NEW left,
         Framed(old, new, was, is, left), NEW p \in left, p \in Seq(Names),
         NEW seen, \A q \in seen : Within(q, old)
  PROVE  Framed(old, new, was, After(is, p, Moved(p, old, new)), (left \ {p}) \cup seen)
<1> DEFINE to == Moved(p, old, new)
           aft == After(is, p, to)
<1>1. Within(p, old) /\ Within(to, new)
  BY MovedName DEF Framed
<1> HIDE DEF to
<1>2. /\ DOMAIN aft = (DOMAIN is \ {p}) \cup {to}
      /\ \A q \in DOMAIN is : q # p /\ q # to => q \in DOMAIN aft /\ aft[q] = is[q]
  BY DEF After
<1> HIDE DEF aft
<1>3. \A q \in (left \ {p}) \cup seen : Within(q, old)
  BY DEF Framed
<1>4. ASSUME NEW q \in DOMAIN was, ~Within(q, old), ~Within(q, new)
      PROVE  q \in DOMAIN aft /\ aft[q] = was[q]
  <2>1. q \in DOMAIN is /\ is[q] = was[q] /\ q # p /\ q # to
    BY <1>1, <1>4 DEF Framed
  <2> QED BY <1>2, <2>1
<1>5. \A q \in DOMAIN aft : q \in DOMAIN was \/ Within(q, new)
  BY <1>1, <1>2 DEF Framed
<1>6. Framed(old, new, was, aft, (left \ {p}) \cup seen)
  BY <1>3, <1>4, <1>5 DEF Framed
<1> QED BY <1>6 DEF aft, to

(***************************************************************************)
(* The invariant holds                                                     *)
(***************************************************************************)

LEMMA InitIInv == OSInit => IInv
<1> SUFFICES ASSUME OSInit PROVE IInv
  OBVIOUS
<1>1. TInv
  <2>1. before \in Stored /\ files = before
    BY DEF OSInit
  <2>2. \A f \in DOMAIN before : IsFiles(files[f])
    BY <2>1, OSAssumption DEF IsFiles
  <2>3. before = [f \in DOMAIN before |-> before[f]]
    BY <2>1, OSAssumption
  <2> QED BY <2>1, <2>2, <2>3 DEF OSInit, TInv
<1>2. Passed
  <2>1. at = 1 /\ DOMAIN handlers \subseteq Nat /\ files = before
    BY <1>1, HandlerType DEF OSInit
  <2>2. \A i \in DOMAIN handlers : ~(i < at)
    <3>1. handlers \in Seq({ handlers[i] : i \in DOMAIN handlers })
      BY OSAssumption DEF OSInit
    <3> DEFINE H == { handlers[i] : i \in DOMAIN handlers }
    <3>2. handlers \in Seq(H)
      BY <3>1
    <3> HIDE DEF H
    <3>3. DOMAIN handlers = 1..Len(handlers) /\ Len(handlers) \in Nat
      BY <3>2, LenProperties
    <3> QED BY <2>1, <3>3
  <2> QED BY <2>1, <2>2 DEF Passed
<1>3. stage = "asking"
  BY DEF OSInit
<1> QED BY <1>1, <1>2, <1>3 DEF IInv, OthersKept, Resolved, HalfMoved

\* The call, the handlers and the one that is asked stay.
Stays == handlers' = handlers /\ call' = call /\ before' = before

LEMMA SameOwners ==
  ASSUME Stays
  PROVE  /\ \A i : Owns(i)' <=> Owns(i)
         /\ at' = at => /\ Source' = Source /\ Target' = Target /\ (Renaming' <=> Renaming)
                       /\ handlers'[at'].files = handlers[at].files
<1>1. \A i : Owns(i)' <=> Owns(i)
  BY DEF Stays, Owns, Owners
<1>2. at' = at => Source' = Source /\ Target' = Target
  BY DEF Stays, Source, Target
<1>3. at' = at => (Renaming' <=> Renaming)
  <2> SUFFICES ASSUME at' = at PROVE Renaming' <=> Renaming
    OBVIOUS
  <2>1. Owns(at)' <=> Owns(at)
    BY DEF Stays, Owns, Owners
  <2> QED BY <1>2, <2>1 DEF Renaming, Stays
<1> QED BY <1>1, <1>2, <1>3 DEF Stays

LEMMA PassOverKeeps == IInv /\ PassOver => IInv'
<1> SUFFICES ASSUME IInv, PassOver PROVE IInv'
  OBVIOUS
<1>1. /\ TInv /\ Stays /\ at \in DOMAIN handlers /\ stage = "asking" /\ stage' = stage
      /\ at' = at + 1 /\ files' = files /\ todo' = todo /\ result' = result
      /\ Asked(handlers[at]) = NotHandled
  BY DEF IInv, PassOver, Asking, Serving, Stays
<1>2. TInv'
  BY <1>1 DEF TInv, Stays
<1>3. call.name \in PathCalls => ~Owns(at)
  BY <1>1, AskedHere DEF Says
<1>4. call.name \in PathCalls => \A i \in DOMAIN handlers : i < at + 1 => ~Owns(i)
  <2>1. DOMAIN handlers \subseteq Nat /\ at \in Nat
    BY <1>1, HandlerType
  <2>2. \A i \in DOMAIN handlers : i < at + 1 => i < at \/ i = at
    BY <2>1
  <2> QED BY <1>3, <2>2 DEF IInv, Passed
<1>5. Passed'
  <2>1. \A i : Owns(i)' <=> Owns(i)
    BY <1>1, SameOwners
  <2>2. files = before
    BY <1>1 DEF IInv, Passed
  <2> QED BY <1>1, <1>4, <2>1, <2>2 DEF Passed, Stays
<1>6. OthersKept' /\ Resolved' /\ HalfMoved'
  BY <1>1 DEF OthersKept, Resolved, HalfMoved
<1> QED BY <1>2, <1>5, <1>6 DEF IInv

LEMMA AnswerKeeps == IInv /\ Answer => IInv'
<1> SUFFICES ASSUME IInv, Answer PROVE IInv'
  OBVIOUS
<1>1. /\ TInv /\ Stays /\ at \in DOMAIN handlers /\ stage = "asking" /\ stage' = "served"
      /\ at' = at /\ files' = files /\ todo' = todo
      /\ result' = Asked(handlers[at]) /\ result' # NotHandled
  BY DEF IInv, Answer, Asking, Serving, Serve, Stays
<1>2. TInv'
  BY <1>1 DEF TInv, Stays
<1>3. \A i : Owns(i)' <=> Owns(i)
  BY <1>1, SameOwners
<1>4. files = before /\ (call.name \in PathCalls => \A i \in DOMAIN handlers : i < at => ~Owns(i))
  BY <1>1 DEF IInv, Passed
<1>5. Passed'
  BY <1>1, <1>3, <1>4 DEF Passed, Stays
<1>6. OthersKept'
  BY <1>1, <1>4 DEF OthersKept, Stays
<1>7. call.name \in PathCalls =>
        Owns(at) /\ Says(result') /\ (call.name = "rename" => result' # Ret(<< "nil" >>))
  BY <1>1, AskedHere, AskedAway
<1>8. Resolved'
  <2>1. Says(result)' <=> Says(result')
    BY <1>1 DEF Says, Stays
  <2>2. Owns(at)' <=> Owns(at)
    BY <1>1 DEF Owns, Owners, Stays
  <2> QED BY <1>1, <1>7, <2>1, <2>2 DEF Resolved, Stays
<1>9. HalfMoved'
  BY <1>1, <1>7 DEF HalfMoved, Stays, PathCalls
<1> QED BY <1>2, <1>5, <1>6, <1>8, <1>9 DEF IInv

LEMMA ExhaustedKeeps == IInv /\ Exhausted => IInv'
<1> SUFFICES ASSUME IInv, Exhausted PROVE IInv'
  OBVIOUS
<1>1. /\ TInv /\ Stays /\ at \notin DOMAIN handlers /\ stage = "asking" /\ stage' = "served"
      /\ at' = at /\ files' = files /\ todo' = todo /\ result' = NotHandled
  BY DEF IInv, Exhausted, Serving, Serve, Stays
<1>2. TInv'
  BY <1>1 DEF TInv, Stays
<1>3. \A i : Owns(i)' <=> Owns(i)
  BY <1>1, SameOwners
<1>4. files = before /\ (call.name \in PathCalls => \A i \in DOMAIN handlers : i < at => ~Owns(i))
  BY <1>1 DEF IInv, Passed
<1>5. Passed'
  BY <1>1, <1>3, <1>4 DEF Passed, Stays
<1>6. OthersKept'
  BY <1>1, <1>4 DEF OthersKept, Stays
<1>7. Resolved'
  BY <1>1, <1>4 DEF Resolved, Stays
<1>8. HalfMoved'
  BY <1>1, SaysPlainly DEF HalfMoved
<1> QED BY <1>2, <1>5, <1>6, <1>7, <1>8 DEF IInv

LEMMA Renames ==
  ASSUME TInv, Renaming
  PROVE  /\ Source \in Seq(Names) /\ Target \in Seq(Names)
         /\ handlers[at].files \in DOMAIN before
         /\ IsFiles(Held)
<1>1. /\ handlers[at].kind = "fs" /\ handlers[at].mount \in Seq(Element)
      /\ handlers[at].files \in DOMAIN before
      /\ call.path \in Seq(Element) /\ call.dest \in Seq(Element)
  BY HandlerType, Owning DEF Renaming
<1>2. Source \in Seq(Names) /\ Target \in Seq(Names)
  BY <1>1, RelativeMeans DEF Renaming, Source, Target
<1>3. IsFiles(Held)
  BY <1>1 DEF TInv, Held
<1> QED BY <1>1, <1>2, <1>3

LEMMA BeginRangeKeeps == IInv /\ BeginRange => IInv'
<1> SUFFICES ASSUME IInv, BeginRange PROVE IInv'
  OBVIOUS
<1> DEFINE left == { p \in DOMAIN Held : Source # << >> /\ Within(p, Source) }
<1>1. /\ TInv /\ Stays /\ at \in DOMAIN handlers /\ stage = "asking" /\ stage' = "ranging"
      /\ at' = at /\ files' = files /\ todo' = left /\ result' = result
      /\ Asked(handlers[at]) = Ranges
  BY DEF IInv, BeginRange, Asking, Serving, Stays
<1>2. Renaming
  BY <1>1, AskedRanges
<1>3. Source \in Seq(Names) /\ Target \in Seq(Names) /\ IsFiles(Held)
  BY <1>1, <1>2, Renames
<1>4. TInv'
  <2>1. left \subseteq Seq(Names)
    BY <1>3 DEF IsFiles
  <2> HIDE DEF left
  <2> QED BY <1>1, <2>1 DEF TInv, Stays
<1>5. \A i : Owns(i)' <=> Owns(i)
  BY <1>1, SameOwners
<1>6. files = before /\ (call.name \in PathCalls => \A i \in DOMAIN handlers : i < at => ~Owns(i))
  BY <1>1 DEF IInv, Passed
<1>7. Passed'
  BY <1>1, <1>5, <1>6 DEF Passed, Stays
<1>8. OthersKept'
  BY <1>1, <1>6 DEF OthersKept, Stays
<1>9. Resolved'
  BY <1>1 DEF Resolved
<1>10. HalfMoved'
  <2>1. Held = before[handlers[at].files] /\ Held' = Held
    BY <1>1, <1>6 DEF Held, Stays
  <2>2. Apart(Source, Target) => Half(Source, Target, before[handlers[at].files], Held, left)
    <3> SUFFICES ASSUME Apart(Source, Target)
                 PROVE  Half(Source, Target, Held, Held, left)
      BY <2>1
    <3>1. Source # << >>
      <4> SUFFICES ASSUME Source = << >> PROVE FALSE
        OBVIOUS
      <4>1. Len(Source) = 0 /\ Len(Target) \in Nat
        BY <1>3
      <4>2. SubSeq(Source, 1, 0) = << >> /\ SubSeq(Target, 1, 0) = << >>
        BY SubSeqEmpty
      <4>3. IsPrefix(Source, Target)
        BY <4>1, <4>2 DEF IsPrefix
      <4> QED BY <4>3 DEF Apart, Within
    <3> QED BY <3>1 DEF Half
  <2>3. Framed(Source, Target, before[handlers[at].files], Held, left)
    <3>1. Framed(Source, Target, Held, Held, left)
      BY DEF Framed
    <3> QED BY <2>1, <3>1
  <2> HIDE DEF left
  <2>4. Renaming' /\ Source' = Source /\ Target' = Target /\ handlers'[at'].files = handlers[at].files
    BY <1>1, <1>2, SameOwners
  <2> QED BY <1>1, <2>1, <2>2, <2>3, <2>4 DEF HalfMoved, Stays
<1> QED BY <1>4, <1>7, <1>8, <1>9, <1>10 DEF IInv

LEMMA VisitKeeps == IInv /\ Visit => IInv'
<1> SUFFICES ASSUME IInv, Visit PROVE IInv'
  OBVIOUS
<1> DEFINE F == handlers[at].files
           is == Held
<1>1. /\ TInv /\ Stays /\ stage = "ranging" /\ stage' = stage /\ at' = at /\ result' = result
  BY DEF IInv, Visit, Serving, Stays
<1>2. /\ Renaming
      /\ Framed(Source, Target, before[F], is, todo)
      /\ Apart(Source, Target) => Half(Source, Target, before[F], is, todo)
  BY <1>1 DEF IInv, HalfMoved
<1>3. Source \in Seq(Names) /\ Target \in Seq(Names) /\ F \in DOMAIN before /\ IsFiles(is)
  BY <1>1, <1>2, Renames
<1>3a. PICK p \in todo :
        /\ files' = [files EXCEPT ![F] = After(is, p, Moved(p, Source, Target))]
        /\ \E seen : /\ todo' = (todo \ {p}) \cup seen
                     /\ seen \subseteq { q \in {Moved(p, Source, Target)} : Within(q, Source) }
  BY Zenon DEF Visit, After
<1>4. PICK seen :
        /\ files' = [files EXCEPT ![F] = After(is, p, Moved(p, Source, Target))]
        /\ todo' = (todo \ {p}) \cup seen
        /\ seen \subseteq { q \in {Moved(p, Source, Target)} : Within(q, Source) }
  BY <1>3a, Zenon
<1> DEFINE to == Moved(p, Source, Target)
<1>5. p \in Seq(Names)
  BY <1>1 DEF TInv
<1> HIDE DEF is
<1>6. to \in Seq(Names) /\ to # << >>
  BY <1>2, <1>3, <1>5, MovedName DEF Renaming
<1> HIDE DEF to
<1>7. IsFiles(After(is, p, to))
  <2> DEFINE a == After(is, p, to)
  <2>1. a = [n \in DOMAIN a |-> a[n]] /\ DOMAIN a = (DOMAIN is \ {p}) \cup {to}
    BY DEF After
  <2>2. DOMAIN is \subseteq Seq(Names) \ {<< >>}
    BY <1>3 DEF IsFiles
  <2> HIDE DEF a
  <2>3. IsFiles(a)
    BY <1>6, <2>1, <2>2 DEF IsFiles
  <2> QED BY <2>3 DEF a
<1>8. /\ files' = [f \in DOMAIN before |-> files'[f]]
      /\ files'[F] = After(is, p, to)
      /\ \A f \in DOMAIN before : f # F => files'[f] = files[f]
  <2>1. files = [f \in DOMAIN before |-> files[f]]
    BY <1>1 DEF TInv
  <2> HIDE DEF F
  <2> QED BY <1>3, <1>4, <2>1 DEF to
<1>9. TInv'
  <2>1. todo' \subseteq Seq(Names)
    BY <1>1, <1>4, <1>6 DEF TInv, to
  <2>2. \A f \in DOMAIN before : IsFiles(files'[f])
    BY <1>1, <1>7, <1>8 DEF TInv
  <2> QED BY <1>1, <1>8, <2>1, <2>2 DEF TInv, Stays
<1>10. Passed'
  <2>1. \A i : Owns(i)' <=> Owns(i)
    BY <1>1, SameOwners
  <2>2. call.name \in PathCalls => \A i \in DOMAIN handlers : i < at => ~Owns(i)
    BY DEF IInv, Passed
  <2> QED BY <1>1, <2>1, <2>2 DEF Passed, Stays
<1>11. OthersKept'
  <2>1. \A f \in DOMAIN before : f # F => files[f] = before[f]
    BY <1>1 DEF IInv, OthersKept
  <2>2. call.name = "rename" /\ at \in DOMAIN handlers
    BY <1>2 DEF Renaming
  <2> QED BY <1>1, <1>8, <2>1, <2>2 DEF OthersKept, Stays
<1>12. Resolved'
  BY <1>1 DEF Resolved
<1>13. HalfMoved'
  <2>1. Held' = After(is, p, to)
    BY <1>1, <1>8 DEF Held, Stays
  <2>2. Renaming' /\ Source' = Source /\ Target' = Target /\ handlers'[at'].files = F
    BY <1>1, <1>2, SameOwners
  <2>3. ASSUME Apart(Source, Target)
        PROVE  Half(Source, Target, before[F], After(is, p, to), todo')
    <3>1. DOMAIN before[F] \subseteq Seq(Names)
      BY <1>1, <1>3, OSAssumption DEF TInv
    <3>2. ~Within(to, Source) /\ Half(Source, Target, before[F], After(is, p, to), todo \ {p})
      BY <1>2, <1>3, <2>3, <3>1, HalfStep DEF to
    <3>3. todo' = todo \ {p}
      BY <1>4, <3>2 DEF to
    <3> QED BY <3>2, <3>3
  <2>4. Framed(Source, Target, before[F], After(is, p, to), todo')
    <3>1. \A q \in seen : Within(q, Source)
      BY <1>4
    <3>2. Framed(Source, Target, before[F], After(is, p, to), (todo \ {p}) \cup seen)
      BY <1>2, <1>3, <1>5, <3>1, FramedStep DEF to
    <3> QED BY <1>4, <3>2
  <2> HIDE DEF F
  <2> QED BY <1>1, <2>1, <2>2, <2>3, <2>4 DEF HalfMoved, Stays
<1> QED BY <1>9, <1>10, <1>11, <1>12, <1>13 DEF IInv

LEMMA EndRangeKeeps == IInv /\ EndRange => IInv'
<1> SUFFICES ASSUME IInv, EndRange PROVE IInv'
  OBVIOUS
<1>1. /\ TInv /\ Stays /\ stage = "ranging" /\ stage' = "served" /\ todo = {}
      /\ at' = at /\ files' = files /\ todo' = todo /\ result' = Ret(<< "nil" >>)
  BY DEF IInv, EndRange, Serving, Serve, Stays
<1>2. /\ Renaming
      /\ Framed(Source, Target, before[handlers[at].files], Held, todo)
      /\ Apart(Source, Target) => Half(Source, Target, before[handlers[at].files], Held, todo)
  BY <1>1 DEF IInv, HalfMoved
<1>3. TInv'
  BY <1>1 DEF TInv, Stays
<1>4. Passed'
  <2>1. \A i : Owns(i)' <=> Owns(i)
    BY <1>1, SameOwners
  <2>2. call.name \in PathCalls => \A i \in DOMAIN handlers : i < at => ~Owns(i)
    BY DEF IInv, Passed
  <2> QED BY <1>1, <2>1, <2>2 DEF Passed, Stays
<1>5. OthersKept'
  <2>1. \A f \in DOMAIN before : call.name # "rename" \/ at \notin DOMAIN handlers \/ f # handlers[at].files
          => files[f] = before[f]
    BY <1>1 DEF IInv, OthersKept
  <2> QED BY <1>1, <2>1 DEF OthersKept, Stays
<1>6. Renaming' /\ Source' = Source /\ Target' = Target /\ handlers'[at'].files = handlers[at].files
  BY <1>1, <1>2, SameOwners
<1>7. Resolved'
  <2>1. Owns(at)' <=> Owns(at)
    BY <1>1 DEF Owns, Owners, Stays
  <2>2. Owns(at) /\ at \in DOMAIN handlers /\ call.name = "rename"
    BY <1>2 DEF Renaming
  <2>3. Says(result)'
    BY <1>1, <2>2, SaysPlainly DEF Says, Stays
  <2> QED BY <1>1, <1>6, <2>1, <2>2, <2>3 DEF Resolved, Stays
<1>8. HalfMoved'
  <2>1. Held' = Held
    BY <1>1 DEF Held, Stays
  <2> QED BY <1>1, <1>2, <1>6, <2>1 DEF HalfMoved, Stays
<1> QED BY <1>3, <1>4, <1>5, <1>7, <1>8 DEF IInv

LEMMA StepIInv == IInv /\ [OSNext]_osVars => IInv'
<1>1. CASE OSNext
  BY <1>1, PassOverKeeps, AnswerKeeps, ExhaustedKeeps, BeginRangeKeeps, VisitKeeps, EndRangeKeeps
  DEF OSNext
<1>2. CASE UNCHANGED osVars
  <2> SUFFICES ASSUME IInv, UNCHANGED osVars PROVE IInv'
    BY <1>2
  <2>1. /\ Stays /\ stage' = stage /\ at' = at /\ files' = files /\ todo' = todo /\ result' = result
    BY DEF osVars, Stays
  <2>2. TInv'
    BY <2>1 DEF IInv, TInv, Stays
  <2>3. Passed' /\ OthersKept'
    BY <2>1, SameOwners DEF IInv, Passed, OthersKept, Stays
  <2>4. Source' = Source /\ Target' = Target /\ (Renaming' <=> Renaming) /\ Held' = Held
    BY <2>1, SameOwners DEF Held, Stays
  <2>5. (Owns(at)' <=> Owns(at)) /\ (Says(result)' <=> Says(result))
    BY <2>1 DEF Owns, Owners, Says, Stays
  <2>6. Resolved' /\ HalfMoved'
    BY <2>1, <2>4, <2>5 DEF IInv, Resolved, HalfMoved, Stays
  <2> QED BY <2>2, <2>3, <2>6 DEF IInv
<1> QED BY <1>1, <1>2

\* The inductive invariant.
THEOREM Safe == OSSpec => []IInv
<1>1. OSInit => IInv
  BY InitIInv
<1>2. IInv /\ [OSNext]_osVars => IInv'
  BY StepIInv
<1> QED BY <1>1, <1>2, PTL DEF OSSpec

\* Who answered is the first that owns the path.
LEMMA FirstOwner ==
  ASSUME IInv, call.name \in PathCalls, at \in DOMAIN handlers, Owns(at)
  PROVE  Owner = handlers[at]
<1> DEFINE O == Owners(handlers, call.path)
<1>1. at \in O /\ O \subseteq Nat
  BY HandlerType DEF IInv, Owns, Owners
<1>2. \A i \in O : ~(i < at)
  BY DEF IInv, Passed, Owns, Owners
<1> HIDE DEF O
<1>3. \A i \in O : at <= i
  BY <1>1, <1>2
<1>4. FirstOf(O) \in O /\ \A j \in O : FirstOf(O) <= j
  <2>1. \E i \in O : \A j \in O : i <= j
    BY <1>1, <1>3
  <2> QED BY <2>1, Zenon DEF FirstOf
<1>5. FirstOf(O) = at
  BY <1>1, <1>3, <1>4
<1> QED BY <1>5 DEF Owner, O

LEMMA IInvRoutes == IInv => RoutingAgrees
<1> SUFFICES ASSUME IInv, stage = "served", call.name \in PathCalls PROVE RoutingAgrees
  BY DEF RoutingAgrees
<1>1. CASE at \notin DOMAIN handlers /\ result = NotHandled /\ files = before
  <2>1. Owners(handlers, call.path) = {}
    <3> SUFFICES ASSUME NEW i \in Owners(handlers, call.path) PROVE FALSE
      OBVIOUS
    <3>1. i \in DOMAIN handlers /\ Owns(i)
      BY DEF Owners, Owns
    <3>2. ~(i < at)
      BY <3>1 DEF IInv, Passed
    <3> DEFINE H == { handlers[k] : k \in DOMAIN handlers }
    <3>3. handlers \in Seq(H) /\ at \in Nat \ {0}
      BY OSAssumption DEF IInv, TInv
    <3> HIDE DEF H
    <3>4. DOMAIN handlers = 1..Len(handlers) /\ Len(handlers) \in Nat
      BY <3>3, LenProperties
    <3> QED BY <1>1, <3>1, <3>2, <3>3, <3>4
  <2> QED BY <1>1, <2>1 DEF RoutingAgrees
<1>2. CASE at \in DOMAIN handlers /\ Owns(at) /\ Says(result)
  <2>1. Owner = handlers[at]
    BY <1>2, FirstOwner
  <2>2. Owners(handlers, call.path) # {}
    BY <1>2 DEF Owns
  <2>3. \A f \in DOMAIN before : f # Owner.files \/ call.name # "rename" => files[f] = before[f]
    BY <2>1 DEF IInv, OthersKept
  <2> QED BY <1>2, <2>2, <2>3 DEF RoutingAgrees, Says
<1> QED BY <1>1, <1>2 DEF IInv, Resolved

\* A call about a path is answered by the first mount that the path lies in, by
\* its elements although letters are compared, and by no other, and no other
\* mount changes: FS.relative and Handlers, for any names, mounts and calls.
THEOREM Routed == OSSpec => []RoutingAgrees
BY Safe, IInvRoutes, PTL

LEMMA IInvMoves == IInv => RenameMoves
<1> SUFFICES ASSUME IInv, stage = "served", call.name = "rename", result = Ret(<< "nil" >>)
             PROVE  RenameMoves
  BY DEF RenameMoves
<1>1. /\ Renaming /\ todo = {}
      /\ Framed(Source, Target, before[handlers[at].files], Held, todo)
      /\ Apart(Source, Target) => Half(Source, Target, before[handlers[at].files], Held, todo)
  <2>1. Renaming
    BY DEF IInv, HalfMoved
  <2>2. at \in DOMAIN handlers /\ call.name \in PathCalls
    BY <2>1 DEF Renaming, PathCalls
  <2> QED BY <2>1, <2>2 DEF IInv, HalfMoved, Resolved
<1>2. Owner = handlers[at]
  <2>1. call.name \in PathCalls
    BY DEF PathCalls
  <2> QED BY <1>1, <2>1, FirstOwner DEF Renaming
<1>3. Source = relative(Owner.mount, call.path) /\ Target = relative(Owner.mount, call.dest)
      /\ Held = files[Owner.files]
  BY <1>2 DEF Source, Target, Held
<1>4. Apart(Source, Target) => Half(Source, Target, before[Owner.files], files[Owner.files], {})
  BY <1>1, <1>2, <1>3
<1>5. Framed(Source, Target, before[Owner.files], files[Owner.files], {})
  BY <1>1, <1>2, <1>3
<1> QED BY <1>3, <1>4, <1>5 DEF RenameMoves, Apart, Half, Framed, Moved

\* MemFS.Rename takes all that was at a name to the other one and touches
\* nothing else, in whatever order its range visits the map that it changes; if
\* one name lies below the other, nothing that is below neither.
THEOREM Moves == OSSpec => []RenameMoves
BY Safe, IInvMoves, PTL

(***************************************************************************)
(* A host call from end to end                                             *)
(***************************************************************************)

\* An OS call that no handler has been asked about.
Fresh ==
  /\ stage = "idle" /\ at = 1 /\ todo = {} /\ result = None
  /\ event.kind = "os" => handlers \in Mounts /\ before \in Stored /\ files = before

\* What came of a lookup.
LookedUp ==
  event.kind = "apply" =>
    /\ event.of \in Definition
    /\ LET a == resolveLookup(event.of) IN
       IF a[1] = "value" THEN event.value = a[2] ELSE event.value = "none" /\ answer = a

\* The answer is the one that the function, the value or the error stands for.
Faithful ==
  /\ Answered("echo") => answer = echo(event.value)
  /\ Answered("tool") => answer = CallTool(event, arch)
  /\ Answered("raise") => answer = callError(event.error, event.by)
  /\ Answered("apply") /\ event.value \in {"own", "class", "abstract", "plain"} =>
       answer = IF event.value = "own" THEN resolveCall(event.of)
                ELSE IF event.value = "plain" THEN Raise("TypeError") ELSE CallValue(event.value)

CallInv ==
  /\ event.kind # "apply" => event \in Requests
  /\ Fresh \/ IInv
  /\ LookedUp
  /\ Faithful

\* The requests of a kind.
LEMMA RequestsAre ==
  ASSUME NEW e \in Requests
  PROVE  /\ e.kind # "apply"
         /\ e.kind = "echo" => e.value \in Echoed
         /\ e.kind = "tool" => \E c \in Calls : e.tool = c.tool /\ e.args = c.args /\ e.kwargs = c.kwargs
         /\ e.kind = "lookup" => e.of \in Definition /\ e = [ kind |-> "lookup", of |-> e.of ]
         /\ e.kind = "os" => e.asked \in Asks
BY DEF Requests

LEMMA InitCallInv == Init => CallInv
<1> SUFFICES ASSUME Init PROVE CallInv
  OBVIOUS
<1>1. event \in Requests /\ event.kind # "apply"
  BY RequestsAre DEF Init
<1>2. Fresh
  BY DEF Init, Fresh
<1>3. LookedUp /\ Faithful
  BY <1>1 DEF LookedUp, Faithful, Answered, Init
<1> QED BY <1>1, <1>2, <1>3 DEF CallInv

\* Every action but those of the handlers leaves them alone.
LEMMA Unasked ==
  ASSUME CallInv, UNCHANGED << event, osVars >>
  PROVE  (Fresh \/ IInv)'
<1>1. CASE Fresh
  BY <1>1 DEF Fresh, osVars
<1>2. CASE IInv
  BY <1>2, StepIInv
<1> QED BY <1>1, <1>2 DEF CallInv

\* What a lookup gives.
LEMMA LookupIs ==
  ASSUME NEW d \in Definition
  PROVE  /\ d.sync \/ d.async => resolveLookup(d) = << "value", "own" >>
         /\ ~d.sync /\ ~d.async /\ d.value = "unsupported" => resolveLookup(d) = Raise("TypeError")
         /\ ~d.sync /\ ~d.async /\ d.value = "none" => resolveLookup(d) = Raise("NameError")
         /\ ~d.sync /\ ~d.async /\ d.value \notin {"unsupported", "none"} =>
              resolveLookup(d) = << "value", d.value >>
BY DEF resolveLookup, Definition

LEMMA CallIs ==
  ASSUME NEW d \in Definition, ~d.sync, ~d.async
  PROVE  /\ d.value \in {"class", "abstract"} => resolveCall(d) = CallValue(d.value)
         /\ d.value \notin {"none", "class", "abstract"} => resolveCall(d) = Raise("TypeError")
         /\ d.value = "none" => resolveCall(d) = Raise("NameError")
BY DEF resolveCall, Definition

LEMMA RaisesAre ==
  ASSUME NEW type
  PROVE  Raise(type)[1] = "raise" /\ Raise(type) # None /\ << "value", type >>[1] = "value"
BY DEF Raise, None

\* An answer that is what Faithful says.
LEMMA AnswerKeepsCall ==
  ASSUME CallInv, answer = None, UNCHANGED << arch, event, osVars >>,
         event.kind = "echo" => answer' = echo(event.value),
         event.kind = "tool" => answer' = CallTool(event, arch),
         event.kind = "raise" => answer' = callError(event.error, event.by),
         event.kind = "apply" /\ event.value \in {"own", "class", "abstract", "plain"} =>
           answer' = IF event.value = "own" THEN resolveCall(event.of)
                     ELSE IF event.value = "plain" THEN Raise("TypeError") ELSE CallValue(event.value)
  PROVE  CallInv'
<1>1. (Fresh \/ IInv)'
  BY Unasked
<1>2. LookedUp'
  <2> SUFFICES ASSUME event.kind = "apply"
               PROVE  /\ event.of \in Definition
                      /\ LET a == resolveLookup(event.of) IN
                         IF a[1] = "value" THEN event.value = a[2] ELSE event.value = "none" /\ answer' = a
    BY DEF LookedUp
  <2> DEFINE a == resolveLookup(event.of)
  <2>1. event.of \in Definition /\ IF a[1] = "value" THEN event.value = a[2] ELSE answer = a
    BY DEF CallInv, LookedUp
  <2>2. a[1] = "value" \/ \E type : a = Raise(type)
    BY <2>1, LookupIs, RaisesAre DEF a, Definition
  <2> HIDE DEF a
  <2>3. a[1] = "value"
    BY <2>1, <2>2, RaisesAre
  <2> QED BY <2>1, <2>3 DEF a
<1>3. Faithful'
  BY DEF Faithful, Answered
<1>4. (event.kind # "apply" => event \in Requests)'
  BY DEF CallInv
<1> QED BY <1>1, <1>2, <1>3, <1>4 DEF CallInv

LEMMA LookupKeepsCall == CallInv /\ AnswerLookup => CallInv'
<1> SUFFICES ASSUME CallInv, AnswerLookup PROVE CallInv'
  OBVIOUS
<1> DEFINE d == event.of
           a == resolveLookup(d)
<1>1. event.kind = "lookup" /\ answer = None /\ UNCHANGED << arch, osVars >>
  BY DEF AnswerLookup
<1>2. d \in Definition /\ event = [ kind |-> "lookup", of |-> d ]
  BY <1>1, RequestsAre DEF CallInv
<1>3. event'.kind = "apply" /\ event'.of = d
      /\ IF a[1] = "value" THEN event'.value = a[2] /\ answer' = answer
                           ELSE event'.value = "none" /\ answer' = a
  <2>1. event' = [ kind |-> "apply", of |-> d, value |-> IF a[1] = "value" THEN a[2] ELSE "none" ]
        /\ answer' = IF a[1] = "value" THEN None ELSE a
    BY DEF AnswerLookup
  <2> HIDE DEF a, d
  <2> QED BY <1>1, <2>1
<1> HIDE DEF a
<1>4. LookedUp'
  BY <1>2, <1>3 DEF LookedUp, a
<1>5. (Fresh \/ IInv)'
  <2>1. CASE Fresh
    BY <2>1, <1>1, <1>3 DEF Fresh, osVars
  <2>2. CASE IInv
    BY <2>2, <1>1, StepIInv
  <2> QED BY <2>1, <2>2 DEF CallInv
<1>6. Faithful'
  <2>1. CASE a[1] = "value"
    BY <2>1, <1>1, <1>3 DEF Faithful, Answered
  <2>2. CASE a[1] # "value"
    BY <2>2, <1>3 DEF Faithful, Answered
  <2> QED BY <2>1, <2>2
<1> QED BY <1>3, <1>4, <1>5, <1>6 DEF CallInv

LEMMA ApplyKeepsCall == CallInv /\ Apply => CallInv'
<1> SUFFICES ASSUME CallInv, Apply PROVE CallInv'
  OBVIOUS
<1>1. event.kind = "apply" /\ answer = None /\ UNCHANGED << arch, event, osVars >>
  BY DEF Apply, Answers
<1>2. event.value = "own" => answer' = resolveCall(event.of)
  BY Zenon DEF Apply, Answers
<1>3. event.value \in {"class", "abstract"} => answer' = CallValue(event.value)
  BY Zenon DEF Apply, Answers
<1>4. event.value = "plain" => answer' = Raise("TypeError")
  BY Zenon DEF Apply, Answers
<1> QED BY <1>1, <1>2, <1>3, <1>4, AnswerKeepsCall

\* TakeOS begins the behaviour that OSSpec is about.
LEMMA TakeKeepsCall == CallInv /\ TakeOS => CallInv'
<1> SUFFICES ASSUME CallInv, TakeOS PROVE CallInv'
  OBVIOUS
<1>1. event.kind = "os" /\ stage = "idle" /\ event' = event /\ answer' = answer /\ arch' = arch
  BY DEF TakeOS
<1>2. Fresh
  BY <1>1 DEF CallInv, IInv, TInv
<1>3. call' \in OSRequests
  <2>1. event.asked \in Asks
    BY <1>1, RequestsAre DEF CallInv
  <2>2. ~IsError(osCallFromProto(event.asked)) /\ call' = osCallFromProto(event.asked)[2]
    BY DEF TakeOS
  <2> QED BY <2>1, <2>2, HostAssumption
<1>4. OSInit'
  BY <1>1, <1>2, <1>3 DEF TakeOS, Fresh, OSInit
<1>5. IInv'
  BY <1>4, InitIInv, PTL
<1>6. LookedUp' /\ Faithful'
  BY <1>1 DEF LookedUp, Faithful, Answered, CallInv
<1> QED BY <1>1, <1>5, <1>6 DEF CallInv

LEMMA ServeKeepsCall == CallInv /\ ServeOS => CallInv'
<1> SUFFICES ASSUME CallInv, ServeOS PROVE CallInv'
  OBVIOUS
<1>1. OSNext /\ UNCHANGED << arch, event, answer >>
  BY DEF ServeOS
<1>2. stage # "idle"
  BY <1>1 DEF OSNext, PassOver, Answer, Exhausted, BeginRange, Visit, EndRange, Asking
<1>3. IInv
  BY <1>2 DEF CallInv, Fresh
<1>4. IInv'
  BY <1>1, <1>3, StepIInv
<1>5. LookedUp' /\ Faithful'
  BY <1>1 DEF LookedUp, Faithful, Answered, CallInv
<1> QED BY <1>1, <1>4, <1>5 DEF CallInv

LEMMA StepCallInv == CallInv /\ [Next]_vars => CallInv'
<1> SUFFICES ASSUME CallInv, [Next]_vars PROVE CallInv'
  OBVIOUS
<1>1. CASE AnswerEcho
  BY <1>1, AnswerKeepsCall DEF AnswerEcho, Answers
<1>2. CASE AnswerTool
  BY <1>2, AnswerKeepsCall DEF AnswerTool, Answers
<1>3. CASE AnswerRaise
  BY <1>3, AnswerKeepsCall DEF AnswerRaise, Answers
<1>4. CASE AnswerRegistry
  BY <1>4, AnswerKeepsCall DEF AnswerRegistry, Answers
<1>5. CASE AnswerMethod
  BY <1>5, AnswerKeepsCall DEF AnswerMethod, Answers
<1>6. CASE AnswerAttribute
  BY <1>6, AnswerKeepsCall DEF AnswerAttribute, Answers
<1>7. CASE AnswerCall
  BY <1>7, AnswerKeepsCall DEF AnswerCall, Answers
<1>8. CASE RefuseOS
  BY <1>8, AnswerKeepsCall DEF RefuseOS, Answers
<1>9. CASE AnswerOS
  BY <1>9, AnswerKeepsCall DEF AnswerOS, Answers
<1>10. CASE UNCHANGED vars
  <2>1. UNCHANGED << arch, event, answer, osVars >>
    BY <1>10 DEF vars
  <2>2. (Fresh \/ IInv)'
    BY <2>1, Unasked
  <2> QED BY <2>1, <2>2 DEF CallInv, LookedUp, Faithful, Answered
<1> QED
  BY <1>1, <1>2, <1>3, <1>4, <1>5, <1>6, <1>7, <1>8, <1>9, <1>10,
     LookupKeepsCall, ApplyKeepsCall, TakeKeepsCall, ServeKeepsCall DEF Next

\* What is known of a call at every point of its way.
THEOREM SafeCalls == Spec => []CallInv
<1>1. Init => CallInv
  BY InitCallInv
<1>2. CallInv /\ [Next]_vars => CallInv'
  BY StepCallInv
<1> QED BY <1>1, <1>2, PTL DEF Spec

LEMMA CallInvLooksUp == CallInv => CallLikeLookup
<1> SUFFICES ASSUME CallInv, Answered("apply"), event.value \notin {"ref", "object", "callable"}
             PROVE  answer = resolveCall(event.of)
  BY DEF CallLikeLookup
<1> DEFINE d == event.of
           a == resolveLookup(d)
<1>1. d \in Definition /\ IF a[1] = "value" THEN event.value = a[2] ELSE event.value = "none" /\ answer = a
  BY DEF CallInv, LookedUp, Answered
<1>2. event.value \in {"own", "class", "abstract", "plain"} =>
        answer = IF event.value = "own" THEN resolveCall(d)
                 ELSE IF event.value = "plain" THEN Raise("TypeError") ELSE CallValue(event.value)
  BY DEF CallInv, Faithful
<1>3. CASE d.sync \/ d.async
  <2>1. a = << "value", "own" >>
    BY <1>1, <1>3, LookupIs
  <2> QED BY <1>1, <1>2, <2>1
<1>4. CASE ~d.sync /\ ~d.async /\ d.value \in {"unsupported", "none"}
  <2>1. a = resolveCall(d) /\ a[1] = "raise"
    BY <1>1, <1>4, LookupIs, CallIs, RaisesAre
  <2> QED BY <1>1, <2>1
<1>5. CASE ~d.sync /\ ~d.async /\ d.value \notin {"unsupported", "none"}
  <2>1. a = << "value", d.value >>
    BY <1>1, <1>5, LookupIs
  <2>2. event.value = d.value
    BY <1>1, <2>1, RaisesAre
  <2>3. d.value \in {"class", "abstract", "plain"}
    BY <1>1, <1>5, <2>2 DEF Definition
  <2> QED BY <1>1, <1>2, <1>5, <2>2, <2>3, CallIs
<1> QED BY <1>3, <1>4, <1>5, <1>1 DEF Definition

\* Calling a name and calling the value of the name come to the same, whatever
\* is defined under it (driver.resolveCall, driver.resolveLookup).
THEOREM LooksUp == Spec => []CallLikeLookup
BY SafeCalls, CallInvLooksUp, PTL

\* Paths are routed, and trees renamed, as OSSpec has it, for the calls of the
\* sandbox as they arrive (Session.progress, driver.resolve).
LEMMA CallInvRoutes == CallInv => RoutingAgrees /\ RenameMoves
<1>1. Fresh => RoutingAgrees /\ RenameMoves
  BY DEF Fresh, RoutingAgrees, RenameMoves
<1>2. IInv => RoutingAgrees /\ RenameMoves
  BY IInvRoutes, IInvMoves
<1> QED BY <1>1, <1>2 DEF CallInv

THEOREM RoutedCalls == Spec => []RoutingAgrees
BY SafeCalls, CallInvRoutes, PTL

THEOREM MovedCalls == Spec => []RenameMoves
BY SafeCalls, CallInvRoutes, PTL

(***************************************************************************)
(* Errors                                                                  *)
(***************************************************************************)

\* What raisedFromError makes of an error, and what Run gives back for it.
LEMMA RaisedIs ==
  ASSUME NEW e
  PROVE  LET r == raisedFromError(e)
             back == exceptionFromProto(Uncaught(r, Frames))
         IN /\ e[1] = "exception" => back[2] = e[2] /\ back[3] = e[3]
            /\ e[1] # "exception" => back[2] = "RuntimeError" /\ back[3] = Text(e)
            /\ back = Exception(back[2], back[3], Frames, Empty)
<1> DEFINE r == raisedFromError(e)
           u == Uncaught(r, Frames)
<1>1. r = << "raised", IF e[1] = "exception" THEN e[2] ELSE "RuntimeError",
             IF e[1] = "exception" THEN e[3] ELSE Text(e), Empty, Empty >>
  BY DEF raisedFromError
<1> HIDE DEF r
<1>2. u = << "raised", r[2], r[3], Frames, Empty >>
  BY <1>1 DEF Uncaught
<1>3. u # Empty
  BY <1>2 DEF Empty
<1> HIDE DEF u
<1>4. exceptionFromProto(u) = Exception(r[2], r[3], Frames, Empty)
  BY <1>2, <1>3 DEF exceptionFromProto
<1> QED BY <1>1, <1>4 DEF Exception, r, u

LEMMA TextOfException ==
  ASSUME NEW type, NEW message, NEW data
  PROVE  Text(Exception(type, message, Frames, data)) = renderTraceback(Frames, type, message)
<1> DEFINE e == Exception(type, message, Frames, data)
           t == renderTraceback(Frames, type, message)
<1>1. e = << "exception", type, message, Frames, data >> /\ Innermost(e) = e
  BY DEF Exception, Innermost
<1>2. Frames # Empty
  BY DEF Frames, Empty
<1>3. Text(e) = << >> \o t
  <2>1. e[1] # "wrap" /\ e[1] = "exception" /\ e[2] = type /\ e[3] = message /\ e[4] = Frames /\ e[4] # Empty
    BY <1>1, <1>2
  <2> HIDE DEF e
  <2>2. (CASE e[1] = "exception" /\ e[4] # Empty -> renderTraceback(e[4], e[2], e[3])
           [] e[1] = "exception" /\ e[4] = Empty -> << << e[2], e[3] >> >>
           [] e[1] \in {"plain", "sentinel"} -> << << e[2] >> >>) = t
    BY <2>1, Zenon
  <2> QED BY <1>1, <2>1, <2>2, Zenon DEF Text
<1>4. t \in Seq({<< "Traceback" >>, << "File", "here" >>, << type, message >>})
  BY DEF renderTraceback, Frames, Empty
<1> QED BY <1>3, <1>4, ConcatEmptySeq

LEMMA AsIs ==
  ASSUME NEW e
  PROVE  /\ As(e) = IF Innermost(e)[1] = "exception" THEN {Innermost(e)} ELSE {}
         /\ e[1] # "wrap" => Innermost(e) = e
BY DEF As, Innermost

\* fsError, for an error that is not declined.
LEMMA FsErrorIs ==
  ASSUME NEW e, ~Is(e, "ErrNotHandled")
  PROVE  LET f == fsError(e) IN
         /\ f[1] = "exception"
         /\ As(e) # {} => f = Innermost(e)
         /\ As(e) = {} => f[2] \in Range(Errnos) \cup {"OSError"}
<1> DEFINE named == { x \in {Innermost(e)} : x[1] = "sentinel" /\ x[2] \in DOMAIN Errnos }
<1>1. CASE As(e) # {}
  <2>1. As(e) = {Innermost(e)} /\ Innermost(e)[1] = "exception"
    BY <1>1, AsIs
  <2>2. fsError(e) = CHOOSE x \in As(e) : TRUE
    BY <1>1, Zenon DEF fsError
  <2>3. (CHOOSE x \in As(e) : TRUE) \in As(e)
    BY <1>1, Zenon
  <2> QED BY <1>1, <2>1, <2>2, <2>3
<1>2. CASE As(e) = {} /\ named = {}
  <2>1. fsError(e) = Exception("OSError", Text(e), Empty, Empty)
    BY <1>2, Zenon DEF fsError
  <2> QED BY <1>2, <2>1 DEF Exception
<1>3. CASE As(e) = {} /\ named # {}
  <2> DEFINE x == CHOOSE y \in named : TRUE
  <2>1. x \in named
    BY <1>3, Zenon
  <2>2. x[2] \in DOMAIN Errnos
    BY <2>1
  <2>3. fsError(e) = Exception(Errnos[x[2]], << << "path" >> >>, Empty, Empty)
    <3> HIDE DEF x
    <3> QED BY <1>3, Zenon DEF fsError, x
  <2>4. Errnos[x[2]] \in Range(Errnos)
    <3> HIDE DEF x
    <3> QED BY <2>2 DEF Range
  <2> QED BY <1>3, <2>3, <2>4 DEF Exception
<1> QED BY <1>1, <1>2, <1>3

LEMMA CallInvKeepsErrors == CallInv => ExceptionsKept
<1> SUFFICES ASSUME CallInv, Answered("raise"), answer # NotHandled PROVE ExceptionsKept
  BY DEF ExceptionsKept
<1> DEFINE error == event.error
           fs == event.by = "fs"
           e == IF fs THEN fsError(error) ELSE error
           back == exceptionFromProto(Uncaught(raisedFromError(e), Frames))
           kept == IF fs THEN As(error) ELSE {error} \cap As(error)
<1>1. answer = callError(error, event.by)
  BY DEF CallInv, Faithful
<1>2. answer[3] = back /\ (event.by = "function" \/ ~Is(e, "ErrNotHandled"))
  <2>1. ~(event.by # "function" /\ Is(e, "ErrNotHandled"))
    BY <1>1 DEF callError
  <2>2. answer = << "raised", raisedFromError(e), back >>
    BY <1>1, <2>1 DEF callError
  <2> HIDE DEF back, e
  <2> QED BY <2>1, <2>2
<1>3. /\ e[1] = "exception" => back[2] = e[2] /\ back[3] = e[3]
      /\ e[1] # "exception" => back[2] = "RuntimeError" /\ back[3] = Text(e)
      /\ back = Exception(back[2], back[3], Frames, Empty)
  BY RaisedIs
<1> HIDE DEF back
<1>4. Text(back) = renderTraceback(Frames, back[2], back[3])
  BY <1>3, TextOfException
<1>5. CASE fs
  <2>1. ~Is(error, "ErrNotHandled")
    <3>1. ASSUME Is(error, "ErrNotHandled") PROVE fsError(error) = error
      <4>1. Innermost(error) = << "sentinel", "ErrNotHandled" >>
        BY <3>1 DEF Is, Sentinel
      <4>2. As(error) = {}
        BY <4>1, AsIs
      <4> QED BY <3>1, <4>2, Zenon DEF fsError
    <3> QED BY <1>2, <1>5, <3>1
  <2>2. e = fsError(error) /\ kept = As(error)
    BY <1>5
  <2>3. e[1] = "exception" /\ (kept # {} => e = Innermost(error) /\ kept = {Innermost(error)})
        /\ (kept = {} => e[2] \in Range(Errnos) \cup {"OSError"})
    BY <2>1, <2>2, FsErrorIs, AsIs
  <2> HIDE DEF e, kept
  <2> QED BY <1>2, <1>3, <1>4, <1>5, <2>3 DEF ExceptionsKept, kept
<1>6. CASE ~fs
  <2>1. e = error /\ kept = {error} \cap As(error)
    BY <1>6
  <2>2. kept = IF error[1] = "exception" THEN {error} ELSE {}
    BY <2>1, AsIs DEF Innermost
  <2> HIDE DEF e, kept
  <2> QED BY <1>2, <1>3, <1>4, <1>6, <2>1, <2>2 DEF ExceptionsKept, kept
<1> QED BY <1>5, <1>6

\* What a function or a handler fails with reaches code, and whoever runs it,
\* as the exception it is or hides (raisedFromError, fsError, callError).
THEOREM ErrorsKept == Spec => []ExceptionsKept
BY SafeCalls, CallInvKeepsErrors, PTL

(***************************************************************************)
(* Trees: values, types and annotations                                    *)
(***************************************************************************)

Top == MaxNesting + 1

LEMMA TopIs == MaxNesting \in Nat /\ Top \in Nat /\ 0..MaxNesting \subseteq 0..Top
BY ValuesAssumption DEF Top

\* What a value, a type or an annotation holds, at once, at each depth and in
\* all.
Kids(s, v) ==
  CASE s = "value" -> Children(v)
    [] s = "type" -> TypeChildren(v)
    [] OTHER -> PyChildren(v)
Depths(s, v) ==
  CASE s = "value" -> Level(Children, v)
    [] s = "type" -> Level(TypeChildren, v)
    [] OTHER -> Level(PyChildren, v)
AllIn(s, v) == UNION { Depths(s, v)[n] : n \in 0..MaxNesting }
Shallow(s, v) == Depths(s, v)[MaxNesting + 1] = {}

IsDepths(s, l, v, n) == l = [i \in 0..n |-> IF i = 0 THEN {v} ELSE UNION { Kids(s, p) : p \in l[i - 1] }]

\* The depths that Level chooses exist.
LEMMA DepthsExist ==
  ASSUME NEW s, NEW v
  PROVE  \A n \in Nat : \E l : IsDepths(s, l, v, n)
<1> DEFINE S == { n \in Nat : \E l : IsDepths(s, l, v, n) }
<1>1. 0 \in S
  <2> DEFINE l0 == [i \in 0..0 |-> {v}]
  <2>1. l0 = [i \in 0..0 |-> IF i = 0 THEN {v} ELSE UNION { Kids(s, p) : p \in l0[i - 1] }]
    OBVIOUS
  <2>2. IsDepths(s, l0, v, 0)
    BY <2>1 DEF IsDepths
  <2> QED BY <2>2
<1>2. ASSUME NEW n \in Nat, n \in S PROVE n + 1 \in S
  <2>1. PICK l : IsDepths(s, l, v, n)
    BY <1>2
  <2> DEFINE below == UNION { Kids(s, p) : p \in l[n] }
             r == [i \in 0..(n + 1) |-> IF i = n + 1 THEN below ELSE l[i]]
  <2>2. l = [i \in 0..n |-> IF i = 0 THEN {v} ELSE UNION { Kids(s, p) : p \in l[i - 1] }]
    BY <2>1 DEF IsDepths
  <2>3. ASSUME NEW i \in 0..(n + 1)
        PROVE r[i] = IF i = 0 THEN {v} ELSE UNION { Kids(s, p) : p \in r[i - 1] }
    <3>1. CASE i = n + 1
      <4>1. r[i] = below /\ i # 0 /\ r[i - 1] = l[n]
        BY <3>1
      <4> HIDE DEF r
      <4> QED BY <4>1
    <3>2. CASE i # n + 1
      <4>1. i \in 0..n /\ r[i] = l[i] /\ (i # 0 => r[i - 1] = l[i - 1])
        BY <3>2
      <4> HIDE DEF r
      <4> QED BY <4>1, <2>2
    <3> QED BY <3>1, <3>2
  <2>4. r = [i \in 0..(n + 1) |-> r[i]]
    OBVIOUS
  <2> HIDE DEF r
  <2>5. IsDepths(s, r, v, n + 1)
    BY <2>3, <2>4 DEF IsDepths
  <2> QED BY <2>5
<1> HIDE DEF S
<1>3. Nat \subseteq S
  BY <1>1, <1>2, Induction
<1> QED BY <1>3 DEF S

\* Level is what its name says, of every kind of tree.
LEMMA DepthsAre == \A s, v : IsDepths(s, Depths(s, v), v, Top)
<1> SUFFICES ASSUME NEW s, NEW v PROVE IsDepths(s, Depths(s, v), v, Top)
  OBVIOUS
<1>1. ASSUME s = "value" PROVE IsDepths(s, Depths(s, v), v, Top)
  <2>1. Depths(s, v) = Level(Children, v)
    BY <1>1 DEF Depths
  <2>2. \A p : Kids(s, p) = Children(p)
    BY <1>1 DEF Kids
  <2> DEFINE H(l) == l = [i \in 0..(MaxNesting + 1) |->
                            IF i = 0 THEN {v} ELSE UNION { Children(p) : p \in l[i - 1] }]
             h == CHOOSE l : H(l)
  <2>3. Level(Children, v) = h
    BY DEF Level
  <2>4. ASSUME NEW l PROVE IsDepths(s, l, v, Top) <=> H(l)
    <3>1. \A i : { Kids(s, p) : p \in l[i] } = { Children(p) : p \in l[i] }
      BY <2>2
    <3> QED BY <3>1 DEF IsDepths, Top
  <2>5. \E l : H(l)
    BY <2>4, DepthsExist, TopIs
  <2> HIDE DEF H
  <2>6. H(h)
    BY <2>5
  <2> QED BY <2>1, <2>3, <2>4, <2>6
<1>2. ASSUME s = "type" PROVE IsDepths(s, Depths(s, v), v, Top)
  <2>1. Depths(s, v) = Level(TypeChildren, v)
    BY <1>2 DEF Depths
  <2>2. \A p : Kids(s, p) = TypeChildren(p)
    BY <1>2 DEF Kids
  <2> DEFINE H(l) == l = [i \in 0..(MaxNesting + 1) |->
                            IF i = 0 THEN {v} ELSE UNION { TypeChildren(p) : p \in l[i - 1] }]
             h == CHOOSE l : H(l)
  <2>3. Level(TypeChildren, v) = h
    BY DEF Level
  <2>4. ASSUME NEW l PROVE IsDepths(s, l, v, Top) <=> H(l)
    <3>1. \A i : { Kids(s, p) : p \in l[i] } = { TypeChildren(p) : p \in l[i] }
      BY <2>2
    <3> QED BY <3>1 DEF IsDepths, Top
  <2>5. \E l : H(l)
    BY <2>4, DepthsExist, TopIs
  <2> HIDE DEF H
  <2>6. H(h)
    BY <2>5
  <2> QED BY <2>1, <2>3, <2>4, <2>6
<1>3. ASSUME s \notin {"value", "type"} PROVE IsDepths(s, Depths(s, v), v, Top)
  <2>1. Depths(s, v) = Level(PyChildren, v)
    BY <1>3 DEF Depths
  <2>2. \A p : Kids(s, p) = PyChildren(p)
    BY <1>3 DEF Kids
  <2> DEFINE H(l) == l = [i \in 0..(MaxNesting + 1) |->
                            IF i = 0 THEN {v} ELSE UNION { PyChildren(p) : p \in l[i - 1] }]
             h == CHOOSE l : H(l)
  <2>3. Level(PyChildren, v) = h
    BY DEF Level
  <2>4. ASSUME NEW l PROVE IsDepths(s, l, v, Top) <=> H(l)
    <3>1. \A i : { Kids(s, p) : p \in l[i] } = { PyChildren(p) : p \in l[i] }
      BY <2>2
    <3> QED BY <3>1 DEF IsDepths, Top
  <2>5. \E l : H(l)
    BY <2>4, DepthsExist, TopIs
  <2> HIDE DEF H
  <2>6. H(h)
    BY <2>5
  <2> QED BY <2>1, <2>3, <2>4, <2>6
<1> QED BY <1>1, <1>2, <1>3

LEMMA DepthAt ==
  ASSUME NEW s, NEW v
  PROVE  LET l == Depths(s, v)
         IN l[0] = {v} /\ \A i \in 0..MaxNesting : l[i + 1] = UNION { Kids(s, p) : p \in l[i] }
<1> DEFINE l == Depths(s, v)
<1>1. l = [i \in 0..Top |-> IF i = 0 THEN {v} ELSE UNION { Kids(s, p) : p \in l[i - 1] }]
  BY DepthsAre DEF IsDepths
<1> HIDE DEF l
<1>2. l[0] = {v}
  BY <1>1, TopIs
<1>3. ASSUME NEW i \in 0..MaxNesting PROVE l[i + 1] = UNION { Kids(s, p) : p \in l[i] }
  <2>1. i + 1 \in 0..Top /\ i + 1 # 0 /\ (i + 1) - 1 = i
    BY TopIs DEF Top
  <2> QED BY <1>1, <2>1
<1> QED BY <1>2, <1>3 DEF l

LEMMA AllInIs == \A s, v : AllIn(s, v) = UNION { Depths(s, v)[n] : n \in 0..MaxNesting }
BY DEF AllIn

\* Sets that hold each other's children: what is in the last has no more in it
\* than there are sets.
Linked(s, A) ==
  /\ A[0] = {}
  /\ \A n \in 0..MaxNesting : A[n] \subseteq A[n + 1] /\ \A p \in A[n + 1] : Kids(s, p) \subseteq A[n]

\* What is in something nested is such a chain of sets.
LEMMA LinkedOf ==
  ASSUME NEW s, NEW v, Shallow(s, v)
  PROVE  \E A : Linked(s, A) /\ A[Top] = AllIn(s, v) /\ \A n \in 0..Top : A[n] \subseteq AllIn(s, v)
<1> DEFINE l == Depths(s, v)
           A == [n \in 0..Top |-> UNION { l[i] : i \in (Top - n)..MaxNesting }]
<1>1. l[Top] = {} /\ \A i \in 0..MaxNesting : l[i + 1] = UNION { Kids(s, p) : p \in l[i] }
  BY DepthAt DEF Shallow, Top
<1>2. AllIn(s, v) = UNION { l[n] : n \in 0..MaxNesting }
  BY AllInIs
<1> HIDE DEF l
<1>3. A[0] = {} /\ A[Top] = UNION { l[i] : i \in 0..MaxNesting }
  BY TopIs DEF Top
<1>4. ASSUME NEW n \in 0..MaxNesting
      PROVE  A[n] \subseteq A[n + 1] /\ \A p \in A[n + 1] : Kids(s, p) \subseteq A[n]
  <2>1. /\ A[n] = UNION { l[i] : i \in (Top - n)..MaxNesting }
        /\ A[n + 1] = UNION { l[i] : i \in (MaxNesting - n)..MaxNesting }
    BY TopIs DEF Top
  <2> HIDE DEF A
  <2>2. A[n] \subseteq A[n + 1]
    BY <2>1, TopIs DEF Top
  <2>3. ASSUME NEW p \in A[n + 1] PROVE Kids(s, p) \subseteq A[n]
    <3>1. PICK i \in (MaxNesting - n)..MaxNesting : p \in l[i]
      BY <2>1
    <3>2. Kids(s, p) \subseteq l[i + 1]
      BY <1>1, <3>1, TopIs
    <3>3. i + 1 = Top \/ i + 1 \in (Top - n)..MaxNesting
      BY TopIs DEF Top
    <3> QED BY <1>1, <2>1, <3>2, <3>3
  <2> QED BY <2>2, <2>3
<1>5. \A n \in 0..Top : A[n] \subseteq AllIn(s, v)
  BY <1>2, TopIs DEF Top
<1> HIDE DEF A
<1>6. Linked(s, A)
  BY <1>3, <1>4 DEF Linked
<1> QED BY <1>2, <1>3, <1>5, <1>6

\* What is in the last of them is nested, and all that is in it is there.
LEMMA LinkedClosed ==
  ASSUME NEW s, NEW A, Linked(s, A), NEW v \in A[Top]
  PROVE  Shallow(s, v) /\ AllIn(s, v) \subseteq A[Top]
<1> DEFINE l == Depths(s, v)
           S == { i \in Nat : l[i] \subseteq A[Top - i] /\ l[i] \subseteq A[Top] }
<1>1. l[0] = {v} /\ \A i \in 0..MaxNesting : l[i + 1] = UNION { Kids(s, p) : p \in l[i] }
  BY DepthAt
<1>2. AllIn(s, v) = UNION { l[n] : n \in 0..MaxNesting } /\ (Shallow(s, v) <=> l[Top] = {})
  BY AllInIs DEF Shallow, Top
<1> HIDE DEF l
<1>3. 0 \in S
  BY <1>1, TopIs
<1>4. ASSUME NEW i \in Nat, i < Top, i \in S PROVE i + 1 \in S
  <2>1. /\ i \in 0..MaxNesting /\ Top - (i + 1) \in 0..MaxNesting /\ MaxNesting \in 0..MaxNesting
        /\ Top - i = (Top - (i + 1)) + 1 /\ MaxNesting + 1 = Top
    BY <1>4, TopIs DEF Top
  <2>2. \A p \in A[Top - i] : Kids(s, p) \subseteq A[Top - (i + 1)]
    BY <2>1 DEF Linked
  <2>3. \A p \in A[Top] : Kids(s, p) \subseteq A[Top]
    BY <2>1 DEF Linked
  <2>4. l[i + 1] \subseteq A[Top - (i + 1)] /\ l[i + 1] \subseteq A[Top]
    BY <1>1, <1>4, <2>1, <2>2, <2>3
  <2> QED BY <2>4
<1> HIDE DEF S
<1>5. \A i \in 0..Top : i \in S
  BY <1>3, <1>4, InductionTo, TopIs
<1>6. l[Top] \subseteq A[0] /\ \A i \in 0..MaxNesting : l[i] \subseteq A[Top]
  BY <1>5, TopIs DEF S
<1> QED BY <1>2, <1>6 DEF Linked

\* What is in something nested is nested.
LEMMA AllInShallow ==
  ASSUME NEW s, NEW v, Shallow(s, v)
  PROVE  v \in AllIn(s, v) /\ \A p \in AllIn(s, v) : Shallow(s, p) /\ AllIn(s, p) \subseteq AllIn(s, v)
                                             /\ Kids(s, p) \subseteq AllIn(s, v)
<1>1. PICK A : Linked(s, A) /\ A[Top] = AllIn(s, v)
  BY LinkedOf
<1>2. v \in AllIn(s, v)
  <2> DEFINE l == Depths(s, v)
  <2>1. l[0] = {v}
    BY DepthAt
  <2>3. 0 \in 0..MaxNesting
    BY TopIs
  <2>2. AllIn(s, v) = UNION { l[n] : n \in 0..MaxNesting }
    BY AllInIs
  <2> HIDE DEF l
  <2> QED BY <2>1, <2>2, <2>3
<1>3. \A p \in AllIn(s, v) : Shallow(s, p) /\ AllIn(s, p) \subseteq AllIn(s, v)
  BY <1>1, LinkedClosed
<1>4. \A p \in A[Top] : Kids(s, p) \subseteq A[Top]
  BY <1>1, TopIs DEF Linked, Top
<1> QED BY <1>1, <1>2, <1>3, <1>4

\* Induction from the innermost values outwards.
LEMMA KidsInduction ==
  ASSUME NEW s, NEW v, Shallow(s, v), NEW S, \A p \in AllIn(s, v) : Kids(s, p) \subseteq S => p \in S
  PROVE  AllIn(s, v) \subseteq S
<1>1. PICK A : Linked(s, A) /\ A[Top] = AllIn(s, v) /\ \A n \in 0..Top : A[n] \subseteq AllIn(s, v)
  BY LinkedOf
<1> DEFINE In == { n \in Nat : A[n] \subseteq S }
<1>2. 0 \in In
  BY <1>1 DEF Linked
<1>3. ASSUME NEW n \in Nat, n < Top, n \in In PROVE n + 1 \in In
  <2>1. n \in 0..MaxNesting /\ n + 1 \in 0..Top
    BY <1>3, TopIs DEF Top
  <2>2. \A p \in A[n + 1] : Kids(s, p) \subseteq A[n]
    BY <1>1, <2>1 DEF Linked
  <2>3. A[n + 1] \subseteq AllIn(s, v)
    BY <1>1, <2>1
  <2> QED BY <1>3, <2>2, <2>3
<1> HIDE DEF In
<1>4. \A n \in 0..Top : n \in In
  BY <1>2, <1>3, InductionTo, TopIs
<1> QED BY <1>1, <1>4, TopIs DEF In

\* What these are of a value, a type and an annotation.
LEMMA KidsAre ==
  /\ \A v : Kids("value", v) = Children(v) /\ AllIn("value", v) = Parts(v) /\ (Shallow("value", v) <=> Nested(v))
  /\ \A T : Kids("type", T) = TypeChildren(T) /\ AllIn("type", T) = TypeParts(T)
            /\ (IsType(T) => Shallow("type", T))
  /\ \A P : Kids("stub", P) = PyChildren(P) /\ AllIn("stub", P) = Descendants(PyChildren, P)
<1>1. \A v : Depths("value", v) = Level(Children, v) /\ Kids("value", v) = Children(v)
  BY DEF Depths, Kids
<1>2. \A T : Depths("type", T) = Level(TypeChildren, T) /\ Kids("type", T) = TypeChildren(T)
  BY DEF Depths, Kids
<1>3. \A P : Depths("stub", P) = Level(PyChildren, P) /\ Kids("stub", P) = PyChildren(P)
  BY DEF Depths, Kids
<1>4. \A v : AllIn("value", v) = Parts(v) /\ (Shallow("value", v) <=> Nested(v))
  BY <1>1 DEF AllIn, Parts, Descendants, Shallow, Nested
<1>5. \A T : AllIn("type", T) = TypeParts(T) /\ (IsType(T) => Shallow("type", T))
  BY <1>2 DEF AllIn, TypeParts, Descendants, Shallow, IsType
<1>6. \A P : AllIn("stub", P) = Descendants(PyChildren, P)
  BY <1>3 DEF AllIn, Descendants
<1> QED BY <1>1, <1>2, <1>3, <1>4, <1>5, <1>6

\* The same of values.
LEMMA LevelAt ==
  ASSUME NEW v
  PROVE  LET l == Level(Children, v)
         IN l[0] = {v} /\ \A i \in 0..MaxNesting : l[i + 1] = UNION { Children(p) : p \in l[i] }
<1> DEFINE l == Depths("value", v)
<1>1. l[0] = {v} /\ \A i \in 0..MaxNesting : l[i + 1] = UNION { Kids("value", p) : p \in l[i] }
  BY DepthAt
<1>2. l = Level(Children, v) /\ \A p : Kids("value", p) = Children(p)
  BY DEF Depths, Kids
<1> HIDE DEF l
<1>3. \A i : { Kids("value", p) : p \in l[i] } = { Children(p) : p \in l[i] }
  BY <1>2
<1> QED BY <1>1, <1>2, <1>3

LEMMA PartsAre == \A v : Parts(v) = UNION { Level(Children, v)[n] : n \in 0..MaxNesting }
BY DEF Parts, Descendants

Chain(A) ==
  /\ A[0] = {}
  /\ \A n \in 0..MaxNesting : A[n] \subseteq A[n + 1] /\ \A p \in A[n + 1] : Children(p) \subseteq A[n]

LEMMA ChainIs == \A A : Chain(A) <=> Linked("value", A)
BY KidsAre DEF Chain, Linked

LEMMA ChainOf ==
  ASSUME NEW v, Nested(v)
  PROVE  \E A : Chain(A) /\ A[Top] = Parts(v) /\ \A n \in 0..Top : A[n] \subseteq Parts(v)
<1>1. Shallow("value", v) /\ AllIn("value", v) = Parts(v)
  BY KidsAre
<1> QED BY <1>1, LinkedOf, ChainIs

LEMMA ChainClosed ==
  ASSUME NEW A, Chain(A), NEW v \in A[Top]
  PROVE  Nested(v) /\ Parts(v) \subseteq A[Top]
<1>1. Shallow("value", v) /\ AllIn("value", v) \subseteq A[Top]
  BY LinkedClosed, ChainIs
<1> QED BY <1>1, KidsAre

LEMMA PartsNested ==
  ASSUME NEW v, Nested(v)
  PROVE  v \in Parts(v) /\ \A p \in Parts(v) : Nested(p) /\ Parts(p) \subseteq Parts(v)
                                             /\ Children(p) \subseteq Parts(v)
<1>1. /\ v \in AllIn("value", v)
      /\ \A p \in AllIn("value", v) : /\ Shallow("value", p) /\ AllIn("value", p) \subseteq AllIn("value", v)
                                      /\ Kids("value", p) \subseteq AllIn("value", v)
  BY KidsAre, AllInShallow
<1> QED BY <1>1, KidsAre

LEMMA TreeInduction ==
  ASSUME NEW v, Nested(v), NEW S, \A p \in Parts(v) : Children(p) \subseteq S => p \in S
  PROVE  Parts(v) \subseteq S
<1>1. \A p \in AllIn("value", v) : Kids("value", p) \subseteq S => p \in S
  BY KidsAre
<1>2. AllIn("value", v) \subseteq S
  BY <1>1, KidsAre, KidsInduction
<1> QED BY <1>2, KidsAre

\* Nothing is in it.
LEMMA LeafNested ==
  ASSUME NEW v, Children(v) = {}
  PROVE  Nested(v) /\ Parts(v) = {v}
<1> DEFINE A == [n \in 0..Top |-> IF n = 0 THEN {} ELSE {v}]
<1>1. A[0] = {} /\ A[Top] = {v}
  BY TopIs DEF Top
<1>2. ASSUME NEW n \in 0..MaxNesting PROVE A[n] \subseteq {v} /\ A[n + 1] = {v}
  BY TopIs DEF Top
<1> HIDE DEF A
<1>3. Chain(A)
  BY <1>1, <1>2 DEF Chain
<1>4. Nested(v) /\ Parts(v) \subseteq {v}
  BY <1>1, <1>3, ChainClosed
<1> QED BY <1>4, PartsNested

\* A value and what is in those in it.
LEMMA PartsSplit ==
  ASSUME NEW v, Nested(v), NEW p \in Parts(v), p # v
  PROVE  \E c \in Children(v) : p \in Parts(c)
<1> DEFINE l == Level(Children, v)
           S == {v} \cup UNION { Parts(c) : c \in Children(v) }
           In == { n \in Nat : l[n] \subseteq S }
<1>1. l[0] = {v} /\ \A i \in 0..MaxNesting : l[i + 1] = UNION { Children(q) : q \in l[i] }
  BY LevelAt
<1>2. Parts(v) = UNION { l[n] : n \in 0..MaxNesting }
  BY PartsAre
<1> HIDE DEF l
<1>3. \A c \in Children(v) : c \in Parts(c) /\ \A q \in Parts(c) : Children(q) \subseteq Parts(c)
  BY PartsNested
<1>4. \A q \in S : Children(q) \subseteq S
  BY <1>3
<1>5. 0 \in In
  BY <1>1
<1> HIDE DEF S
<1>6. ASSUME NEW n \in Nat, n < Top, n \in In PROVE n + 1 \in In
  <2>1. n \in 0..MaxNesting
    BY <1>6, TopIs DEF Top
  <2> QED BY <1>1, <1>4, <1>6, <2>1
<1> HIDE DEF In
<1>7. \A n \in 0..Top : n \in In
  BY <1>5, <1>6, InductionTo, TopIs
<1>8. p \in S
  BY <1>2, <1>7, TopIs DEF In
<1> QED BY <1>8 DEF S

(***************************************************************************)
(* Recursions                                                              *)
(***************************************************************************)

\* What a codec, or the reference, says of a value.
Given(x, of, p) ==
  CASE x[1] = "decode" -> decodeGiven(x[2], of, p)
    [] x[1] = "encode" -> encodeGiven(of, p)
    [] OTHER -> MeaningGiven(of, p)

\* Recursions over a value, over a type, or over a type and a value: what each
\* says of one place, where it looks, and the places that it covers.
Rule(x, of, p) ==
  CASE x[1] = "pyType" -> pyTypeGiven(of, p)
    [] x[1] = "accepts" -> AcceptsGiven(of, p[1], p[2])
    [] x[1] = "refused" -> RefusedGiven(of, p[1], p[2])
    [] x[1] = "convert" -> convertGiven(of, p[1], p[2], x[2])
    [] OTHER -> Given(x, of, p)

Looks(x, p) ==
  CASE x[1] = "pyType" -> TypeChildren(p)
    [] x[1] = "accepts" -> PyChildren(p[1]) \X ({p[2]} \cup Children(p[2]))
    [] x[1] = "refused" -> TypeChildren(p[1]) \X ({p[2]} \cup Children(p[2]))
    [] x[1] = "convert" -> Near(p[1]) \X TypeChildren(p[2])
    [] OTHER -> Children(p)

Scope(x, p) ==
  CASE x[1] = "pyType" -> TypeParts(p)
    [] x[1] = "accepts" -> Descendants(PyChildren, p[1]) \X Parts(p[2])
    [] x[1] = "refused" -> TypeParts(p[1]) \X Parts(p[2])
    [] x[1] = "convert" -> Reach(p[1]) \X TypeParts(p[2])
    [] OTHER -> Parts(p)

IsRec(x, of, D) == of = [p \in D |-> Rule(x, Restrict(of, Looks(x, p)), p)]
Rec(x, p) == Rule(x, Restrict(CHOOSE of : IsRec(x, of, Scope(x, p)), Looks(x, p)), p)

\* Sets of places, each of which looks only at those in the one before.
Layers(x, A) ==
  /\ A[0] = {}
  /\ \A n \in 0..MaxNesting : A[n] \subseteq A[n + 1] /\ \A p \in A[n + 1] : Looks(x, p) \subseteq A[n]

Scoped(x, p) ==
  /\ p \in Scope(x, p)
  /\ \A q \in Scope(x, p) : Looks(x, q) \subseteq Scope(x, p)
  /\ \E A : Layers(x, A) /\ A[Top] = Scope(x, p)

\* What a recursion chooses exists.
LEMMA RecExists ==
  ASSUME NEW x, NEW A, Layers(x, A)
  PROVE  \E of : IsRec(x, of, A[Top])
<1> DEFINE S == { n \in Nat : \E of : IsRec(x, of, A[n]) }
<1>2. 0 \in S
  <2> DEFINE f == [p \in {} |-> p]
  <2>1. f = [p \in {} |-> Rule(x, Restrict(f, Looks(x, p)), p)]
    OBVIOUS
  <2>2. IsRec(x, f, A[0])
    BY <2>1 DEF IsRec, Layers
  <2> QED BY <2>2
<1>3. ASSUME NEW n \in Nat, n < Top, n \in S PROVE n + 1 \in S
  <2>1. PICK f : IsRec(x, f, A[n])
    BY <1>3
  <2> DEFINE g == [p \in A[n + 1] |-> Rule(x, Restrict(f, Looks(x, p)), p)]
  <2>2. n \in 0..MaxNesting
    BY <1>3, TopIs DEF Top
  <2>3. A[n] \subseteq A[n + 1] /\ \A p \in A[n + 1] : Looks(x, p) \subseteq A[n]
    BY <2>2 DEF Layers
  <2>4. \A p \in A[n] : f[p] = Rule(x, Restrict(f, Looks(x, p)), p)
    BY <2>1 DEF IsRec
  <2>5. \A p \in A[n] : g[p] = f[p]
    BY <2>3, <2>4
  <2>6. ASSUME NEW p \in A[n + 1] PROVE Restrict(g, Looks(x, p)) = Restrict(f, Looks(x, p))
    <3>1. \A c \in Looks(x, p) : g[c] = f[c]
      BY <2>3, <2>5
    <3> HIDE DEF g
    <3> QED BY <3>1 DEF Restrict
  <2>7. g = [p \in A[n + 1] |-> Rule(x, Restrict(g, Looks(x, p)), p)]
    <3>1. \A p \in A[n + 1] : g[p] = Rule(x, Restrict(g, Looks(x, p)), p)
      BY <2>6
    <3>2. g = [p \in A[n + 1] |-> g[p]]
      OBVIOUS
    <3> HIDE DEF g
    <3> QED BY <3>1, <3>2, Zenon
  <2>8. IsRec(x, g, A[n + 1])
    BY <2>7 DEF IsRec
  <2> QED BY <2>8
<1> HIDE DEF S
<1>4. \A n \in 0..Top : n \in S
  BY <1>2, <1>3, InductionTo, TopIs
<1> QED BY <1>4, TopIs DEF S

\* Two covers agree where they overlap.
LEMMA RecUnique ==
  ASSUME NEW x, NEW A, Layers(x, A), NEW f, IsRec(x, f, A[Top]),
         NEW E, \A q \in E : Looks(x, q) \subseteq E, NEW g, IsRec(x, g, E),
         NEW p \in A[Top] \cap E
  PROVE  f[p] = g[p]
<1> DEFINE S == { n \in Nat : A[n] \subseteq A[Top] /\ \A q \in A[n] \cap E : f[q] = g[q] }
           Down == { n \in Nat : A[Top - n] \subseteq A[Top] }
<1>1. 0 \in Down
  BY TopIs
<1>2. ASSUME NEW n \in Nat, n < Top, n \in Down PROVE n + 1 \in Down
  <2>1. Top - (n + 1) \in 0..MaxNesting /\ (Top - (n + 1)) + 1 = Top - n
    BY <1>2, TopIs DEF Top
  <2>2. A[Top - (n + 1)] \subseteq A[Top - n]
    BY <2>1 DEF Layers
  <2> QED BY <1>2, <2>2
<1> HIDE DEF Down
<1>3. \A n \in 0..Top : n \in Down
  BY <1>1, <1>2, InductionTo, TopIs
<1>4. \A n \in 0..Top : A[n] \subseteq A[Top]
  <2> TAKE n \in 0..Top
  <2>1. Top - n \in 0..Top /\ Top - (Top - n) = n
    BY TopIs
  <2> QED BY <1>3, <2>1 DEF Down
<1>5. 0 \in S
  BY <1>4, TopIs DEF Layers
<1>6. ASSUME NEW n \in Nat, n < Top, n \in S PROVE n + 1 \in S
  <2>1. n \in 0..MaxNesting /\ n + 1 \in 0..Top
    BY <1>6, TopIs DEF Top
  <2>2. A[n + 1] \subseteq A[Top] /\ \A q \in A[n + 1] : Looks(x, q) \subseteq A[n]
    BY <1>4, <2>1 DEF Layers
  <2>3. ASSUME NEW q \in A[n + 1] \cap E PROVE f[q] = g[q]
    <3>1. f[q] = Rule(x, Restrict(f, Looks(x, q)), q) /\ g[q] = Rule(x, Restrict(g, Looks(x, q)), q)
      BY <2>2 DEF IsRec
    <3>2. \A c \in Looks(x, q) : f[c] = g[c]
      BY <1>6, <2>2
    <3>3. Restrict(f, Looks(x, q)) = Restrict(g, Looks(x, q))
      BY <3>2 DEF Restrict
    <3> QED BY <3>1, <3>3
  <2> QED BY <2>2, <2>3
<1> HIDE DEF S
<1>7. \A n \in 0..Top : n \in S
  BY <1>5, <1>6, InductionTo, TopIs
<1> QED BY <1>7, TopIs DEF S

\* What is said of a place, from what is said where it looks.
LEMMA RecIs ==
  ASSUME NEW x, NEW p, Scoped(x, p), \A q \in Looks(x, p) : Scoped(x, q)
  PROVE  Rec(x, p) = Rule(x, [q \in Looks(x, p) |-> Rec(x, q)], p)
<1> DEFINE F(q) == CHOOSE of : IsRec(x, of, Scope(x, q))
<1>1. \A q : Scoped(x, q) => IsRec(x, F(q), Scope(x, q))
  BY RecExists DEF Scoped
<1>2. ASSUME NEW q \in Looks(x, p) PROVE Rec(x, q) = F(p)[q]
  <2>1. Rec(x, q) = Rule(x, Restrict(F(q), Looks(x, q)), q)
    BY DEF Rec
  <2>2. IsRec(x, F(q), Scope(x, q)) /\ IsRec(x, F(p), Scope(x, p))
    BY <1>1
  <2> HIDE DEF F
  <2>3. q \in Scope(x, q) /\ q \in Scope(x, p)
    BY DEF Scoped
  <2>4. F(q)[q] = Rule(x, Restrict(F(q), Looks(x, q)), q)
    BY <2>2, <2>3 DEF IsRec
  <2>5. PICK A : Layers(x, A) /\ A[Top] = Scope(x, p)
    BY DEF Scoped
  <2>6. \A r \in Scope(x, q) : Looks(x, r) \subseteq Scope(x, q)
    BY DEF Scoped
  <2>7. F(p)[q] = F(q)[q]
    BY <2>2, <2>3, <2>5, <2>6, RecUnique
  <2> QED BY <2>1, <2>4, <2>7
<1> HIDE DEF F
<1>3. Restrict(F(p), Looks(x, p)) = [q \in Looks(x, p) |-> Rec(x, q)]
  BY <1>2 DEF Restrict
<1> QED BY <1>3 DEF Rec, F

\* Recursions over a value.
Codecs == {"decode", "encode", "meaning"}

IsWalk(x, of, D) == of = [p \in D |-> Given(x, Restrict(of, Children(p)), p)]
Walk(x, v) == Given(x, Restrict(CHOOSE of : IsWalk(x, of, Parts(v)), Children(v)), v)

LEMMA CodecIs ==
  ASSUME NEW x, x[1] \in Codecs
  PROVE  /\ \A of, p : Rule(x, of, p) = Given(x, of, p)
         /\ \A p : Looks(x, p) = Children(p) /\ Scope(x, p) = Parts(p)
<1>1. x[1] \notin {"pyType", "accepts", "refused", "convert"}
  BY DEF Codecs
<1>2. \A of, p : Rule(x, of, p) = Given(x, of, p)
  BY <1>1, Zenon DEF Rule
<1>3. \A p : Looks(x, p) = Children(p)
  BY <1>1, Zenon DEF Looks
<1>4. \A p : Scope(x, p) = Parts(p)
  BY <1>1, Zenon DEF Scope
<1> QED BY <1>2, <1>3, <1>4

\* A walk over a value is such a recursion.
LEMMA WalkIsRec ==
  ASSUME NEW x, x[1] \in Codecs, NEW v
  PROVE  Walk(x, v) = Rec(x, v)
<1>1. /\ \A of, p : Rule(x, of, p) = Given(x, of, p)
      /\ \A p : Looks(x, p) = Children(p) /\ Scope(x, p) = Parts(p)
  BY CodecIs
<1>2. \A of, D : IsRec(x, of, D) <=> IsWalk(x, of, D)
  <2> TAKE of, D
  <2>1. [p \in D |-> Rule(x, Restrict(of, Looks(x, p)), p)] = [p \in D |-> Given(x, Restrict(of, Children(p)), p)]
    BY <1>1, Zenon
  <2> QED BY <2>1 DEF IsRec, IsWalk
<1>3. (CHOOSE of : IsRec(x, of, Scope(x, v))) = CHOOSE of : IsWalk(x, of, Parts(v))
  BY <1>1, <1>2
<1> QED BY <1>1, <1>3 DEF Rec, Walk

LEMMA ValueScoped ==
  ASSUME NEW x, x[1] \in Codecs, NEW v, Nested(v)
  PROVE  Scoped(x, v)
<1>1. \A p : Looks(x, p) = Children(p) /\ Scope(x, p) = Parts(p)
  BY CodecIs
<1>2. v \in Parts(v) /\ \A q \in Parts(v) : Children(q) \subseteq Parts(v)
  BY PartsNested
<1>3. PICK A : Chain(A) /\ A[Top] = Parts(v)
  BY ChainOf
<1>4. Layers(x, A)
  BY <1>1, <1>3 DEF Chain, Layers
<1> QED BY <1>1, <1>2, <1>3, <1>4 DEF Scoped

\* What is said of a value, from what is said of those in it.
LEMMA WalkIs ==
  ASSUME NEW x, x[1] \in Codecs, NEW v, Nested(v)
  PROVE  Walk(x, v) = Given(x, [c \in Children(v) |-> Walk(x, c)], v)
<1>1. /\ \A of, p : Rule(x, of, p) = Given(x, of, p)
      /\ Looks(x, v) = Children(v)
  BY CodecIs
<1>2. Scoped(x, v) /\ \A c \in Children(v) : Scoped(x, c)
  BY ValueScoped, PartsNested
<1>3. Rec(x, v) = Given(x, [c \in Children(v) |-> Rec(x, c)], v)
  BY <1>1, <1>2, RecIs
<1>4. [c \in Children(v) |-> Rec(x, c)] = [c \in Children(v) |-> Walk(x, c)]
  BY WalkIsRec, Zenon
<1> QED BY <1>3, <1>4, WalkIsRec

LEMMA DecodeWalks == \A known, w : decodeIn(known, w) = Walk(<< "decode", known >>, w)
<1> SUFFICES ASSUME NEW known, NEW w PROVE decodeIn(known, w) = Walk(<< "decode", known >>, w)
  OBVIOUS
<1> DEFINE x == << "decode", known >>
<1>1. \A of, p : Given(x, of, p) = decodeGiven(known, of, p)
  BY DEF Given
<1>2. \A of : IsWalk(x, of, Parts(w)) <=>
         of = [p \in Parts(w) |-> decodeGiven(known, Restrict(of, Children(p)), p)]
  BY <1>1 DEF IsWalk
<1> HIDE DEF x
<1>3. (CHOOSE of : IsWalk(x, of, Parts(w))) =
         CHOOSE of : of = [p \in Parts(w) |-> decodeGiven(known, Restrict(of, Children(p)), p)]
  BY <1>2
<1>4. decodeIn(known, w) =
        decodeGiven(known, Restrict(CHOOSE of : of = [p \in Parts(w) |->
                              decodeGiven(known, Restrict(of, Children(p)), p)], Children(w)), w)
  BY DEF decodeIn
<1>5. decodeIn(known, w) = Walk(x, w)
  BY <1>1, <1>3, <1>4 DEF Walk
<1> QED BY <1>5 DEF x

\* Values without structs, pointers or named types.
Structless(v) == \A p \in Parts(v) : p[1] # "struct"

LEMMA EncodeWalks == \A v : Structless(v) /\ Nested(v) => encode(v) = Walk(<< "encode" >>, v)
<1> SUFFICES ASSUME NEW v, Structless(v), Nested(v) PROVE encode(v) = Walk(<< "encode" >>, v)
  OBVIOUS
<1> DEFINE x == << "encode" >>
<1>1. \A of, p : Given(x, of, p) = encodeGiven(of, p)
  BY DEF Given
<1>2. \A p \in Parts(v) : Encoded(p) = Children(p)
  BY DEF Encoded, Structless
<1>3. \A of : IsWalk(x, of, Parts(v)) <=>
         of = [p \in Parts(v) |-> encodeGiven(Restrict(of, Encoded(p)), p)]
  BY <1>1, <1>2 DEF IsWalk
<1> HIDE DEF x
<1>4. (CHOOSE of : IsWalk(x, of, Parts(v))) =
         CHOOSE of : of = [p \in Parts(v) |-> encodeGiven(Restrict(of, Encoded(p)), p)]
  BY <1>3
<1>5. encode(v) =
        encodeGiven(Restrict(CHOOSE of : of = [p \in Parts(v) |->
                              encodeGiven(Restrict(of, Encoded(p)), p)], Encoded(v)), v)
  BY DEF encode
<1>6. Encoded(v) = Children(v)
  BY <1>2, PartsNested
<1>7. encode(v) = Walk(x, v)
  BY <1>1, <1>4, <1>5, <1>6 DEF Walk
<1> QED BY <1>7 DEF x

LEMMA MeaningWalks == \A w : Meaning(w) = Walk(<< "meaning" >>, w)
<1> SUFFICES ASSUME NEW w PROVE Meaning(w) = Walk(<< "meaning" >>, w)
  OBVIOUS
<1> DEFINE x == << "meaning" >>
<1>1. \A of, p : Given(x, of, p) = MeaningGiven(of, p)
  BY DEF Given
<1>2. \A of : IsWalk(x, of, Parts(w)) <=>
         of = [p \in Parts(w) |-> MeaningGiven(Restrict(of, Children(p)), p)]
  BY <1>1 DEF IsWalk
<1> HIDE DEF x
<1>3. (CHOOSE of : IsWalk(x, of, Parts(w))) =
         CHOOSE of : of = [p \in Parts(w) |-> MeaningGiven(Restrict(of, Children(p)), p)]
  BY <1>2
<1>4. Meaning(w) =
        MeaningGiven(Restrict(CHOOSE of : of = [p \in Parts(w) |->
                              MeaningGiven(Restrict(of, Children(p)), p)], Children(w)), w)
  BY DEF Meaning
<1>5. Meaning(w) = Walk(x, w)
  BY <1>1, <1>3, <1>4 DEF Walk
<1> QED BY <1>5 DEF x

LEMMA DecodeIs ==
  ASSUME NEW known, NEW w, Nested(w)
  PROVE  decodeIn(known, w) = decodeGiven(known, [c \in Children(w) |-> decodeIn(known, c)], w)
<1> DEFINE x == << "decode", known >>
<1>1. \A of, p : Given(x, of, p) = decodeGiven(known, of, p)
  BY DEF Given
<1>2. [c \in Children(w) |-> Walk(x, c)] = [c \in Children(w) |-> decodeIn(known, c)]
  BY DecodeWalks
<1> QED BY <1>1, <1>2, DecodeWalks, WalkIs DEF Codecs

LEMMA EncodeIs ==
  ASSUME NEW v, Nested(v), Structless(v)
  PROVE  encode(v) = encodeGiven([c \in Children(v) |-> encode(c)], v)
<1> DEFINE x == << "encode" >>
<1>1. \A of, p : Given(x, of, p) = encodeGiven(of, p)
  BY DEF Given
<1>2. \A c \in Children(v) : Nested(c) /\ Structless(c)
  BY PartsNested DEF Structless
<1>3. [c \in Children(v) |-> Walk(x, c)] = [c \in Children(v) |-> encode(c)]
  BY <1>2, EncodeWalks
<1> QED BY <1>1, <1>3, EncodeWalks, WalkIs DEF Codecs

LEMMA MeaningIs ==
  ASSUME NEW w, Nested(w)
  PROVE  Meaning(w) = MeaningGiven([c \in Children(w) |-> Meaning(c)], w)
<1> DEFINE x == << "meaning" >>
<1>1. \A of, p : Given(x, of, p) = MeaningGiven(of, p)
  BY DEF Given
<1>2. [c \in Children(w) |-> Walk(x, c)] = [c \in Children(w) |-> Meaning(c)]
  BY MeaningWalks
<1> QED BY <1>1, <1>2, MeaningWalks, WalkIs DEF Codecs

LEMMA MeaningGivenIs ==
  ASSUME NEW of, NEW w, NEW m, m = MeaningGiven(of, w)
  PROVE  /\ w[1] = "bigint" => m = << "int", IF w[2] THEN -w[3] ELSE w[3] >>
         /\ w[1] = "dict" => m = << "dict", { << of[w[2][i][1]], of[w[2][i][2]] >> : i \in DOMAIN w[2] } >>
         /\ w[1] \in {"set", "frozenset"} => m = << w[1], { of[w[2][i]] : i \in DOMAIN w[2] } >>
         /\ w[1] \in {"list", "tuple"} => m = << w[1], Items(of, w, 2) >>
         /\ w[1] = "namedTuple" => m = << w[1], w[2], w[3], Items(of, w, 4) >>
         /\ w[1] \notin {"bigint", "dict", "namedTuple"} \cup Sequence => m = w
BY Zenon DEF MeaningGiven, Sequence

LEMMA ChildrenIs ==
  ASSUME NEW v
  PROVE  /\ v[1] \in Sequence => Children(v) = Range(v[2])
         /\ v[1] = "namedTuple" => Children(v) = Range(v[4])
         /\ v[1] = "dict" => Children(v) = { v[2][i][j] : i \in DOMAIN v[2], j \in 1..2 }
         /\ v[1] = "map" => Children(v) = Range(v[2])
         /\ v[1] \notin {"namedTuple", "dict", "map", "struct", "pointer", "named"} \cup Sequence =>
              Children(v) = {}
<1>1. v[1] \in Sequence => Children(v) = Range(v[2])
  BY DEF Children, Sequence
<1>2. v[1] = "namedTuple" => Children(v) = Range(v[4])
  BY DEF Children, Sequence
<1>3. v[1] = "dict" => Children(v) = { v[2][i][j] : i \in DOMAIN v[2], j \in 1..2 }
  BY DEF Children, Sequence
<1>4. v[1] = "map" => Children(v) = Range(v[2])
  BY DEF Children, Sequence
<1>5. v[1] \notin {"namedTuple", "dict", "map", "struct", "pointer", "named"} \cup Sequence => Children(v) = {}
  BY DEF Children, Sequence
<1> QED BY <1>1, <1>2, <1>3, <1>4, <1>5

\* The kinds of values that the sandbox sends.
Leaves == Plain \cup {"str", "int", "bigint", "datetime", "timedelta", "clock", "timezone", "exception",
                      "function", "builtin", "type", "instance", "repr", "cycle", "uuid"}

LEMMA WireKind == \A w : IsWire(w) => w[1] \in Leaves \cup Sequence \cup {"namedTuple", "dict"}
BY DEF IsWire, Leaves, Plain, Sequence

\* What each kind has in it.
LEMMA WireIs ==
  ASSUME NEW w, IsWire(w)
  PROVE  /\ w[1] = "int" => w \in {"int"} \X (MinInt..MaxInt)
         /\ w[1] = "bigint" => w \in {"bigint"} \X BOOLEAN \X Nat
         /\ w[1] = "str" => w \in {"str"} \X Utf8
         /\ w[1] \in Sequence => w = << w[1], w[2] >> /\ w[2] \in Seq(Range(w[2]))
         /\ w[1] = "namedTuple" => w = << w[1], w[2], w[3], w[4] >> /\ w[4] \in Seq(Range(w[4]))
         /\ w[1] = "dict" =>
              /\ w = << w[1], w[2] >> /\ w[2] \in Seq(Range(w[2]))
              /\ \A i, j \in DOMAIN w[2] : w[2][i][1] = w[2][j][1] => i = j
              /\ \A i \in DOMAIN w[2] : w[2][i][1][1] = "str" => w[2][i][1][2] \in Range(Keys)
         /\ w[1] = "datetime" => w \in {"datetime"} \X Int \X Seq(Int) \X Utf8 /\ Len(w[3]) <= 1
         /\ w[1] = "timedelta" => /\ w \in {"timedelta"} \X Int \X (0..(Seconds - 1)) \X (0..(Micros - 1))
                                 /\ IsInt32(w[2])
         /\ w[1] = "clock" => w = << w[1], w[2], w[3], w[4] >> /\ (w[3] = << >> => w[4] = "")
         /\ w[1] = "exception" => w \in {"exception"} \X STRING \X Seq(STRING) /\ Len(w[3]) <= 1
         /\ w[1] = "builtin" => w = << w[1], w[2] >>
         /\ w[1] \in {"timezone", "function", "type", "instance"} => w = << w[1], w[2], w[3] >>
         /\ w[1] = "bool" => w \in {"bool"} \X BOOLEAN
         /\ w[1] = "float" => w \in {"float"} \X Floats(Double)
         /\ w[1] = "date" => w \in {"date"} \X Int
BY Zenon DEF IsWire, Sequence

\* What becomes of the values that have no others in them.
LEMMA LeafDecodes ==
  ASSUME NEW known, NEW w, Nested(w)
  PROVE  LET d == decodeIn(known, w) IN
         /\ w[1] \in Plain \cup {"str", "int", "clock"} => d = w
         /\ w[1] = "bigint" => d = decodeBig(w[2], w[3])
         /\ w[1] = "datetime" => d = decodeDatetime(w[2], w[3], w[4])
         /\ w[1] = "timedelta" => d = decodeTimedelta(w[2], w[3], w[4])
         /\ w[1] = "timezone" => d = << "location", w[2], w[3] >>
         /\ w[1] = "exception" => d = << "exception", w[2], IF w[3] = << >> THEN "" ELSE w[3][1] >>
         /\ w[1] = "function" => d = << "func", w[2], w[3], FALSE >>
         /\ w[1] = "builtin" => d = << "func", w[2], "", TRUE >>
         /\ w[1] = "type" => d = decodeType(known, w[2], w[3])
         /\ w[1] = "instance" => d = decodeInstance(known, w[2], w[3])
         /\ w[1] \in {"repr", "cycle"} => d = << "repr", w[2] >>
         /\ w[1] = "uuid" => d = Error
<1> DEFINE of == [c \in Children(w) |-> decodeIn(known, c)]
<1>1. decodeIn(known, w) = decodeGiven(known, of, w)
  BY DecodeIs
<1> HIDE DEF of
<1> QED BY <1>1, Zenon DEF decodeGiven, Plain, Sequence

LEMMA ListDecodes ==
  ASSUME NEW known, NEW w, Nested(w), w[1] \in Sequence
  PROVE  decodeIn(known, w) =
           IF \E i \in DOMAIN w[2] : IsError(decodeIn(known, w[2][i])) THEN Error
           ELSE << w[1], [i \in DOMAIN w[2] |-> decodeIn(known, w[2][i])] >>
<1> DEFINE of == [c \in Children(w) |-> decodeIn(known, c)]
<1>1. decodeIn(known, w) = Collect(w[1], Items(of, w, 2))
  <2>1. decodeIn(known, w) = decodeGiven(known, of, w)
    BY DecodeIs
  <2> HIDE DEF of
  <2> QED BY <2>1, Zenon DEF decodeGiven, Plain, Sequence
<1>2. \A i \in DOMAIN w[2] : w[2][i] \in Children(w)
  BY ChildrenIs DEF Range
<1>3. Items(of, w, 2) = [i \in DOMAIN w[2] |-> decodeIn(known, w[2][i])]
  BY <1>2 DEF Items
<1> HIDE DEF of
<1> QED BY <1>1, <1>3 DEF Collect

LEMMA TupleDecodes ==
  ASSUME NEW known, NEW w, Nested(w), w[1] = "namedTuple"
  PROVE  decodeIn(known, w) =
           IF \E i \in DOMAIN w[4] : IsError(decodeIn(known, w[4][i])) THEN Error
           ELSE << "namedTuple", w[2], w[3], [i \in DOMAIN w[4] |-> decodeIn(known, w[4][i])] >>
<1> DEFINE of == [c \in Children(w) |-> decodeIn(known, c)]
           items == [i \in DOMAIN w[4] |-> decodeIn(known, w[4][i])]
<1>1. decodeIn(known, w) = namedTuple(w, Collect("list", Items(of, w, 4)))
  <2>1. decodeIn(known, w) = decodeGiven(known, of, w)
    BY DecodeIs
  <2> HIDE DEF of
  <2> QED BY <2>1, Zenon DEF decodeGiven, Plain, Sequence
<1>2. \A i \in DOMAIN w[4] : w[4][i] \in Children(w)
  BY ChildrenIs DEF Range
<1>3. Items(of, w, 4) = items
  BY <1>2 DEF Items
<1> HIDE DEF of
<1>4. CASE \E i \in DOMAIN w[4] : IsError(decodeIn(known, w[4][i]))
  <2>1. Collect("list", items) = Error
    BY <1>4 DEF Collect
  <2> QED BY <1>1, <1>3, <1>4, <2>1 DEF namedTuple, IsError, Error
<1>5. CASE ~ \E i \in DOMAIN w[4] : IsError(decodeIn(known, w[4][i]))
  <2>1. Collect("list", items) = << "list", items >>
    BY <1>5 DEF Collect
  <2>2. ~IsError(<< "list", items >>)
    BY DEF IsError
  <2> QED BY <1>1, <1>3, <1>5, <2>1, <2>2 DEF namedTuple
<1> QED BY <1>4, <1>5

\* The map of a dict of string keys.
IsMapOf(known, w, m) ==
  /\ decodeIn(known, w) = << "map", m >>
  /\ DOMAIN m = { decodeIn(known, w[2][i][1])[2] : i \in DOMAIN w[2] }
  /\ \A k \in DOMAIN m : \E i \in DOMAIN w[2] :
       decodeIn(known, w[2][i][1])[2] = k /\ m[k] = decodeIn(known, w[2][i][2])

LEMMA DictDecodes ==
  ASSUME NEW known, NEW w, Nested(w), w[1] = "dict"
  PROVE  LET d == decodeIn(known, w)
             key(i) == decodeIn(known, w[2][i][1])
             value(i) == decodeIn(known, w[2][i][2])
         IN /\ (\E i \in DOMAIN w[2] : IsError(key(i)) \/ IsError(value(i))) => d = Error
            /\ (\A i \in DOMAIN w[2] : ~IsError(key(i)) /\ ~IsError(value(i))) =>
                 /\ (\E i \in DOMAIN w[2] : key(i)[1] # "str") =>
                      d = << "dict", [i \in DOMAIN w[2] |-> << key(i), value(i) >>] >>
                 /\ (\A i \in DOMAIN w[2] : key(i)[1] = "str") => \E m : IsMapOf(known, w, m)
<1> DEFINE of == [c \in Children(w) |-> decodeIn(known, c)]
           d == decodeIn(known, w)
           key(i) == decodeIn(known, w[2][i][1])
           value(i) == decodeIn(known, w[2][i][2])
           items0 == [i \in DOMAIN w[2] |-> << of[w[2][i][1]], of[w[2][i][2]] >>]
           items == [i \in DOMAIN w[2] |-> << key(i), value(i) >>]
           atKey(k) == CHOOSE i \in DOMAIN items : items[i][1][2] = k
           map == [k \in { items[i][1][2] : i \in DOMAIN items } |-> items[atKey(k)][2]]
<1>1. d = decodeDict(of, w[2])
  <2>1. d = decodeGiven(known, of, w)
    BY DecodeIs
  <2> HIDE DEF of, d
  <2> QED BY <2>1, Zenon DEF decodeGiven, Plain, Sequence
<1>2. \A i \in DOMAIN w[2] : w[2][i][1] \in Children(w) /\ w[2][i][2] \in Children(w)
  BY ChildrenIs
<1>3. items0 = items
  BY <1>2
<1>4. decodeDict(of, w[2]) =
        IF \E i \in DOMAIN items0 : IsError(items0[i][1]) \/ IsError(items0[i][2]) THEN Error
        ELSE IF \E i \in DOMAIN items0 : items0[i][1][1] # "str" THEN << "dict", items0 >>
        ELSE << "map", [k \in { items0[i][1][2] : i \in DOMAIN items0 } |->
                                   items0[CHOOSE i \in DOMAIN items0 : items0[i][1][2] = k][2]] >>
  BY Zenon DEF decodeDict
<1> HIDE DEF of, d, items0
<1>5. d =
        IF \E i \in DOMAIN items : IsError(items[i][1]) \/ IsError(items[i][2]) THEN Error
        ELSE IF \E i \in DOMAIN items : items[i][1][1] # "str" THEN << "dict", items >>
        ELSE << "map", map >>
  <2> HIDE DEF items
  <2> QED BY <1>1, <1>3, <1>4
<1>6. DOMAIN items = DOMAIN w[2] /\ \A i \in DOMAIN w[2] : items[i][1] = key(i) /\ items[i][2] = value(i)
  OBVIOUS
<1>7. /\ DOMAIN map = { key(i)[2] : i \in DOMAIN w[2] }
      /\ \A k \in DOMAIN map : \E i \in DOMAIN w[2] : key(i)[2] = k /\ map[k] = value(i)
  <2>1. DOMAIN map = { items[i][1][2] : i \in DOMAIN items }
    OBVIOUS
  <2>2. ASSUME NEW k \in DOMAIN map PROVE \E i \in DOMAIN w[2] : key(i)[2] = k /\ map[k] = value(i)
    <3>1. \E i \in DOMAIN items : items[i][1][2] = k
      BY <2>2, <2>1
    <3>2. atKey(k) \in DOMAIN items /\ items[atKey(k)][1][2] = k
      BY <3>1
    <3>3. map[k] = items[atKey(k)][2]
      BY <2>2, <2>1
    <3> HIDE DEF map, atKey, items, key, value
    <3> QED BY <1>6, <3>2, <3>3
  <2> HIDE DEF map, items, key, value
  <2>3. { items[i][1][2] : i \in DOMAIN items } = { key(i)[2] : i \in DOMAIN w[2] }
    BY <1>6
  <2> QED BY <2>1, <2>2, <2>3
<1> HIDE DEF items, map, key, value, atKey
<1>8. (\E i \in DOMAIN w[2] : IsError(key(i)) \/ IsError(value(i))) => d = Error
  <2>1. (\E i \in DOMAIN w[2] : IsError(key(i)) \/ IsError(value(i))) =>
          \E i \in DOMAIN items : IsError(items[i][1]) \/ IsError(items[i][2])
    BY <1>6
  <2>2. (\E i \in DOMAIN items : IsError(items[i][1]) \/ IsError(items[i][2])) => d = Error
    BY <1>5, Zenon
  <2> QED BY <2>1, <2>2
<1>9. ASSUME \A i \in DOMAIN w[2] : ~IsError(key(i)) /\ ~IsError(value(i)),
             \E i \in DOMAIN w[2] : key(i)[1] # "str"
      PROVE  d = << "dict", items >>
  BY <1>5, <1>6, <1>9
<1>10. ASSUME \A i \in DOMAIN w[2] : ~IsError(key(i)) /\ ~IsError(value(i)),
              \A i \in DOMAIN w[2] : key(i)[1] = "str"
       PROVE  d = << "map", map >>
  BY <1>5, <1>6, <1>10
<1>11. ASSUME \A i \in DOMAIN w[2] : ~IsError(key(i)) /\ ~IsError(value(i)),
              \A i \in DOMAIN w[2] : key(i)[1] = "str"
       PROVE  \E m : IsMapOf(known, w, m)
  <2>1. d = << "map", map >>
    BY <1>10, <1>11
  <2>2. IsMapOf(known, w, map)
    BY <1>7, <2>1, Zenon DEF IsMapOf, d, key, value
  <2> QED BY <2>2
<1>12. items = [i \in DOMAIN w[2] |-> << key(i), value(i) >>]
  BY DEF items
<1> QED BY <1>8, <1>9, <1>11, <1>12, Zenon DEF d, key, value

KeysUpTo(q, m, n) ==
  q = [i \in 0..n |-> IF i = 0 THEN << >>
                      ELSE IF Keys[i] \in DOMAIN m THEN Append(q[i - 1], Keys[i]) ELSE q[i - 1]]

LEMMA SortedExists ==
  ASSUME NEW m
  PROVE  \A n \in Nat : \E q : KeysUpTo(q, m, n)
<1> DEFINE S == { n \in Nat : \E q : KeysUpTo(q, m, n) }
<1>1. 0 \in S
  <2> DEFINE q0 == [i \in 0..0 |-> << >>]
  <2>1. q0 = [i \in 0..0 |-> IF i = 0 THEN << >>
                             ELSE IF Keys[i] \in DOMAIN m THEN Append(q0[i - 1], Keys[i]) ELSE q0[i - 1]]
    OBVIOUS
  <2>2. KeysUpTo(q0, m, 0)
    BY <2>1 DEF KeysUpTo
  <2> QED BY <2>2
<1>2. ASSUME NEW n \in Nat, n \in S PROVE n + 1 \in S
  <2>1. PICK q : KeysUpTo(q, m, n)
    BY <1>2
  <2> DEFINE last == IF Keys[n + 1] \in DOMAIN m THEN Append(q[n], Keys[n + 1]) ELSE q[n]
             r == [i \in 0..(n + 1) |-> IF i = n + 1 THEN last ELSE q[i]]
  <2>2. \A i \in 0..n : q[i] = IF i = 0 THEN << >>
                               ELSE IF Keys[i] \in DOMAIN m THEN Append(q[i - 1], Keys[i]) ELSE q[i - 1]
    BY <2>1 DEF KeysUpTo
  <2>3. ASSUME NEW i \in 0..(n + 1)
        PROVE r[i] = IF i = 0 THEN << >>
                     ELSE IF Keys[i] \in DOMAIN m THEN Append(r[i - 1], Keys[i]) ELSE r[i - 1]
    <3>1. CASE i = n + 1
      <4>1. r[i] = last /\ i # 0 /\ r[i - 1] = q[n]
        BY <3>1
      <4> HIDE DEF r
      <4> QED BY <3>1, <4>1
    <3>2. CASE i # n + 1
      <4>1. i \in 0..n /\ r[i] = q[i] /\ (i # 0 => r[i - 1] = q[i - 1])
        BY <3>2
      <4> HIDE DEF r
      <4> QED BY <4>1, <2>2
    <3> QED BY <3>1, <3>2
  <2>4. r = [i \in 0..(n + 1) |-> r[i]]
    OBVIOUS
  <2> HIDE DEF r
  <2>5. KeysUpTo(r, m, n + 1)
    BY <2>3, <2>4 DEF KeysUpTo
  <2> QED BY <2>5
<1> HIDE DEF S
<1>3. Nat \subseteq S
  BY <1>1, <1>2, Induction
<1> QED BY <1>3 DEF S

\* The keys of a map, each once or more.
LEMMA SortedKeysAre ==
  ASSUME NEW m
  PROVE  /\ SortedKeys(m) \in Seq(STRING)
         /\ \A i \in DOMAIN SortedKeys(m) : SortedKeys(m)[i] \in DOMAIN m
         /\ \A k \in DOMAIN m \cap Range(Keys) : \E i \in DOMAIN SortedKeys(m) : SortedKeys(m)[i] = k
<1> DEFINE n == Len(Keys)
           G(q) == q = [i \in 0..n |-> IF i = 0 THEN << >>
                      ELSE IF Keys[i] \in DOMAIN m THEN Append(q[i - 1], Keys[i]) ELSE q[i - 1]]
           g == CHOOSE q : G(q)
<1>0. Keys \in Seq(STRING) /\ n \in Nat
  BY ValuesAssumption
<1>1. SortedKeys(m) = g[n]
  BY DEF SortedKeys
<1>2. \A q : KeysUpTo(q, m, n) <=> G(q)
  BY DEF KeysUpTo
<1>3. \E q : G(q)
  BY <1>0, <1>2, SortedExists
<1>4. G(g)
  <2> HIDE DEF G
  <2> QED BY <1>3
<1> DEFINE S == { j \in Nat : /\ g[j] \in Seq(STRING)
                              /\ \A i \in 1..Len(g[j]) : g[j][i] \in DOMAIN m
                              /\ \A x \in 1..j : Keys[x] \in DOMAIN m =>
                                   \E i \in 1..Len(g[j]) : g[j][i] = Keys[x] }
<1> HIDE DEF g, n
<1>5. g[0] = << >> /\ \A j \in 0..n : j # 0 =>
         g[j] = IF Keys[j] \in DOMAIN m THEN Append(g[j - 1], Keys[j]) ELSE g[j - 1]
  <2> DEFINE T(q, i) == IF Keys[i] \in DOMAIN m THEN Append(q[i - 1], Keys[i]) ELSE q[i - 1]
  <2>1. g = [i \in 0..n |-> IF i = 0 THEN << >> ELSE T(g, i)]
    BY <1>4
  <2> HIDE DEF T
  <2>2. g[0] = << >> /\ \A j \in 0..n : j # 0 => g[j] = T(g, j)
    BY <1>0, <2>1
  <2> QED BY <2>2 DEF T
<1> HIDE DEF G
<1>6. 0 \in S
  <2>1. g[0] = << >> /\ << >> \in Seq(STRING) /\ Len(<< >>) = 0
    BY <1>5
  <2>2. \A i \in 1..0 : FALSE
    OBVIOUS
  <2> QED BY <2>1, <2>2
<1>7. ASSUME NEW j \in Nat, j < n, j \in S PROVE j + 1 \in S
  <2> DEFINE s == g[j]
             t == g[j + 1]
             k == Keys[j + 1]
  <2>1. t = IF k \in DOMAIN m THEN Append(s, k) ELSE s
    <3>1. j + 1 \in 0..n /\ j + 1 # 0 /\ (j + 1) - 1 = j
      BY <1>0, <1>7
    <3> QED BY <1>5, <3>1
  <2>2. k \in STRING
    BY <1>0, <1>7 DEF n
  <2>3. /\ s \in Seq(STRING) /\ \A i \in 1..Len(s) : s[i] \in DOMAIN m
        /\ \A x \in 1..j : Keys[x] \in DOMAIN m => \E i \in 1..Len(s) : s[i] = Keys[x]
    BY <1>7
  <2> HIDE DEF s, t, S
  <2>4. CASE k \in DOMAIN m
    <3>1. t = Append(s, k) /\ t \in Seq(STRING) /\ Len(t) = Len(s) + 1 /\ Len(s) \in Nat
          /\ t[Len(s) + 1] = k /\ \A i \in 1..Len(s) : t[i] = s[i]
      BY <2>1, <2>2, <2>3, <2>4
    <3>2. \A i \in 1..Len(t) : t[i] \in DOMAIN m
      BY <2>3, <2>4, <3>1
    <3>3. ASSUME NEW x \in 1..(j + 1), Keys[x] \in DOMAIN m PROVE \E i \in 1..Len(t) : t[i] = Keys[x]
      <4>1. CASE x = j + 1
        BY <4>1, <3>1
      <4>2. CASE x # j + 1
        <5>1. x \in 1..j
          BY <4>2
        <5>2. PICK i \in 1..Len(s) : s[i] = Keys[x]
          BY <5>1, <3>3, <2>3
        <5>3. i \in 1..Len(t) /\ t[i] = s[i]
          BY <3>1
        <5> QED BY <5>2, <5>3
      <4> QED BY <4>1, <4>2
    <3> QED BY <3>1, <3>2, <3>3 DEF S, t
  <2>5. CASE k \notin DOMAIN m
    <3>1. t = s /\ \A x \in 1..(j + 1) : x \in 1..j \/ x = j + 1
      BY <2>1, <2>5
    <3> QED BY <2>3, <2>5, <3>1 DEF S, t
  <2> QED BY <2>4, <2>5
<1> HIDE DEF S
<1>8. n \in S
  <2>1. \A j \in 0..n : j \in S
    BY <1>0, <1>6, <1>7, InductionTo
  <2> QED BY <1>0, <2>1
<1>9. /\ g[n] \in Seq(STRING) /\ \A i \in 1..Len(g[n]) : g[n][i] \in DOMAIN m
      /\ \A x \in 1..n : Keys[x] \in DOMAIN m => \E i \in 1..Len(g[n]) : g[n][i] = Keys[x]
  BY <1>8 DEF S
<1>10. DOMAIN g[n] = 1..Len(g[n])
  BY <1>9
<1>11. \A k \in Range(Keys) : \E x \in 1..n : k = Keys[x]
  BY <1>0 DEF Range, n
<1> QED BY <1>1, <1>9, <1>10, <1>11

(***************************************************************************)
(* The codec, kind by kind: to Python                                      *)
(***************************************************************************)

LEMMA LeafEncodes ==
  ASSUME NEW v, Nested(v), Structless(v)
  PROVE  LET e == encode(v) IN
         /\ v[1] \in Plain => e = v
         /\ v[1] = "timedelta" => e = encodeDelta(v[2], v[3], v[4])
         /\ v[1] = "str" => e = encodeText(v[2])
         /\ v[1] \in Integer => e = encodeBig(v[2])
         /\ v[1] = "time" => e = encodeTime(v[2], v[3], v[4])
         /\ v[1] = "duration" => e = encodeDuration(v[2])
         /\ v[1] = "clock" => e = << "clock", v[2], v[3], IF v[3] = << >> THEN "" ELSE v[4] >>
         /\ v[1] = "location" => e = << "timezone", v[2], v[3] >>
         /\ v[1] = "exception" => e = encodeException(v[2], v[3])
         /\ v[1] \in {"func", "type", "hostObject", "hostClass", "classInstance", "repr", "error"} =>
              e = encodeReference(v)
<1> DEFINE of == [c \in Children(v) |-> encode(c)]
<1>1. encode(v) = encodeGiven(of, v)
  BY EncodeIs
<1> HIDE DEF of
<1> QED BY <1>1, Zenon DEF encodeGiven, Plain, Sequence, Integer

LEMMA ListEncodes ==
  ASSUME NEW v, Nested(v), Structless(v), v[1] \in Sequence
  PROVE  encode(v) =
           IF \E i \in DOMAIN v[2] : IsError(encode(v[2][i])) THEN Error
           ELSE << v[1], [i \in DOMAIN v[2] |-> encode(v[2][i])] >>
<1> DEFINE of == [c \in Children(v) |-> encode(c)]
<1>1. encode(v) = Collect(v[1], Items(of, v, 2))
  <2>1. encode(v) = encodeGiven(of, v)
    BY EncodeIs
  <2> HIDE DEF of
  <2> QED BY <2>1, Zenon DEF encodeGiven, Plain, Sequence, Integer
<1>2. \A i \in DOMAIN v[2] : v[2][i] \in Children(v)
  BY ChildrenIs DEF Range
<1>3. Items(of, v, 2) = [i \in DOMAIN v[2] |-> encode(v[2][i])]
  BY <1>2 DEF Items
<1> HIDE DEF of
<1> QED BY <1>1, <1>3 DEF Collect

LEMMA TupleEncodes ==
  ASSUME NEW v, Nested(v), Structless(v), v[1] = "namedTuple"
  PROVE  encode(v) =
           IF \E i \in DOMAIN v[4] : IsError(encode(v[4][i])) THEN Error
           ELSE << "namedTuple", v[2], v[3], [i \in DOMAIN v[4] |-> encode(v[4][i])] >>
<1> DEFINE of == [c \in Children(v) |-> encode(c)]
           items == [i \in DOMAIN v[4] |-> encode(v[4][i])]
<1>1. encode(v) = namedTuple(v, Collect("list", Items(of, v, 4)))
  <2>1. encode(v) = encodeGiven(of, v)
    BY EncodeIs
  <2> HIDE DEF of
  <2> QED BY <2>1, Zenon DEF encodeGiven, Plain, Sequence, Integer
<1>2. \A i \in DOMAIN v[4] : v[4][i] \in Children(v)
  BY ChildrenIs DEF Range
<1>3. Items(of, v, 4) = items
  BY <1>2 DEF Items
<1> HIDE DEF of
<1>4. CASE \E i \in DOMAIN v[4] : IsError(encode(v[4][i]))
  <2>1. Collect("list", items) = Error
    BY <1>4 DEF Collect
  <2> QED BY <1>1, <1>3, <1>4, <2>1 DEF namedTuple, IsError, Error
<1>5. CASE ~ \E i \in DOMAIN v[4] : IsError(encode(v[4][i]))
  <2>1. Collect("list", items) = << "list", items >>
    BY <1>5 DEF Collect
  <2>2. ~IsError(<< "list", items >>)
    BY DEF IsError
  <2> QED BY <1>1, <1>3, <1>5, <2>1, <2>2 DEF namedTuple
<1> QED BY <1>4, <1>5

LEMMA DictEncodes ==
  ASSUME NEW v, Nested(v), Structless(v), v[1] = "dict"
  PROVE  encode(v) =
           IF \E i \in DOMAIN v[2] : IsError(encode(v[2][i][1])) \/ IsError(encode(v[2][i][2])) THEN Error
           ELSE << "dict", [i \in DOMAIN v[2] |-> << encode(v[2][i][1]), encode(v[2][i][2]) >>] >>
<1> DEFINE of == [c \in Children(v) |-> encode(c)]
           pairs == [i \in DOMAIN v[2] |-> << encode(v[2][i][1]), encode(v[2][i][2]) >>]
<1>1. encode(v) = encodePairs(of, v[2])
  <2>1. encode(v) = encodeGiven(of, v)
    BY EncodeIs
  <2> HIDE DEF of
  <2> QED BY <2>1, Zenon DEF encodeGiven, Plain, Sequence, Integer
<1>2. \A i \in DOMAIN v[2] : v[2][i][1] \in Children(v) /\ v[2][i][2] \in Children(v)
  BY ChildrenIs
<1>3. [i \in DOMAIN v[2] |-> << of[v[2][i][1]], of[v[2][i][2]] >>] = pairs
  BY <1>2
<1> HIDE DEF of
<1>4. encode(v) = Dict(pairs)
  <2> HIDE DEF pairs
  <2> QED BY <1>1, <1>3 DEF encodePairs
<1> QED BY <1>4 DEF Dict

\* The dict that a map goes out as.
IsDictOf(m, v, pairs) ==
  /\ encode(v) = << "dict", pairs >>
  /\ \A i \in DOMAIN pairs : \E k \in DOMAIN m : pairs[i] = << << "str", k >>, encode(m[k]) >>
  /\ \A k \in DOMAIN m : \E i \in DOMAIN pairs : pairs[i] = << << "str", k >>, encode(m[k]) >>

\* A map with keys that encode goes out as a dict with those keys.
LEMMA MapEncodes ==
  ASSUME NEW m, NEW v, v = << "map", m >>, Nested(v), Structless(v), DOMAIN m \subseteq Range(Keys) \ BadText
  PROVE  /\ (\E k \in DOMAIN m : IsError(encode(m[k]))) => encode(v) = Error
         /\ (\A k \in DOMAIN m : ~IsError(encode(m[k]))) => \E pairs : IsDictOf(m, v, pairs)
<1> DEFINE of == [c \in Children(v) |-> encode(c)]
           s == SortedKeys(m)
           pairs == [i \in DOMAIN s |-> << << "str", s[i] >>, encode(m[s[i]]) >>]
<1>1. encode(v) = encodeStringMap(of, m)
  <2>1. encode(v) = encodeGiven(of, v) /\ v[1] = "map" /\ v[2] = m
    BY EncodeIs
  <2> HIDE DEF of
  <2> QED BY <2>1, Zenon DEF encodeGiven, Plain, Sequence, Integer
<1>2. \A k \in DOMAIN m : m[k] \in Children(v)
  BY ChildrenIs DEF Range
<1>3. /\ \A i \in DOMAIN s : s[i] \in DOMAIN m
      /\ \A k \in DOMAIN m : \E i \in DOMAIN s : s[i] = k
  BY SortedKeysAre
<1>4. \A k \in DOMAIN m : encodeText(k) = << "str", k >> /\ of[m[k]] = encode(m[k])
  BY <1>2 DEF encodeText
<1>5. [i \in DOMAIN s |-> << encodeText(s[i]), of[m[s[i]]] >>] = pairs
  <2> HIDE DEF of, s
  <2> QED BY <1>3, <1>4
<1>6. encode(v) = Dict(pairs)
  <2>1. encodeStringMap(of, m) = Dict([i \in DOMAIN s |-> << encodeText(s[i]), of[m[s[i]]] >>])
    BY DEF encodeStringMap
  <2> HIDE DEF of, s, pairs
  <2> QED BY <1>1, <1>5, <2>1
<1> HIDE DEF of, s
<1>7. DOMAIN pairs = DOMAIN s /\ \A i \in DOMAIN s : pairs[i] = << << "str", s[i] >>, encode(m[s[i]]) >>
  OBVIOUS
<1>8. \A i \in DOMAIN s : ~IsError(pairs[i][1]) /\ (IsError(pairs[i][2]) <=> IsError(encode(m[s[i]])))
  BY <1>7 DEF IsError
<1> HIDE DEF pairs
<1>9. ASSUME NEW k \in DOMAIN m, IsError(encode(m[k])) PROVE encode(v) = Error
  <2>1. PICK i \in DOMAIN s : s[i] = k
    BY <1>3
  <2>2. IsError(pairs[i][2])
    BY <1>8, <1>9, <2>1
  <2> QED BY <1>6, <1>7, <2>2 DEF Dict
<1>10. ASSUME \A k \in DOMAIN m : ~IsError(encode(m[k])) PROVE encode(v) = << "dict", pairs >>
  <2>1. \A i \in DOMAIN pairs : ~IsError(pairs[i][1]) /\ ~IsError(pairs[i][2])
    BY <1>3, <1>7, <1>8, <1>10
  <2> QED BY <1>6, <2>1 DEF Dict
<1>11. /\ \A i \in DOMAIN pairs : \E k \in DOMAIN m : pairs[i] = << << "str", k >>, encode(m[k]) >>
       /\ \A k \in DOMAIN m : \E i \in DOMAIN pairs : pairs[i] = << << "str", k >>, encode(m[k]) >>
  BY <1>3, <1>7
<1>12. ASSUME \A k \in DOMAIN m : ~IsError(encode(m[k])) PROVE \E q : IsDictOf(m, v, q)
  <2>1. IsDictOf(m, v, pairs)
    BY <1>10, <1>11, <1>12 DEF IsDictOf
  <2> QED BY <2>1
<1> QED BY <1>9, <1>12

(***************************************************************************)
(* The codec, kind by kind: what it makes of each                          *)
(***************************************************************************)

OpaqueHere(known, p) ==
  \/ p[1] \in {"repr", "cycle", "uuid"}
  \/ p[1] = "type" /\ p[3] # "builtin" /\ ~(p[3] = "host" /\ p[2] \in known)
  \/ p[1] = "instance" /\ ~(p[2] = "host" /\ p[3] \in known)
ChangedHere(p) == (p[1] = "datetime" /\ p[3] = << >>) \/ (p[1] = "exception" /\ p[3] = << "" >>)

LEMMA OpaqueIs == \A known, w : Opaque(known, w) <=> \E p \in Parts(w) : OpaqueHere(known, p)
BY DEF Opaque, OpaqueHere

LEMMA ChangedIs == \A w : Changed(w) <=> \E p \in Parts(w) : ChangedHere(p)
BY DEF Changed, ChangedHere

\* The kinds, on either side, that have no others in them.
NoChildren == Leaves \cup Integer \cup
  {"time", "duration", "location", "func", "hostClass", "hostObject", "classInstance", "error"}

LEMMA LeafIs == \A v : v[1] \in NoChildren => Children(v) = {} /\ Nested(v) /\ Structless(v) /\ Parts(v) = {v}
<1> SUFFICES ASSUME NEW v, v[1] \in NoChildren
             PROVE  Children(v) = {} /\ Nested(v) /\ Structless(v) /\ Parts(v) = {v}
  OBVIOUS
<1>1. v[1] \notin {"namedTuple", "dict", "map", "struct", "pointer", "named"} \cup Sequence
  BY DEF NoChildren, Leaves, Plain, Integer, Sequence
<1>2. Children(v) = {}
  BY <1>1, ChildrenIs
<1> QED BY <1>1, <1>2, LeafNested DEF Structless

\* What encodes to what, for what decode gives.
LEMMA EncodesPlain ==
  \A v : /\ v[1] \in Plain => encode(v) = v
         /\ v[1] = "timedelta" => encode(v) = encodeDelta(v[2], v[3], v[4])
<1>1. \A v : v[1] \in Plain \cup {"timedelta"} => v[1] \in NoChildren
  BY DEF NoChildren, Leaves
<1> QED BY <1>1, LeafIs, LeafEncodes

LEMMA EncodesReference ==
  ASSUME NEW v, v[1] \in {"func", "type", "hostObject", "hostClass", "classInstance", "repr", "error"}
  PROVE  encode(v) = encodeReference(v)
<1>1. v[1] \in NoChildren
  BY DEF NoChildren, Leaves
<1>2. Nested(v) /\ Structless(v)
  BY <1>1, LeafIs
<1> QED BY <1>2, LeafEncodes

LEMMA EncodesFunction ==
  \A n, d : /\ encode(<< "func", n, d, FALSE >>) = << "function", n, d >>
           /\ encode(<< "func", n, d, TRUE >>) = << "builtin", n >>
<1>1. ASSUME NEW v, v[1] = "func"
      PROVE  encode(v) = IF v[4] THEN << "builtin", v[2] >> ELSE << "function", v[2], v[3] >>
  <2>1. encode(v) = encodeReference(v)
    BY <1>1, EncodesReference
  <2> QED BY <1>1, <2>1, Zenon DEF encodeReference
<1>2. ASSUME NEW n, NEW d PROVE encode(<< "func", n, d, FALSE >>) = << "function", n, d >>
  <2> DEFINE v == << "func", n, d, FALSE >>
  <2>1. v[1] = "func" /\ v[2] = n /\ v[3] = d /\ ~v[4]
    OBVIOUS
  <2> HIDE DEF v
  <2>2. encode(v) = << "function", n, d >>
    BY <1>1, <2>1, Zenon
  <2> QED BY <2>2 DEF v
<1>3. ASSUME NEW n, NEW d PROVE encode(<< "func", n, d, TRUE >>) = << "builtin", n >>
  <2> DEFINE v == << "func", n, d, TRUE >>
  <2>1. v[1] = "func" /\ v[2] = n /\ v[3] = d /\ v[4]
    OBVIOUS
  <2> HIDE DEF v
  <2>2. encode(v) = << "builtin", n >>
    BY <1>1, <2>1, Zenon
  <2> QED BY <2>2 DEF v
<1> QED BY <1>2, <1>3

LEMMA EncodesText == \A s : encode(<< "str", s >>) = encodeText(s)
<1> SUFFICES ASSUME NEW s PROVE encode(<< "str", s >>) = encodeText(s)
  OBVIOUS
<1> DEFINE v == << "str", s >>
<1>1. v[1] = "str" /\ v[2] = s /\ v[1] \in NoChildren
  BY DEF NoChildren, Leaves, Integer
<1> HIDE DEF v
<1>2. encode(v) = encodeText(s)
  BY <1>1, LeafIs, LeafEncodes DEF Integer
<1> QED BY <1>2 DEF v

LEMMA EncodesInt == \A n : encode(<< "int", n >>) = encodeBig(n)
<1> SUFFICES ASSUME NEW n PROVE encode(<< "int", n >>) = encodeBig(n)
  OBVIOUS
<1> DEFINE v == << "int", n >>
<1>1. v[1] = "int" /\ v[2] = n /\ v[1] \in NoChildren
  BY DEF NoChildren, Leaves, Integer
<1> HIDE DEF v
<1>2. encode(v) = encodeBig(n)
  BY <1>1, LeafIs, LeafEncodes DEF Integer
<1> QED BY <1>2 DEF v

LEMMA EncodesBig == \A n : encode(<< "bigInt", n >>) = encodeBig(n)
<1> SUFFICES ASSUME NEW n PROVE encode(<< "bigInt", n >>) = encodeBig(n)
  OBVIOUS
<1> DEFINE v == << "bigInt", n >>
<1>1. v[1] = "bigInt" /\ v[2] = n /\ v[1] \in NoChildren
  BY DEF NoChildren, Leaves, Integer
<1> HIDE DEF v
<1>2. encode(v) = encodeBig(n)
  BY <1>1, LeafIs, LeafEncodes DEF Integer
<1> QED BY <1>2 DEF v

LEMMA EncodesTime == \A t, o, z : encode(<< "time", t, o, z >>) = encodeTime(t, o, z)
<1> SUFFICES ASSUME NEW t, NEW o, NEW z PROVE encode(<< "time", t, o, z >>) = encodeTime(t, o, z)
  OBVIOUS
<1> DEFINE v == << "time", t, o, z >>
<1>1. v[1] = "time" /\ v[2] = t /\ v[3] = o /\ v[4] = z /\ v[1] \in NoChildren
  BY DEF NoChildren, Leaves, Integer
<1> HIDE DEF v
<1>2. encode(v) = encodeTime(t, o, z)
  BY <1>1, LeafIs, LeafEncodes DEF Integer
<1> QED BY <1>2 DEF v

LEMMA EncodesDuration == \A t : encode(<< "duration", t >>) = encodeDuration(t)
<1> SUFFICES ASSUME NEW t PROVE encode(<< "duration", t >>) = encodeDuration(t)
  OBVIOUS
<1> DEFINE v == << "duration", t >>
<1>1. v[1] = "duration" /\ v[2] = t /\ v[1] \in NoChildren
  BY DEF NoChildren, Leaves, Integer
<1> HIDE DEF v
<1>2. encode(v) = encodeDuration(t)
  BY <1>1, LeafIs, LeafEncodes DEF Integer
<1> QED BY <1>2 DEF v

LEMMA EncodesLocation == \A o, z : encode(<< "location", o, z >>) = << "timezone", o, z >>
<1> SUFFICES ASSUME NEW o, NEW z PROVE encode(<< "location", o, z >>) = << "timezone", o, z >>
  OBVIOUS
<1> DEFINE v == << "location", o, z >>
<1>1. v[1] = "location" /\ v[2] = o /\ v[3] = z /\ v[1] \in NoChildren
  BY DEF NoChildren, Leaves, Integer
<1> HIDE DEF v
<1>2. encode(v) = << "timezone", o, z >>
  BY <1>1, LeafIs, LeafEncodes DEF Integer
<1> QED BY <1>2 DEF v

LEMMA EncodesException == \A t, a : encode(<< "exception", t, a >>) = encodeException(t, a)
<1> SUFFICES ASSUME NEW t, NEW a PROVE encode(<< "exception", t, a >>) = encodeException(t, a)
  OBVIOUS
<1> DEFINE v == << "exception", t, a >>
<1>1. v[1] = "exception" /\ v[2] = t /\ v[3] = a /\ v[1] \in NoChildren
  BY DEF NoChildren, Leaves, Integer
<1> HIDE DEF v
<1>2. encode(v) = encodeException(t, a)
  BY <1>1, LeafIs, LeafEncodes DEF Integer
<1> QED BY <1>2 DEF v

LEMMA EncodesClock == \A v : v[1] = "clock" /\ v = << "clock", v[2], v[3], v[4] >> /\ (v[3] = << >> => v[4] = "") => encode(v) = v
<1> SUFFICES ASSUME NEW v, v[1] = "clock", v = << "clock", v[2], v[3], v[4] >>, v[3] = << >> => v[4] = ""
             PROVE  encode(v) = v
  OBVIOUS
<1>1. v[1] \in NoChildren
  BY DEF NoChildren, Leaves
<1>2. encode(v) = << "clock", v[2], v[3], IF v[3] = << >> THEN "" ELSE v[4] >>
  BY <1>1, LeafIs, LeafEncodes
<1>3. (IF v[3] = << >> THEN "" ELSE v[4]) = v[4]
  OBVIOUS
<1> QED BY <1>2, <1>3

\* The wire values of a kind.
LEMMA WireInt == \A w : IsWire(w) /\ w[1] = "int" => w = << "int", w[2] >> /\ IsInt64(w[2])
<1> SUFFICES ASSUME NEW w, IsWire(w), w[1] = "int" PROVE w = << "int", w[2] >> /\ IsInt64(w[2])
  OBVIOUS
<1>1. w \in {"int"} \X (MinInt..MaxInt)
  BY WireIs
<1> QED BY <1>1 DEF IsInt64

LEMMA WireText == \A w : IsWire(w) /\ w[1] = "str" => w = << "str", w[2] >> /\ w[2] \notin BadText
<1> SUFFICES ASSUME NEW w, IsWire(w), w[1] = "str" PROVE w = << "str", w[2] >> /\ w[2] \notin BadText
  OBVIOUS
<1>1. w \in {"str"} \X Utf8
  BY WireIs
<1> QED BY <1>1 DEF Utf8

LEMMA WireBig ==
  \A w : IsWire(w) /\ w[1] = "bigint" => w = << "bigint", w[2], w[3] >> /\ w[2] \in BOOLEAN /\ w[3] \in Nat
<1> SUFFICES ASSUME NEW w, IsWire(w), w[1] = "bigint"
             PROVE  w = << "bigint", w[2], w[3] >> /\ w[2] \in BOOLEAN /\ w[3] \in Nat
  OBVIOUS
<1>1. w \in {"bigint"} \X BOOLEAN \X Nat
  BY WireIs
<1> QED BY <1>1

LEMMA WireTimedelta ==
  \A w : IsWire(w) /\ w[1] = "timedelta" =>
    w = << "timedelta", w[2], w[3], w[4] >> /\ Normal(w[2], w[3], w[4]) /\ IsInt32(w[2])
<1> SUFFICES ASSUME NEW w, IsWire(w), w[1] = "timedelta"
             PROVE  w = << "timedelta", w[2], w[3], w[4] >> /\ Normal(w[2], w[3], w[4]) /\ IsInt32(w[2])
  OBVIOUS
<1>1. w \in {"timedelta"} \X Int \X (0..(Seconds - 1)) \X (0..(Micros - 1)) /\ IsInt32(w[2])
  BY WireIs
<1> QED BY <1>1 DEF Normal

LEMMA WireDatetime ==
  \A w : IsWire(w) /\ w[1] = "datetime" =>
    w = << "datetime", w[2], w[3], w[4] >> /\ w[2] \in Int /\ w[3] \in Seq(Int) /\ Len(w[3]) <= 1
<1> SUFFICES ASSUME NEW w, IsWire(w), w[1] = "datetime"
             PROVE  w = << "datetime", w[2], w[3], w[4] >> /\ w[2] \in Int /\ w[3] \in Seq(Int) /\ Len(w[3]) <= 1
  OBVIOUS
<1>1. w \in {"datetime"} \X Int \X Seq(Int) \X Utf8 /\ Len(w[3]) <= 1
  BY WireIs
<1> QED BY <1>1

LEMMA WireException ==
  \A w : IsWire(w) /\ w[1] = "exception" =>
    w = << "exception", w[2], w[3] >> /\ w[3] \in Seq(STRING) /\ Len(w[3]) <= 1
<1> SUFFICES ASSUME NEW w, IsWire(w), w[1] = "exception"
             PROVE  w = << "exception", w[2], w[3] >> /\ w[3] \in Seq(STRING) /\ Len(w[3]) <= 1
  OBVIOUS
<1>1. w \in {"exception"} \X STRING \X Seq(STRING) /\ Len(w[3]) <= 1
  BY WireIs
<1> QED BY <1>1

LEMMA LeafMeans == \A w : w[1] \in NoChildren \ {"bigint"} => Meaning(w) = w
<1> SUFFICES ASSUME NEW w, w[1] \in NoChildren, w[1] # "bigint" PROVE Meaning(w) = w
  OBVIOUS
<1> DEFINE of == [c \in Children(w) |-> Meaning(c)]
<1>1. Meaning(w) = MeaningGiven(of, w)
  BY LeafIs, MeaningIs
<1> HIDE DEF of
<1>2. w[1] \notin {"bigint", "dict", "namedTuple"} \cup Sequence
  BY DEF NoChildren, Leaves, Plain, Integer, Sequence
<1> QED BY <1>1, <1>2, Zenon DEF MeaningGiven, Sequence

LEMMA BigMeans == \A b, n : Meaning(<< "bigint", b, n >>) = << "int", IF b THEN -n ELSE n >>
<1> SUFFICES ASSUME NEW b, NEW n PROVE Meaning(<< "bigint", b, n >>) = << "int", IF b THEN -n ELSE n >>
  OBVIOUS
<1> DEFINE w == << "bigint", b, n >>
           of == [c \in Children(w) |-> Meaning(c)]
<1>1. w[1] = "bigint" /\ w[2] = b /\ w[3] = n /\ w[1] \in NoChildren
  BY DEF NoChildren, Leaves
<1> HIDE DEF w
<1>2. Meaning(w) = MeaningGiven(of, w)
  BY <1>1, LeafIs, MeaningIs
<1> HIDE DEF of
<1>3. Meaning(w) = << "int", IF b THEN -n ELSE n >>
  BY <1>1, <1>2, Zenon DEF MeaningGiven, Sequence
<1> QED BY <1>3 DEF w

(***************************************************************************)
(* There and back: values with nothing in them                             *)
(***************************************************************************)

Back(known, w) == encode(decodeIn(known, w))

\* What becomes of a value with no others in it: it comes back, or it has no Go
\* form that may, or the codec changes it.
FareWell(known, w) ==
  IF OpaqueHere(known, w) THEN IsError(decodeIn(known, w)) \/ IsError(Back(known, w))
  ELSE /\ ~IsError(decodeIn(known, w)) /\ ~IsError(Back(known, w))
       /\ Back(known, w)[1] \in NoChildren
       /\ ChangedHere(w) \/ Meaning(Back(known, w)) = Meaning(w)

LEMMA Same ==
  ASSUME NEW known, NEW w, IsWire(w), w[1] \in Leaves, ~OpaqueHere(known, w), ~IsError(decodeIn(known, w)), Back(known, w) = w
  PROVE  FareWell(known, w)
<1>1. w[1] # "error" /\ w[1] \in NoChildren
  BY DEF Leaves, Plain, NoChildren
<1> QED BY <1>1 DEF FareWell, IsError

LEMMA BigBack ==
  ASSUME NEW n \in Int
  PROVE  /\ Meaning(encodeBig(n)) = << "int", n >> /\ encodeBig(n)[1] \in {"int", "bigint"}
         /\ IsInt64(n) => encodeBig(n) = << "int", n >>
<1> DEFINE b == n < 0
           a == IF n < 0 THEN -n ELSE n
<1>1. CASE IsInt64(n)
  <2>1. encodeBig(n) = << "int", n >>
    BY <1>1 DEF encodeBig
  <2> DEFINE w == << "int", n >>
  <2>2. w[1] \in NoChildren \ {"bigint"} /\ w[1] = "int"
    BY DEF NoChildren, Leaves
  <2> HIDE DEF w
  <2>3. Meaning(w) = w
    BY <2>2, LeafMeans
  <2> QED BY <2>1, <2>2, <2>3 DEF w
<1>2. CASE ~IsInt64(n)
  <2>1. encodeBig(n) = << "bigint", b, a >>
    BY <1>2 DEF encodeBig
  <2>2. (IF b THEN -a ELSE a) = n
    OBVIOUS
  <2>3. << "bigint", b, a >>[1] = "bigint"
    OBVIOUS
  <2> HIDE DEF a, b
  <2> QED BY <1>2, <2>1, <2>2, <2>3, BigMeans
<1> QED BY <1>1, <1>2

LEMMA PlainBack ==
  ASSUME NEW known, NEW w, IsWire(w), w[1] \in Plain \cup {"str", "int", "clock"}
  PROVE  FareWell(known, w)
<1>1. decodeIn(known, w) = w /\ ~OpaqueHere(known, w) /\ ~IsError(w) /\ w[1] \in Leaves
  BY LeafIs, LeafDecodes DEF OpaqueHere, Plain, IsError, Leaves, NoChildren
<1>2. CASE w[1] \in Plain
  BY <1>1, <1>2, EncodesPlain, Same DEF Back
<1>3. CASE w[1] = "str"
  <2>1. w = << "str", w[2] >> /\ w[2] \notin BadText
    BY <1>3, WireText
  <2>2. encode(w) = encodeText(w[2])
    BY <2>1, EncodesText
  <2> QED BY <1>1, <2>1, <2>2, Same DEF Back, encodeText
<1>4. CASE w[1] = "int"
  <2>1. w = << "int", w[2] >> /\ IsInt64(w[2])
    BY <1>4, WireInt
  <2>2. encode(w) = encodeBig(w[2])
    BY <2>1, EncodesInt
  <2> QED BY <1>1, <2>1, <2>2, Same DEF Back, encodeBig
<1>5. CASE w[1] = "clock"
  <2>1. w = << "clock", w[2], w[3], w[4] >> /\ (w[3] = << >> => w[4] = "")
    BY <1>5, WireIs
  <2>2. encode(w) = w
    BY <1>5, <2>1, EncodesClock
  <2> QED BY <1>1, <2>2, Same DEF Back
<1> QED BY <1>2, <1>3, <1>4, <1>5

LEMMA BigIntBack ==
  ASSUME NEW known, NEW w, IsWire(w), w[1] = "bigint"
  PROVE  FareWell(known, w)
<1> DEFINE n == IF w[2] THEN -w[3] ELSE w[3]
<1>1. w = << "bigint", w[2], w[3] >> /\ w[2] \in BOOLEAN /\ w[3] \in Nat
  BY WireBig
<1>2. w[1] \in NoChildren
  BY DEF NoChildren, Leaves
<1>3. decodeIn(known, w) = << "bigInt", n >>
  BY <1>2, LeafIs, LeafDecodes DEF decodeBig
<1>4. n \in Int
  BY <1>1
<1>5. Meaning(w) = << "int", n >>
  BY <1>1, BigMeans
<1> HIDE DEF n
<1>6. Back(known, w) = encodeBig(n)
  BY <1>3, EncodesBig DEF Back
<1>7. Meaning(Back(known, w)) = Meaning(w) /\ Back(known, w)[1] \in {"int", "bigint"}
  BY <1>4, <1>5, <1>6, BigBack
<1>8. ~OpaqueHere(known, w) /\ ~IsError(decodeIn(known, w)) /\ ~IsError(Back(known, w))
      /\ {"int", "bigint"} \subseteq NoChildren
  BY <1>3, <1>7 DEF OpaqueHere, IsError, NoChildren, Leaves
<1> QED BY <1>7, <1>8 DEF FareWell

LEMMA TimesBack ==
  ASSUME NEW known, NEW w, IsWire(w), w[1] \in {"datetime", "timedelta", "timezone"}
  PROVE  FareWell(known, w)
<1>0. w[1] \in NoChildren /\ w[1] \in Leaves /\ ~OpaqueHere(known, w)
  BY DEF NoChildren, Leaves, OpaqueHere
<1>1. CASE w[1] = "timezone"
  <2>1. w = << "timezone", w[2], w[3] >>
    BY <1>1, WireIs
  <2>2. decodeIn(known, w) = << "location", w[2], w[3] >>
    BY <1>0, <1>1, LeafIs, LeafDecodes
  <2>3. Back(known, w) = w
    BY <2>1, <2>2, EncodesLocation DEF Back
  <2> QED BY <1>0, <2>2, <2>3, Same DEF IsError
<1>2. CASE w[1] = "timedelta"
  <2>1. w = << "timedelta", w[2], w[3], w[4] >> /\ Normal(w[2], w[3], w[4]) /\ IsInt32(w[2])
    BY <1>2, WireTimedelta
  <2>2. decodeIn(known, w) = decodeTimedelta(w[2], w[3], w[4])
    BY <1>0, <1>2, LeafIs, LeafDecodes
  <2> DEFINE t == Sum(w[2], w[3], w[4]) * Nanos
  <2>3. \/ decodeIn(known, w) = << "duration", t >> /\ encodeDuration(t) = w
        \/ decodeIn(known, w) = w
    BY <2>1, <2>2, TimedeltaSurvives
  <2> HIDE DEF t
  <2>4. CASE decodeIn(known, w) = << "duration", t >> /\ encodeDuration(t) = w
    <3>1. Back(known, w) = w
      BY <2>4, EncodesDuration DEF Back
    <3> QED BY <1>0, <2>4, <3>1, Same DEF IsError
  <2>5. CASE decodeIn(known, w) = w
    <3>1. Back(known, w) = encodeDelta(w[2], w[3], w[4])
      BY <1>2, <2>5, EncodesPlain DEF Back
    <3>2. encodeDelta(w[2], w[3], w[4]) = << "timedelta", w[2], w[3], w[4] >>
      BY <2>1, DeltaIs
    <3>3. Back(known, w) = w /\ ~IsError(w)
      BY <1>2, <2>1, <3>1, <3>2 DEF IsError
    <3> QED BY <1>0, <2>5, <3>3, Same
  <2> QED BY <2>3, <2>4, <2>5
<1>3. CASE w[1] = "datetime"
  <2>1. w = << "datetime", w[2], w[3], w[4] >> /\ w[2] \in Int /\ w[3] \in Seq(Int) /\ Len(w[3]) <= 1
    BY <1>3, WireDatetime
  <2>2. decodeIn(known, w) = decodeDatetime(w[2], w[3], w[4])
    BY <1>0, <1>3, LeafIs, LeafDecodes
  <2>3. w[2] * Nanos \in Int /\ (w[2] * Nanos) \div Nanos = w[2]
    <3>1. Nanos \in Nat \ {0}
      BY Widths
    <3>2. (w[2] * Nanos + 0) \div Nanos = w[2]
      BY <2>1, <3>1, DivMod
    <3> QED BY <2>1, <3>1, <3>2
  <2>4. CASE w[3] = << >>
    <3>1. decodeIn(known, w) = << "time", w[2] * Nanos, 0, "UTC" >>
      BY <2>2, <2>4 DEF decodeDatetime
    <3>2. Back(known, w) = << "datetime", w[2], << 0 >>, "UTC" >>
      BY <2>3, <3>1, EncodesTime DEF Back, encodeTime
    <3>3. ChangedHere(w)
      BY <1>3, <2>4 DEF ChangedHere
    <3> QED BY <1>0, <1>3, <3>1, <3>2, <3>3 DEF FareWell, IsError
  <2>5. CASE w[3] # << >>
    <3>1. w[3] = << w[3][1] >>
      BY <2>1, <2>5
    <3>2. decodeIn(known, w) = << "time", w[2] * Nanos, w[3][1], w[4] >>
      BY <2>2, <2>5 DEF decodeDatetime
    <3>3. Back(known, w) = << "datetime", w[2], << w[3][1] >>, w[4] >>
      BY <2>3, <3>2, EncodesTime DEF Back, encodeTime
    <3>4. Back(known, w) = w
      BY <2>1, <3>1, <3>3
    <3> QED BY <1>0, <3>2, <3>4, Same DEF IsError
  <2> QED BY <2>4, <2>5
<1> QED BY <1>1, <1>2, <1>3

LEMMA NamesBack ==
  ASSUME NEW known, NEW w, IsWire(w), w[1] \in {"exception", "function", "builtin", "type", "instance"}
  PROVE  FareWell(known, w)
<1>0. w[1] \in NoChildren /\ w[1] \in Leaves
  BY DEF NoChildren, Leaves
<1>1. CASE w[1] = "exception"
  <2>1. w = << "exception", w[2], w[3] >> /\ w[3] \in Seq(STRING) /\ Len(w[3]) <= 1 /\ ~OpaqueHere(known, w)
    BY <1>1, WireException DEF OpaqueHere
  <2>2. decodeIn(known, w) = << "exception", w[2], IF w[3] = << >> THEN "" ELSE w[3][1] >>
    BY <1>0, <1>1, LeafIs, LeafDecodes
  <2>3. CASE w[3] = << >>
    <3>1. decodeIn(known, w) = << "exception", w[2], "" >>
      BY <2>2, <2>3
    <3>2. Back(known, w) = w
      BY <2>1, <2>3, <3>1, EncodesException DEF Back, encodeException
    <3>4. decodeIn(known, w)[1] = "exception"
      <4> DEFINE e == << "exception", w[2], "" >>
      <4>1. e[1] = "exception"
        OBVIOUS
      <4>2. decodeIn(known, w) = e
        BY <3>1
      <4> HIDE DEF e
      <4> QED BY <4>1, <4>2
    <3>3. ~IsError(decodeIn(known, w))
      BY <3>4 DEF IsError
    <3> QED BY <1>0, <2>1, <3>2, <3>3, Same
  <2>4. CASE w[3] # << >>
    <3>1. w[3] = << w[3][1] >>
      BY <2>1, <2>4
    <3>2. decodeIn(known, w) = << "exception", w[2], w[3][1] >>
      BY <2>2, <2>4
    <3>3. Back(known, w) = << "exception", w[2], IF w[3][1] = "" THEN << >> ELSE << w[3][1] >> >>
      BY <3>2, EncodesException DEF Back, encodeException
    <3>4. CASE w[3][1] = ""
      <4>1. ChangedHere(w)
        BY <1>1, <3>1, <3>4 DEF ChangedHere
      <4>2. decodeIn(known, w)[1] = "exception"
        <5> DEFINE e == << "exception", w[2], w[3][1] >>
        <5>1. e[1] = "exception"
          OBVIOUS
        <5>2. decodeIn(known, w) = e
          BY <3>2
        <5> HIDE DEF e
        <5> QED BY <5>1, <5>2
      <4>3. Back(known, w)[1] = "exception"
        <5> DEFINE e == << "exception", w[2], IF w[3][1] = "" THEN << >> ELSE << w[3][1] >> >>
        <5>1. e[1] = "exception"
          OBVIOUS
        <5>2. Back(known, w) = e
          BY <3>3
        <5> HIDE DEF e
        <5> QED BY <5>1, <5>2
      <4> QED BY <1>0, <1>1, <2>1, <4>1, <4>2, <4>3 DEF FareWell, IsError
    <3>5. CASE w[3][1] # ""
      <4>1. Back(known, w) = w
        BY <2>1, <3>1, <3>3, <3>5
      <4> QED BY <1>0, <2>1, <3>2, <4>1, Same DEF IsError
    <3> QED BY <3>4, <3>5
  <2> QED BY <2>3, <2>4
<1>2. CASE w[1] = "function"
  <2>1. w = << "function", w[2], w[3] >> /\ ~OpaqueHere(known, w)
    BY <1>2, WireIs DEF OpaqueHere
  <2>2. decodeIn(known, w) = << "func", w[2], w[3], FALSE >>
    BY <1>0, <1>2, LeafIs, LeafDecodes
  <2>3. encode(<< "func", w[2], w[3], FALSE >>) = << "function", w[2], w[3] >>
    BY EncodesFunction
  <2>4. Back(known, w) = w
    BY <2>1, <2>2, <2>3 DEF Back
  <2>5. decodeIn(known, w)[1] = "func"
    <3> DEFINE e == << "func", w[2], w[3], FALSE >>
    <3>1. e[1] = "func"
      OBVIOUS
    <3>2. decodeIn(known, w) = e
      BY <2>2
    <3> HIDE DEF e
    <3> QED BY <3>1, <3>2
  <2>6. ~IsError(decodeIn(known, w))
    BY <2>5 DEF IsError
  <2> QED BY <1>0, <2>1, <2>4, <2>6, Same
<1>3. CASE w[1] = "builtin"
  <2>1. w = << "builtin", w[2] >> /\ ~OpaqueHere(known, w)
    BY <1>3, WireIs DEF OpaqueHere
  <2>2. decodeIn(known, w) = << "func", w[2], "", TRUE >>
    BY <1>0, <1>3, LeafIs, LeafDecodes
  <2>3. encode(<< "func", w[2], "", TRUE >>) = << "builtin", w[2] >>
    BY EncodesFunction
  <2>4. Back(known, w) = w
    BY <2>1, <2>2, <2>3 DEF Back
  <2>5. decodeIn(known, w)[1] = "func"
    <3> DEFINE e == << "func", w[2], "", TRUE >>
    <3>1. e[1] = "func"
      OBVIOUS
    <3>2. decodeIn(known, w) = e
      BY <2>2
    <3> HIDE DEF e
    <3> QED BY <3>1, <3>2
  <2>6. ~IsError(decodeIn(known, w))
    BY <2>5 DEF IsError
  <2> QED BY <1>0, <2>1, <2>4, <2>6, Same
<1>4. CASE w[1] = "type"
  <2>1. w = << "type", w[2], w[3] >>
    BY <1>4, WireIs
  <2>2. decodeIn(known, w) = decodeType(known, w[2], w[3])
    BY <1>0, <1>4, LeafIs, LeafDecodes
  <2>3. CASE w[3] = "host" /\ w[2] \in known
    <3>1. decodeIn(known, w) = << "hostClass", w[2] >>
      BY <2>2, <2>3 DEF decodeType
    <3>2. encode(<< "hostClass", w[2] >>) = << "type", w[2], "host" >>
      BY EncodesReference DEF encodeReference
    <3>3. Back(known, w) = w
      BY <2>1, <2>3, <3>1, <3>2 DEF Back
    <3>4. ~OpaqueHere(known, w)
      BY <1>4, <2>3 DEF OpaqueHere
    <3> QED BY <1>0, <3>1, <3>3, <3>4, Same DEF IsError
  <2>4. CASE ~(w[3] = "host" /\ w[2] \in known)
    <3>1. decodeIn(known, w) = w
      BY <2>1, <2>2, <2>4 DEF decodeType
    <3>2. Back(known, w) = encodeReference(w)
      BY <1>4, <3>1, EncodesReference DEF Back
    <3>3. CASE w[3] = "builtin"
      <4>1. Back(known, w) = w /\ ~OpaqueHere(known, w)
        BY <1>4, <3>2, <3>3 DEF encodeReference, OpaqueHere
      <4> QED BY <1>0, <1>4, <3>1, <4>1, Same DEF IsError
    <3>4. CASE w[3] # "builtin"
      <4>1. encodeReference(w) = Error
        BY <1>4, <3>4 DEF encodeReference
      <4>2. OpaqueHere(known, w) /\ IsError(Back(known, w))
        BY <1>4, <2>4, <3>2, <3>4, <4>1 DEF OpaqueHere, IsError, Error
      <4> QED BY <4>2 DEF FareWell
    <3> QED BY <3>3, <3>4
  <2> QED BY <2>3, <2>4
<1>5. CASE w[1] = "instance"
  <2>1. w = << "instance", w[2], w[3] >>
    BY <1>5, WireIs
  <2>2. decodeIn(known, w) = decodeInstance(known, w[2], w[3])
    BY <1>0, <1>5, LeafIs, LeafDecodes
  <2>3. CASE w[2] = "host" /\ w[3] \in known
    <3>1. decodeIn(known, w) = << "hostObject", w[3] >>
      BY <2>2, <2>3 DEF decodeInstance
    <3>2. encode(<< "hostObject", w[3] >>) = << "instance", "host", w[3] >>
      BY EncodesReference DEF encodeReference
    <3>3. Back(known, w) = w
      BY <2>1, <2>3, <3>1, <3>2 DEF Back
    <3>4. ~OpaqueHere(known, w)
      BY <1>5, <2>3 DEF OpaqueHere
    <3> QED BY <1>0, <3>1, <3>3, <3>4, Same DEF IsError
  <2>4. CASE ~(w[2] = "host" /\ w[3] \in known)
    <3>1. decodeIn(known, w) = << "classInstance", w[2], w[3] >>
      BY <2>2, <2>4 DEF decodeInstance
    <3>2. encode(<< "classInstance", w[2], w[3] >>) = Error
      BY EncodesReference DEF encodeReference
    <3>3. Back(known, w) = Error
      BY <3>1, <3>2 DEF Back
    <3>4. OpaqueHere(known, w) /\ IsError(Back(known, w))
      BY <1>5, <2>4, <3>3 DEF OpaqueHere, IsError, Error
    <3> QED BY <3>4 DEF FareWell
  <2> QED BY <2>3, <2>4
<1> QED BY <1>1, <1>2, <1>3, <1>4, <1>5

LEMMA OpaqueBack ==
  ASSUME NEW known, NEW w, IsWire(w), w[1] \in {"repr", "cycle", "uuid"}
  PROVE  FareWell(known, w)
<1>0. w[1] \in NoChildren /\ OpaqueHere(known, w)
  BY DEF NoChildren, Leaves, OpaqueHere
<1>1. CASE w[1] = "uuid"
  <2>1. decodeIn(known, w) = Error
    BY <1>0, <1>1, LeafIs, LeafDecodes
  <2> QED BY <1>0, <2>1 DEF FareWell, IsError, Error
<1>2. CASE w[1] \in {"repr", "cycle"}
  <2>1. decodeIn(known, w) = << "repr", w[2] >>
    BY <1>0, <1>2, LeafIs, LeafDecodes
  <2>2. encode(<< "repr", w[2] >>) = Error
    BY EncodesReference DEF encodeReference
  <2>3. Back(known, w) = Error
    BY <2>1, <2>2 DEF Back
  <2> QED BY <1>0, <2>3 DEF FareWell, IsError, Error
<1> QED BY <1>1, <1>2

LEMMA LeafBack ==
  ASSUME NEW known, NEW w, IsWire(w), w[1] \in Leaves
  PROVE  FareWell(known, w)
BY PlainBack, BigIntBack, TimesBack, NamesBack, OpaqueBack DEF Leaves

LEMMA ItemMeans ==
  ASSUME NEW w, Nested(w)
  PROVE  /\ w[1] \in {"list", "tuple"} =>
              Meaning(w) = << w[1], [i \in DOMAIN w[2] |-> Meaning(w[2][i])] >>
         /\ w[1] \in {"set", "frozenset"} =>
              Meaning(w) = << w[1], { Meaning(w[2][i]) : i \in DOMAIN w[2] } >>
<1> DEFINE of == [c \in Children(w) |-> Meaning(c)]
<1>1. Meaning(w) = MeaningGiven(of, w)
  BY MeaningIs
<1>2. CASE w[1] \in {"list", "tuple"}
  <2>0. w[1] \in Sequence
    BY <1>2 DEF Sequence
  <2>1. \A i \in DOMAIN w[2] : w[2][i] \in Children(w)
    BY <2>0, ChildrenIs DEF Range
  <2>2. \A i \in DOMAIN w[2] : of[w[2][i]] = Meaning(w[2][i])
    BY <2>1
  <2> HIDE DEF of
  <2>3. Meaning(w) = << w[1], Items(of, w, 2) >>
    BY <1>1, <1>2, MeaningGivenIs
  <2> QED BY <1>2, <2>2, <2>3 DEF Items
<1>3. CASE w[1] \in {"set", "frozenset"}
  <2>0. w[1] \in Sequence
    BY <1>3 DEF Sequence
  <2>1. \A i \in DOMAIN w[2] : w[2][i] \in Children(w)
    BY <2>0, ChildrenIs DEF Range
  <2>2. \A i \in DOMAIN w[2] : of[w[2][i]] = Meaning(w[2][i])
    BY <2>1
  <2> HIDE DEF of
  <2>3. Meaning(w) = << w[1], { of[w[2][i]] : i \in DOMAIN w[2] } >>
    BY <1>1, <1>3, MeaningGivenIs
  <2> QED BY <1>3, <2>2, <2>3
<1> QED BY <1>2, <1>3

LEMMA TupleMeans ==
  ASSUME NEW w, Nested(w), w[1] = "namedTuple"
  PROVE  Meaning(w) = << "namedTuple", w[2], w[3], [i \in DOMAIN w[4] |-> Meaning(w[4][i])] >>
<1> DEFINE of == [c \in Children(w) |-> Meaning(c)]
<1>1. Meaning(w) = MeaningGiven(of, w)
  BY MeaningIs
<1>2. \A i \in DOMAIN w[4] : w[4][i] \in Children(w)
  BY ChildrenIs DEF Range
<1>3. \A i \in DOMAIN w[4] : of[w[4][i]] = Meaning(w[4][i])
  BY <1>2
<1> HIDE DEF of
<1>4. Meaning(w) = << w[1], w[2], w[3], Items(of, w, 4) >>
  BY <1>1, MeaningGivenIs
<1> QED BY <1>3, <1>4 DEF Items

LEMMA DictMeans ==
  ASSUME NEW w, Nested(w), w[1] = "dict"
  PROVE  Meaning(w) = << "dict", { << Meaning(w[2][i][1]), Meaning(w[2][i][2]) >> : i \in DOMAIN w[2] } >>
<1> DEFINE of == [c \in Children(w) |-> Meaning(c)]
<1>1. Meaning(w) = MeaningGiven(of, w)
  BY MeaningIs
<1>2. Children(w) = { w[2][i][j] : i \in DOMAIN w[2], j \in 1..2 }
  BY ChildrenIs
<1>3. \A i \in DOMAIN w[2] : w[2][i][1] \in Children(w) /\ w[2][i][2] \in Children(w)
  BY <1>2
<1>4. \A i \in DOMAIN w[2] : of[w[2][i][1]] = Meaning(w[2][i][1]) /\ of[w[2][i][2]] = Meaning(w[2][i][2])
  BY <1>3
<1> HIDE DEF of
<1>5. Meaning(w) = << "dict", { << of[w[2][i][1]], of[w[2][i][2]] >> : i \in DOMAIN w[2] } >>
  BY <1>1, MeaningGivenIs
<1> QED BY <1>4, <1>5

\* What a leaf decodes to has nothing in it, and is a string only if it was one,
\* a number only if it is the same.
LEMMA LeafDecoded ==
  ASSUME NEW known, NEW w, w[1] \in Leaves
  PROVE  LET d == decodeIn(known, w) IN
         /\ d[1] \in NoChildren
         /\ d[1] = "str" => w[1] = "str"
         /\ d[1] \in {"bool", "int", "float"} => d = w
         /\ d[1] = "bigInt" => w[1] = "bigint"
<1> DEFINE d == decodeIn(known, w)
<1>0. w[1] \in NoChildren
  BY DEF NoChildren
<1>n. Nested(w)
  BY <1>0, LeafIs
<1>1. CASE w[1] \in Plain \cup {"str", "int", "clock"}
  <2>1. d = w
    BY <1>1, <1>n, LeafDecodes
  <2> QED BY <1>0, <2>1 DEF Leaves, Plain
<1>2. CASE w[1] = "bigint"
  <2>1. d = << "bigInt", IF w[2] THEN -w[3] ELSE w[3] >>
    BY <1>2, <1>n, LeafDecodes DEF decodeBig
  <2> HIDE DEF d
  <2> QED BY <1>2, <2>1 DEF d, NoChildren, Integer
<1>3. CASE w[1] = "datetime"
  <2>1. d = decodeDatetime(w[2], w[3], w[4])
    BY <1>3, <1>n, LeafDecodes
  <2> HIDE DEF d
  <2>2. d[1] = "time"
    BY <2>1 DEF decodeDatetime
  <2> QED BY <2>2 DEF d, NoChildren
<1>4. CASE w[1] = "timedelta"
  <2>1. d = decodeTimedelta(w[2], w[3], w[4])
    BY <1>4, <1>n, LeafDecodes
  <2> HIDE DEF d
  <2>2. d[1] \in {"timedelta", "duration"}
    BY <2>1 DEF decodeTimedelta
  <2> QED BY <2>2 DEF d, NoChildren, Leaves
<1>5. CASE w[1] = "timezone"
  <2>1. d = << "location", w[2], w[3] >>
    BY <1>5, <1>n, LeafDecodes
  <2> HIDE DEF d
  <2>2. d[1] = "location"
    BY <2>1
  <2> QED BY <2>2 DEF d, NoChildren, Leaves
<1>10. CASE w[1] = "exception"
  <2> DEFINE e == << "exception", w[2], IF w[3] = << >> THEN "" ELSE w[3][1] >>
  <2>1. d = e
    BY <1>10, <1>n, LeafDecodes
  <2>2. e[1] = "exception"
    OBVIOUS
  <2> HIDE DEF d, e
  <2>3. d[1] = "exception"
    BY <2>1, <2>2
  <2> QED BY <2>3 DEF d, NoChildren, Leaves
<1>6. CASE w[1] \in {"function", "builtin"}
  <2> DEFINE e == << "func", w[2], w[3], FALSE >>
             f == << "func", w[2], "", TRUE >>
  <2>1. e[1] = "func" /\ f[1] = "func"
    OBVIOUS
  <2>2. d = e \/ d = f
    BY <1>6, <1>n, LeafDecodes
  <2> HIDE DEF d, e, f
  <2>3. d[1] = "func"
    BY <2>1, <2>2
  <2> QED BY <2>3 DEF d, NoChildren, Leaves
<1>7. CASE w[1] = "type"
  <2>1. d = decodeType(known, w[2], w[3])
    BY <1>7, <1>n, LeafDecodes
  <2> HIDE DEF d
  <2>2. d[1] \in {"hostClass", "type"}
    BY <2>1 DEF decodeType
  <2> QED BY <2>2 DEF d, NoChildren, Leaves
<1>8. CASE w[1] = "instance"
  <2>1. d = decodeInstance(known, w[2], w[3])
    BY <1>8, <1>n, LeafDecodes
  <2> HIDE DEF d
  <2>2. d[1] \in {"hostObject", "classInstance"}
    BY <2>1 DEF decodeInstance
  <2> QED BY <2>2 DEF d, NoChildren, Leaves
<1>9. CASE w[1] \in {"repr", "cycle", "uuid"}
  <2>1. d = << "repr", w[2] >> \/ d = Error
    BY <1>9, <1>n, LeafDecodes
  <2> HIDE DEF d
  <2>2. d[1] \in {"repr", "error"}
    BY <2>1 DEF Error
  <2> QED BY <2>2 DEF d, NoChildren, Leaves
<1> QED BY <1>1, <1>2, <1>3, <1>4, <1>5, <1>6, <1>7, <1>8, <1>9, <1>10 DEF Leaves

LEMMA ErrorIs == Error[1] = "error" /\ IsError(Error) /\ Children(Error) = {} /\ Error[1] \in NoChildren
<1>1. Error[1] = "error" /\ Error[1] \in NoChildren
  BY DEF Error, NoChildren
<1> QED BY <1>1, LeafIs DEF IsError

(***************************************************************************)
(* There and back: values with others in them                              *)
(***************************************************************************)

\* What is in a value that the sandbox sends, it might have sent by itself.
LEMMA SentParts ==
  ASSUME NEW w, Sent(w)
  PROVE  /\ w \in Parts(w) /\ Children(w) \subseteq Parts(w)
         /\ \A p \in Parts(w) : Sent(p) /\ IsWire(p) /\ Nested(p)
BY PartsNested DEF Sent

\* In what it decodes to is what those in it decode to.
LEMMA DecodedChildren ==
  ASSUME NEW known, NEW w, IsWire(w), Nested(w)
  PROVE  LET d == decodeIn(known, w) IN
         /\ d[1] \in NoChildren \cup Sequence \cup {"namedTuple", "dict", "map"}
         /\ d[1] = "str" => w[1] = "str"
         /\ d[1] \in {"bool", "int", "float"} => d = w
         /\ d[1] = "bigInt" => w[1] = "bigint"
         /\ Children(d) \subseteq { decodeIn(known, c) : c \in Children(w) }
<1> DEFINE d == decodeIn(known, w)
<1>0. w[1] \in Leaves \cup Sequence \cup {"namedTuple", "dict"}
  BY WireKind
<1>s. {"str", "bool", "int", "float", "bigInt"} \cap (Sequence \cup {"namedTuple", "dict", "map", "error"}) = {}
  BY DEF Sequence
<1>1. CASE w[1] \in Leaves
  <2>1. /\ d[1] \in NoChildren /\ (d[1] = "str" => w[1] = "str")
        /\ d[1] \in {"bool", "int", "float"} => d = w
        /\ d[1] = "bigInt" => w[1] = "bigint"
    BY <1>1, LeafDecoded
  <2> HIDE DEF d
  <2>2. Children(d) = {}
    BY <2>1, LeafIs
  <2> QED BY <2>1, <2>2 DEF d
<1>2. CASE w[1] \in Sequence
  <2> DEFINE items == [i \in DOMAIN w[2] |-> decodeIn(known, w[2][i])]
  <2>1. d = Error \/ d = << w[1], items >>
    BY <1>2, ListDecodes
  <2>2. \A i \in DOMAIN w[2] : w[2][i] \in Children(w)
    BY <1>2, ChildrenIs DEF Range
  <2>3. Range(items) \subseteq { decodeIn(known, c) : c \in Children(w) }
    BY <2>2 DEF Range
  <2> HIDE DEF d, items
  <2>4. d[1] \in {"error", w[1]} /\ (d[1] = w[1] => Children(d) = Range(items))
    BY <1>2, <2>1, ErrorIs, ChildrenIs DEF Sequence
  <2>5. Children(d) \subseteq { decodeIn(known, c) : c \in Children(w) }
    BY <2>1, <2>3, <2>4, ErrorIs
  <2> QED BY <1>2, <1>s, <2>4, <2>5 DEF d, NoChildren
<1>3. CASE w[1] = "namedTuple"
  <2> DEFINE items == [i \in DOMAIN w[4] |-> decodeIn(known, w[4][i])]
  <2>1. d = Error \/ d = << "namedTuple", w[2], w[3], items >>
    BY <1>3, TupleDecodes
  <2>2. \A i \in DOMAIN w[4] : w[4][i] \in Children(w)
    BY <1>3, ChildrenIs DEF Range
  <2>3. Range(items) \subseteq { decodeIn(known, c) : c \in Children(w) }
    BY <2>2 DEF Range
  <2> HIDE DEF d, items
  <2>4. d[1] \in {"error", "namedTuple"} /\ (d[1] = "namedTuple" => Children(d) = Range(items))
    BY <2>1, ErrorIs, ChildrenIs
  <2>5. Children(d) \subseteq { decodeIn(known, c) : c \in Children(w) }
    BY <2>1, <2>3, <2>4, ErrorIs
  <2> QED BY <1>3, <1>s, <2>4, <2>5 DEF d, NoChildren
<1>4. CASE w[1] = "dict"
  <2> DEFINE key(i) == decodeIn(known, w[2][i][1])
             value(i) == decodeIn(known, w[2][i][2])
             items == [i \in DOMAIN w[2] |-> << key(i), value(i) >>]
             D == { decodeIn(known, c) : c \in Children(w) }
  <2>1. \A i \in DOMAIN w[2] : key(i) \in D /\ value(i) \in D
    <3>1. Children(w) = { w[2][i][j] : i \in DOMAIN w[2], j \in 1..2 }
      BY <1>4, ChildrenIs
    <3>2. \A i \in DOMAIN w[2] : w[2][i][1] \in Children(w) /\ w[2][i][2] \in Children(w)
      BY <3>1
    <3> QED BY <3>2
  <2>2. \/ d = Error
        \/ d = << "dict", items >>
        \/ \E m : /\ d = << "map", m >>
                  /\ \A k \in DOMAIN m : \E i \in DOMAIN w[2] : key(i)[2] = k /\ m[k] = value(i)
    <3>1. CASE \E i \in DOMAIN w[2] : IsError(key(i)) \/ IsError(value(i))
      BY <1>4, <3>1, DictDecodes
    <3>2. CASE \A i \in DOMAIN w[2] : ~IsError(key(i)) /\ ~IsError(value(i))
      <4>1. CASE \E i \in DOMAIN w[2] : key(i)[1] # "str"
        BY <1>4, <3>2, <4>1, DictDecodes
      <4>2. CASE \A i \in DOMAIN w[2] : key(i)[1] = "str"
        <5>1. PICK m : IsMapOf(known, w, m)
          BY <1>4, <3>2, <4>2, DictDecodes
        <5> QED BY <5>1 DEF IsMapOf
      <4> QED BY <4>1, <4>2
    <3> QED BY <3>1, <3>2
  <2>3. DOMAIN items = DOMAIN w[2] /\ \A i \in DOMAIN w[2] : items[i][1] = key(i) /\ items[i][2] = value(i)
    OBVIOUS
  <2> HIDE DEF d, items, key, value, D
  <2>4. CASE d = Error
    BY <2>4, <1>s, ErrorIs DEF d
  <2>5. CASE d = << "dict", items >>
    <3>1. d[1] = "dict" /\ d[2] = items
      BY <2>5
    <3>2. Children(d) = { items[i][j] : i \in DOMAIN items, j \in 1..2 }
      BY <3>1, ChildrenIs
    <3>3. ASSUME NEW c \in Children(d) PROVE c \in D
      <4>1. PICK i \in DOMAIN items, j \in 1..2 : c = items[i][j]
        BY <3>2
      <4>2. j = 1 \/ j = 2
        OBVIOUS
      <4> QED BY <2>1, <2>3, <4>1, <4>2
    <3> QED BY <1>s, <3>1, <3>3 DEF d, D
  <2>6. CASE \E m : /\ d = << "map", m >>
                    /\ \A k \in DOMAIN m : \E i \in DOMAIN w[2] : key(i)[2] = k /\ m[k] = value(i)
    <3>1. PICK m : /\ d = << "map", m >>
                   /\ \A k \in DOMAIN m : \E i \in DOMAIN w[2] : key(i)[2] = k /\ m[k] = value(i)
      BY <2>6
    <3>2. d[1] = "map" /\ d[2] = m
      BY <3>1
    <3>3. Children(d) = Range(m)
      BY <3>2, ChildrenIs
    <3>4. Children(d) \subseteq D
      BY <2>1, <3>1, <3>3 DEF Range
    <3> QED BY <1>s, <3>2, <3>4 DEF d, D
  <2> QED BY <2>2, <2>4, <2>5, <2>6
<1> QED BY <1>0, <1>1, <1>2, <1>3, <1>4

LEMMA DecodedNested ==
  ASSUME NEW known, NEW w, Sent(w)
  PROVE  Nested(decodeIn(known, w)) /\ Structless(decodeIn(known, w))
<1>1. PICK A : Chain(A) /\ A[Top] = Parts(w) /\ \A n \in 0..Top : A[n] \subseteq Parts(w)
  BY ChainOf DEF Sent
<1>2. \A p \in Parts(w) : IsWire(p) /\ Nested(p)
  BY SentParts
<1> DEFINE B == [n \in 0..Top |-> { decodeIn(known, q) : q \in A[n] }]
<1>3. B[0] = {} /\ B[Top] = { decodeIn(known, q) : q \in Parts(w) }
  BY <1>1, TopIs DEF Chain
<1>4. ASSUME NEW n \in 0..MaxNesting
      PROVE  B[n] \subseteq B[n + 1] /\ \A p \in B[n + 1] : Children(p) \subseteq B[n]
  <2>1. n \in 0..Top /\ n + 1 \in 0..Top
    BY TopIs DEF Top
  <2>2. B[n] = { decodeIn(known, q) : q \in A[n] } /\ B[n + 1] = { decodeIn(known, q) : q \in A[n + 1] }
    BY <2>1
  <2>3. A[n] \subseteq A[n + 1] /\ (\A p \in A[n + 1] : Children(p) \subseteq A[n]) /\ A[n + 1] \subseteq Parts(w)
    BY <1>1, <2>1 DEF Chain
  <2> HIDE DEF B
  <2>4. ASSUME NEW p \in B[n + 1] PROVE Children(p) \subseteq B[n]
    <3>1. PICK q \in A[n + 1] : p = decodeIn(known, q)
      BY <2>2
    <3>2. Children(p) \subseteq { decodeIn(known, c) : c \in Children(q) }
      BY <1>2, <2>3, <3>1, DecodedChildren
    <3>3. Children(q) \subseteq A[n]
      BY <2>3
    <3> QED BY <2>2, <3>2, <3>3
  <2> QED BY <2>2, <2>3, <2>4
<1> HIDE DEF B
<1>5. Chain(B)
  BY <1>3, <1>4 DEF Chain
<1>6. decodeIn(known, w) \in B[Top]
  BY <1>3, SentParts
<1>7. Nested(decodeIn(known, w)) /\ Parts(decodeIn(known, w)) \subseteq B[Top]
  BY <1>5, <1>6, ChainClosed
<1>8. \A p \in B[Top] : p[1] # "struct"
  <2>1. "struct" \notin NoChildren \cup Sequence \cup {"namedTuple", "dict", "map"}
    BY DEF NoChildren, Leaves, Plain, Integer, Sequence
  <2> QED BY <1>2, <1>3, <2>1, DecodedChildren
<1> QED BY <1>7, <1>8 DEF Structless

LEMMA ErrorBack == \A v : IsError(v) => encode(v) = Error
<1> SUFFICES ASSUME NEW v, v[1] = "error" PROVE encode(v) = Error
  BY DEF IsError
<1>1. encode(v) = encodeReference(v)
  BY EncodesReference
<1> QED BY <1>1 DEF encodeReference

LEMMA LeafFares ==
  ASSUME NEW known, NEW w, IsWire(w), w[1] \in Leaves
  PROVE  /\ Back(known, w)[1] \in NoChildren
         /\ OpaqueHere(known, w) => IsError(Back(known, w))
         /\ ~OpaqueHere(known, w) =>
              ~IsError(Back(known, w)) /\ (ChangedHere(w) \/ Meaning(Back(known, w)) = Meaning(w))
<1>1. FareWell(known, w)
  BY LeafBack
<1>2. CASE OpaqueHere(known, w)
  <2>1. IsError(decodeIn(known, w)) => IsError(Back(known, w))
    BY ErrorBack, ErrorIs DEF Back
  <2>2. IsError(Back(known, w))
    BY <1>1, <1>2, <2>1 DEF FareWell
  <2> QED BY <1>2, <2>2 DEF IsError, NoChildren
<1>3. CASE ~OpaqueHere(known, w)
  BY <1>1, <1>3 DEF FareWell
<1> QED BY <1>2, <1>3

LEMMA ListBack ==
  ASSUME NEW known, NEW w, Sent(w), w[1] \in Sequence
  PROVE  /\ (\E i \in DOMAIN w[2] : IsError(Back(known, w[2][i]))) => Back(known, w) = Error
         /\ (\A i \in DOMAIN w[2] : ~IsError(Back(known, w[2][i]))) =>
              Back(known, w) = << w[1], [i \in DOMAIN w[2] |-> Back(known, w[2][i])] >>
<1> DEFINE d == decodeIn(known, w)
           items == [i \in DOMAIN w[2] |-> decodeIn(known, w[2][i])]
<1>1. Nested(d) /\ Structless(d) /\ Nested(w)
  BY DecodedNested, SentParts
<1>2. d = IF \E i \in DOMAIN w[2] : IsError(decodeIn(known, w[2][i])) THEN Error ELSE << w[1], items >>
  BY <1>1, ListDecodes
<1>3. CASE \E i \in DOMAIN w[2] : IsError(decodeIn(known, w[2][i]))
  <2>1. encode(d) = Error
    BY <1>2, <1>3, ErrorBack, ErrorIs
  <2>2. \E i \in DOMAIN w[2] : IsError(Back(known, w[2][i]))
    BY <1>3, ErrorBack, ErrorIs DEF Back
  <2> QED BY <2>1, <2>2 DEF Back
<1>4. CASE ~ \E i \in DOMAIN w[2] : IsError(decodeIn(known, w[2][i]))
  <2>1. d = << w[1], items >>
    BY <1>2, <1>4
  <2>2. DOMAIN items = DOMAIN w[2] /\ \A i \in DOMAIN w[2] : encode(items[i]) = Back(known, w[2][i])
    BY DEF Back
  <2> HIDE DEF d, items
  <2>3. d[1] = w[1] /\ d[2] = items
    BY <2>1
  <2>4. encode(d) = IF \E i \in DOMAIN items : IsError(encode(items[i])) THEN Error
                    ELSE << w[1], [i \in DOMAIN items |-> encode(items[i])] >>
    BY <1>1, <2>3, ListEncodes
  <2>5. [i \in DOMAIN items |-> encode(items[i])] = [i \in DOMAIN w[2] |-> Back(known, w[2][i])]
    BY <2>2
  <2>6. (\E i \in DOMAIN items : IsError(encode(items[i]))) <=> (\E i \in DOMAIN w[2] : IsError(Back(known, w[2][i])))
    BY <2>2
  <2> QED BY <2>4, <2>5, <2>6 DEF Back, d
<1> QED BY <1>3, <1>4

LEMMA TupleBack ==
  ASSUME NEW known, NEW w, Sent(w), w[1] = "namedTuple"
  PROVE  /\ (\E i \in DOMAIN w[4] : IsError(Back(known, w[4][i]))) => Back(known, w) = Error
         /\ (\A i \in DOMAIN w[4] : ~IsError(Back(known, w[4][i]))) =>
              Back(known, w) = << "namedTuple", w[2], w[3], [i \in DOMAIN w[4] |-> Back(known, w[4][i])] >>
<1> DEFINE d == decodeIn(known, w)
           items == [i \in DOMAIN w[4] |-> decodeIn(known, w[4][i])]
<1>1. Nested(d) /\ Structless(d) /\ Nested(w)
  BY DecodedNested, SentParts
<1>2. d = IF \E i \in DOMAIN w[4] : IsError(decodeIn(known, w[4][i])) THEN Error
          ELSE << "namedTuple", w[2], w[3], items >>
  BY <1>1, TupleDecodes
<1>3. CASE \E i \in DOMAIN w[4] : IsError(decodeIn(known, w[4][i]))
  <2>1. encode(d) = Error
    BY <1>2, <1>3, ErrorBack, ErrorIs
  <2>2. \E i \in DOMAIN w[4] : IsError(Back(known, w[4][i]))
    BY <1>3, ErrorBack, ErrorIs DEF Back
  <2> QED BY <2>1, <2>2 DEF Back
<1>4. CASE ~ \E i \in DOMAIN w[4] : IsError(decodeIn(known, w[4][i]))
  <2>1. d = << "namedTuple", w[2], w[3], items >>
    BY <1>2, <1>4
  <2>2. DOMAIN items = DOMAIN w[4] /\ \A i \in DOMAIN w[4] : encode(items[i]) = Back(known, w[4][i])
    BY DEF Back
  <2> HIDE DEF d, items
  <2>3. d[1] = "namedTuple" /\ d[2] = w[2] /\ d[3] = w[3] /\ d[4] = items
    BY <2>1
  <2>4. encode(d) = IF \E i \in DOMAIN items : IsError(encode(items[i])) THEN Error
                    ELSE << "namedTuple", w[2], w[3], [i \in DOMAIN items |-> encode(items[i])] >>
    BY <1>1, <2>3, TupleEncodes
  <2>5. [i \in DOMAIN items |-> encode(items[i])] = [i \in DOMAIN w[4] |-> Back(known, w[4][i])]
    BY <2>2
  <2>6. (\E i \in DOMAIN items : IsError(encode(items[i]))) <=> (\E i \in DOMAIN w[4] : IsError(Back(known, w[4][i])))
    BY <2>2
  <2> QED BY <2>4, <2>5, <2>6 DEF Back, d
<1> QED BY <1>3, <1>4

\* The pairs that come back: the same, in an order of their own.
SamePairs(known, w, pairs) ==
  /\ Back(known, w) = << "dict", pairs >>
  /\ \A i \in DOMAIN pairs : \E j \in DOMAIN w[2] :
       pairs[i] = << Back(known, w[2][j][1]), Back(known, w[2][j][2]) >>
  /\ \A j \in DOMAIN w[2] : \E i \in DOMAIN pairs :
       pairs[i] = << Back(known, w[2][j][1]), Back(known, w[2][j][2]) >>

Failing(known, w) ==
  \E i \in DOMAIN w[2] : IsError(Back(known, w[2][i][1])) \/ IsError(Back(known, w[2][i][2]))

LEMMA TextKey ==
  ASSUME NEW known, NEW w, IsWire(w), w[1] = "str"
  PROVE  /\ decodeIn(known, w) = w /\ w = << "str", w[2] >> /\ w[2] \notin BadText
         /\ Back(known, w) = << "str", w[2] >>
<1>1. w = << "str", w[2] >> /\ w[2] \notin BadText
  BY WireText
<1>2. decodeIn(known, w) = w
  <2>1. w[1] \in NoChildren
    BY DEF NoChildren, Leaves
  <2> QED BY <2>1, LeafIs, LeafDecodes
<1>3. encode(w) = encodeText(w[2])
  BY <1>1, EncodesText
<1> QED BY <1>1, <1>2, <1>3 DEF Back, encodeText

LEMMA DictBack ==
  ASSUME NEW known, NEW w, Sent(w), w[1] = "dict"
  PROVE  /\ Failing(known, w) => Back(known, w) = Error
         /\ ~Failing(known, w) => \E pairs : SamePairs(known, w, pairs)
<1> DEFINE d == decodeIn(known, w)
           key(i) == decodeIn(known, w[2][i][1])
           value(i) == decodeIn(known, w[2][i][2])
           items == [i \in DOMAIN w[2] |-> << key(i), value(i) >>]
<1>1. Nested(d) /\ Structless(d) /\ Nested(w) /\ IsWire(w)
  BY DecodedNested, SentParts
<1>2. \A i \in DOMAIN w[2] : Sent(w[2][i][1]) /\ IsWire(w[2][i][1]) /\ Nested(w[2][i][1])
  <2>1. Children(w) = { w[2][i][j] : i \in DOMAIN w[2], j \in 1..2 }
    BY ChildrenIs
  <2>2. \A i \in DOMAIN w[2] : w[2][i][1] \in Children(w)
    BY <2>1
  <2> QED BY <2>2, SentParts
<1>3. \A i \in DOMAIN w[2] : encode(key(i)) = Back(known, w[2][i][1]) /\ encode(value(i)) = Back(known, w[2][i][2])
  BY DEF Back
<1>4. CASE \E i \in DOMAIN w[2] : IsError(key(i)) \/ IsError(value(i))
  <2>1. d = Error
    BY <1>1, <1>4, DictDecodes
  <2>2. encode(d) = Error
    BY <2>1, ErrorBack, ErrorIs
  <2>3. Failing(known, w)
    <3> HIDE DEF d, key, value
    <3> QED BY <1>3, <1>4, ErrorBack, ErrorIs DEF Failing
  <2> QED BY <2>2, <2>3 DEF Back
<1>5. CASE /\ \A i \in DOMAIN w[2] : ~IsError(key(i)) /\ ~IsError(value(i))
           /\ \E i \in DOMAIN w[2] : key(i)[1] # "str"
  <2>1. d = << "dict", items >>
    BY <1>1, <1>5, DictDecodes
  <2>2. DOMAIN items = DOMAIN w[2] /\ \A i \in DOMAIN w[2] : items[i][1] = key(i) /\ items[i][2] = value(i)
    OBVIOUS
  <2> DEFINE pairs == [i \in DOMAIN items |-> << encode(items[i][1]), encode(items[i][2]) >>]
  <2> HIDE DEF d, items, key, value
  <2>3. d[1] = "dict" /\ d[2] = items
    BY <2>1
  <2>4. encode(d) = IF \E i \in DOMAIN items : IsError(encode(items[i][1])) \/ IsError(encode(items[i][2])) THEN Error
                    ELSE << "dict", pairs >>
    BY <1>1, <2>3, DictEncodes
  <2>5. DOMAIN pairs = DOMAIN w[2]
        /\ \A i \in DOMAIN w[2] : pairs[i] = << Back(known, w[2][i][1]), Back(known, w[2][i][2]) >>
    BY <1>3, <2>2
  <2> HIDE DEF pairs
  <2>6. (\E i \in DOMAIN items : IsError(encode(items[i][1])) \/ IsError(encode(items[i][2]))) <=> Failing(known, w)
    BY <1>3, <2>2 DEF Failing
  <2>7. Failing(known, w) => Back(known, w) = Error
    BY <2>4, <2>6 DEF Back, d
  <2>8. ASSUME ~Failing(known, w) PROVE SamePairs(known, w, pairs)
    <3>1. Back(known, w) = << "dict", pairs >>
      BY <2>4, <2>6, <2>8 DEF Back, d
    <3> QED BY <2>5, <3>1 DEF SamePairs
  <2> QED BY <2>7, <2>8
<1>6. CASE /\ \A i \in DOMAIN w[2] : ~IsError(key(i)) /\ ~IsError(value(i))
           /\ \A i \in DOMAIN w[2] : key(i)[1] = "str"
  <2> DEFINE K(i) == w[2][i][1][2]
  <2>1. PICK m : IsMapOf(known, w, m)
    BY <1>1, <1>6, DictDecodes
  <2>2. \A i \in DOMAIN w[2] : w[2][i][1][1] = "str"
    BY <1>2, <1>6, DecodedChildren
  <2>3. \A i \in DOMAIN w[2] : /\ key(i) = w[2][i][1] /\ w[2][i][1] = << "str", K(i) >> /\ K(i) \notin BadText
                               /\ Back(known, w[2][i][1]) = << "str", K(i) >>
    BY <1>2, <2>2, TextKey
  <2>4. \A i \in DOMAIN w[2] : K(i) \in Range(Keys)
    BY <1>1, <2>2, WireIs
  <2>5. \A i, j \in DOMAIN w[2] : w[2][i][1] = w[2][j][1] => i = j
    BY <1>1, WireIs
  <2>6. d = << "map", m >>
    BY <2>1 DEF IsMapOf
  <2>7. DOMAIN m = { key(i)[2] : i \in DOMAIN w[2] }
    BY <2>1 DEF IsMapOf
  <2>8. \A k \in DOMAIN m : \E i \in DOMAIN w[2] : key(i)[2] = k /\ m[k] = value(i)
    BY <2>1 DEF IsMapOf
  <2>9. \A k \in DOMAIN m : \E i \in DOMAIN w[2] : k = K(i) /\ encode(m[k]) = Back(known, w[2][i][2])
    <3> HIDE DEF key, value, d
    <3> QED BY <1>3, <2>3, <2>8
  <2> HIDE DEF K
  <2>10. ASSUME NEW j \in DOMAIN w[2]
         PROVE  K(j) \in DOMAIN m /\ encode(m[K(j)]) = Back(known, w[2][j][2])
    <3>1. key(j)[2] = K(j)
      BY <2>3 DEF K
    <3>2. K(j) \in DOMAIN m
      BY <2>7, <3>1
    <3>3. PICK i \in DOMAIN w[2] : K(j) = K(i) /\ encode(m[K(j)]) = Back(known, w[2][i][2])
      BY <2>9, <3>2
    <3>4. w[2][i][1] = w[2][j][1]
      BY <2>3, <3>3
    <3>5. i = j
      BY <2>5, <3>4
    <3> QED BY <3>2, <3>3, <3>5
  <2>11. DOMAIN m \subseteq Range(Keys) \ BadText
    BY <2>3, <2>4, <2>9
  <2>12. \A i \in DOMAIN w[2] : ~IsError(Back(known, w[2][i][1]))
    BY <2>3 DEF IsError
  <2> HIDE DEF d, key, value
  <2>13. /\ (\E k \in DOMAIN m : IsError(encode(m[k]))) => encode(d) = Error
         /\ (\A k \in DOMAIN m : ~IsError(encode(m[k]))) => \E pairs : IsDictOf(m, d, pairs)
    BY <1>1, <2>6, <2>11, MapEncodes
  <2>14. ASSUME Failing(known, w) PROVE Back(known, w) = Error
    <3>1. PICK i \in DOMAIN w[2] : IsError(Back(known, w[2][i][2]))
      BY <2>12, <2>14 DEF Failing
    <3>2. K(i) \in DOMAIN m /\ IsError(encode(m[K(i)]))
      BY <2>10, <3>1
    <3> QED BY <2>13, <3>2 DEF Back, d
  <2>15. ASSUME ~Failing(known, w) PROVE \E pairs : SamePairs(known, w, pairs)
    <3>1. \A k \in DOMAIN m : ~IsError(encode(m[k]))
      BY <2>9, <2>15 DEF Failing
    <3>2. PICK pairs : IsDictOf(m, d, pairs)
      BY <2>13, <3>1
    <3>3. Back(known, w) = << "dict", pairs >>
      BY <3>2 DEF IsDictOf, Back, d
    <3>4. ASSUME NEW i \in DOMAIN pairs
          PROVE  \E j \in DOMAIN w[2] : pairs[i] = << Back(known, w[2][j][1]), Back(known, w[2][j][2]) >>
      <4>1. PICK k \in DOMAIN m : pairs[i] = << << "str", k >>, encode(m[k]) >>
        BY <3>2 DEF IsDictOf
      <4>2. PICK j \in DOMAIN w[2] : k = K(j) /\ encode(m[k]) = Back(known, w[2][j][2])
        BY <2>9
      <4> QED BY <2>3, <4>1, <4>2
    <3>5. ASSUME NEW j \in DOMAIN w[2]
          PROVE  \E i \in DOMAIN pairs : pairs[i] = << Back(known, w[2][j][1]), Back(known, w[2][j][2]) >>
      <4>1. K(j) \in DOMAIN m /\ encode(m[K(j)]) = Back(known, w[2][j][2])
        BY <2>10
      <4>2. PICK i \in DOMAIN pairs : pairs[i] = << << "str", K(j) >>, encode(m[K(j)]) >>
        BY <3>2, <4>1 DEF IsDictOf
      <4> QED BY <2>3, <4>1, <4>2
    <3>6. SamePairs(known, w, pairs)
      BY <3>3, <3>4, <3>5 DEF SamePairs
    <3> QED BY <3>6
  <2> QED BY <2>14, <2>15
<1> QED BY <1>4, <1>5, <1>6

\* In what comes back is what comes back of those in it.
LEMMA BackChildren ==
  ASSUME NEW known, NEW w, Sent(w)
  PROVE  Children(Back(known, w)) \subseteq { Back(known, c) : c \in Children(w) }
<1> DEFINE b == Back(known, w)
           D == { Back(known, c) : c \in Children(w) }
<1>0. IsWire(w) /\ Nested(w) /\ w[1] \in Leaves \cup Sequence \cup {"namedTuple", "dict"}
  BY SentParts, WireKind
<1>e. b = Error => Children(b) \subseteq D
  BY ErrorIs
<1>1. CASE w[1] \in Leaves
  <2>1. b[1] \in NoChildren
    BY <1>0, <1>1, LeafFares
  <2> HIDE DEF b
  <2>2. Children(b) = {}
    BY <2>1, LeafIs
  <2> QED BY <2>2 DEF b
<1>2. CASE w[1] \in Sequence
  <2> DEFINE items == [i \in DOMAIN w[2] |-> Back(known, w[2][i])]
  <2>1. b = Error \/ b = << w[1], items >>
    BY <1>2, ListBack
  <2>2. \A i \in DOMAIN w[2] : w[2][i] \in Children(w)
    BY <1>2, ChildrenIs DEF Range
  <2>3. Range(items) \subseteq D
    BY <2>2 DEF Range
  <2> HIDE DEF b, items, D
  <2>4. b = << w[1], items >> => Children(b) = Range(items)
    BY <1>2, ChildrenIs
  <2>5. Children(b) \subseteq D
    BY <1>e, <2>1, <2>3, <2>4
  <2> QED BY <2>5 DEF b, D
<1>3. CASE w[1] = "namedTuple"
  <2> DEFINE items == [i \in DOMAIN w[4] |-> Back(known, w[4][i])]
  <2>1. b = Error \/ b = << "namedTuple", w[2], w[3], items >>
    BY <1>3, TupleBack
  <2>2. \A i \in DOMAIN w[4] : w[4][i] \in Children(w)
    BY <1>3, ChildrenIs DEF Range
  <2>3. Range(items) \subseteq D
    BY <2>2 DEF Range
  <2> HIDE DEF b, items, D
  <2>4. b = << "namedTuple", w[2], w[3], items >> => Children(b) = Range(items)
    BY ChildrenIs
  <2>5. Children(b) \subseteq D
    BY <1>e, <2>1, <2>3, <2>4
  <2> QED BY <2>5 DEF b, D
<1>4. CASE w[1] = "dict"
  <2>1. b = Error \/ \E pairs : SamePairs(known, w, pairs)
    BY <1>4, DictBack
  <2>2. \A i \in DOMAIN w[2] : Back(known, w[2][i][1]) \in D /\ Back(known, w[2][i][2]) \in D
    <3>1. Children(w) = { w[2][i][j] : i \in DOMAIN w[2], j \in 1..2 }
      BY <1>4, ChildrenIs
    <3>2. \A i \in DOMAIN w[2] : w[2][i][1] \in Children(w) /\ w[2][i][2] \in Children(w)
      BY <3>1
    <3> QED BY <3>2
  <2> HIDE DEF D
  <2>3. ASSUME NEW pairs, SamePairs(known, w, pairs) PROVE Children(b) \subseteq D
    <3>1. b = << "dict", pairs >>
      BY <2>3 DEF SamePairs
    <3> HIDE DEF b
    <3>2. b[1] = "dict" /\ b[2] = pairs
      BY <3>1
    <3>3. Children(b) = { pairs[i][j] : i \in DOMAIN pairs, j \in 1..2 }
      BY <3>2, ChildrenIs
    <3>4. ASSUME NEW c \in Children(b) PROVE c \in D
      <4>1. PICK i \in DOMAIN pairs, j \in 1..2 : c = pairs[i][j]
        BY <3>3
      <4>2. PICK l \in DOMAIN w[2] : pairs[i] = << Back(known, w[2][l][1]), Back(known, w[2][l][2]) >>
        BY <2>3 DEF SamePairs
      <4>3. j = 1 \/ j = 2
        OBVIOUS
      <4> QED BY <2>2, <4>1, <4>2, <4>3
    <3> QED BY <3>4
  <2>4. Children(b) \subseteq D
    BY <1>e, <2>1, <2>3 DEF D
  <2> QED BY <2>4 DEF D
<1> QED BY <1>0, <1>1, <1>2, <1>3, <1>4

LEMMA BackNested ==
  ASSUME NEW known, NEW w, Sent(w)
  PROVE  Nested(Back(known, w))
<1>1. PICK A : Chain(A) /\ A[Top] = Parts(w) /\ \A n \in 0..Top : A[n] \subseteq Parts(w)
  BY ChainOf DEF Sent
<1>2. \A p \in Parts(w) : Sent(p)
  BY SentParts
<1> DEFINE B == [n \in 0..Top |-> { Back(known, q) : q \in A[n] }]
<1>3. B[0] = {} /\ B[Top] = { Back(known, q) : q \in Parts(w) }
  BY <1>1, TopIs DEF Chain
<1>4. ASSUME NEW n \in 0..MaxNesting
      PROVE  B[n] \subseteq B[n + 1] /\ \A p \in B[n + 1] : Children(p) \subseteq B[n]
  <2>1. n \in 0..Top /\ n + 1 \in 0..Top
    BY TopIs DEF Top
  <2>2. B[n] = { Back(known, q) : q \in A[n] } /\ B[n + 1] = { Back(known, q) : q \in A[n + 1] }
    BY <2>1
  <2>3. A[n] \subseteq A[n + 1] /\ (\A p \in A[n + 1] : Children(p) \subseteq A[n]) /\ A[n + 1] \subseteq Parts(w)
    BY <1>1, <2>1 DEF Chain
  <2> HIDE DEF B
  <2>4. ASSUME NEW p \in B[n + 1] PROVE Children(p) \subseteq B[n]
    <3>1. PICK q \in A[n + 1] : p = Back(known, q)
      BY <2>2
    <3>2. Children(p) \subseteq { Back(known, c) : c \in Children(q) }
      BY <1>2, <2>3, <3>1, BackChildren
    <3>3. Children(q) \subseteq A[n]
      BY <2>3
    <3> QED BY <2>2, <3>2, <3>3
  <2> QED BY <2>2, <2>3, <2>4
<1> HIDE DEF B
<1>5. Chain(B)
  BY <1>3, <1>4 DEF Chain
<1>6. Back(known, w) \in B[Top]
  BY <1>3, SentParts
<1> QED BY <1>5, <1>6, ChainClosed

\* What is said of a value with others in it, is said of one of those.
LEMMA OfParts ==
  ASSUME NEW known, NEW w, Sent(w), w[1] \in Sequence \cup {"namedTuple", "dict"}
  PROVE  /\ Opaque(known, w) <=> \E c \in Children(w) : Opaque(known, c)
         /\ Changed(w) <=> \E c \in Children(w) : Changed(c)
<1>1. ~OpaqueHere(known, w) /\ ~ChangedHere(w)
  BY DEF OpaqueHere, ChangedHere, Sequence
<1>2. \A p \in Parts(w) : p = w \/ \E c \in Children(w) : p \in Parts(c)
  BY PartsSplit DEF Sent
<1>3. \A c \in Children(w) : Parts(c) \subseteq Parts(w)
  BY PartsNested DEF Sent
<1>4. Opaque(known, w) <=> \E c \in Children(w) : Opaque(known, c)
  BY <1>1, <1>2, <1>3, OpaqueIs
<1>5. Changed(w) <=> \E c \in Children(w) : Changed(c)
  BY <1>1, <1>2, <1>3, ChangedIs
<1> QED BY <1>4, <1>5

\* A value comes back unless something in it has no Go form that may go back,
\* and then as it was, unless something in it is among what the codec changes.
Returns(known, w) ==
  /\ Opaque(known, w) => IsError(Back(known, w))
  /\ ~Opaque(known, w) =>
       ~IsError(Back(known, w)) /\ (Changed(w) \/ Meaning(Back(known, w)) = Meaning(w))

LEMMA LeafReturns ==
  ASSUME NEW known, NEW w, IsWire(w), w[1] \in Leaves
  PROVE  Returns(known, w)
<1>1. Parts(w) = {w}
  BY LeafIs DEF NoChildren
<1>2. Opaque(known, w) <=> OpaqueHere(known, w)
  BY <1>1, OpaqueIs
<1>3. Changed(w) <=> ChangedHere(w)
  BY <1>1, ChangedIs
<1> QED BY <1>2, <1>3, LeafFares DEF Returns

LEMMA ListReturns ==
  ASSUME NEW known, NEW w, Sent(w), w[1] \in Sequence, \A c \in Children(w) : Returns(known, c)
  PROVE  Returns(known, w)
<1> DEFINE b == Back(known, w)
           items == [i \in DOMAIN w[2] |-> Back(known, w[2][i])]
<1>1. Children(w) = { w[2][i] : i \in DOMAIN w[2] }
  BY ChildrenIs DEF Range
<1>2. Nested(w) /\ Nested(b)
  BY BackNested, SentParts
<1>3. CASE Opaque(known, w)
  <2>1. PICK i \in DOMAIN w[2] : Opaque(known, w[2][i])
    BY <1>1, <1>3, OfParts
  <2>2. IsError(Back(known, w[2][i]))
    BY <1>1, <2>1 DEF Returns
  <2>3. b = Error
    BY <2>2, ListBack
  <2> QED BY <1>3, <2>3, ErrorIs DEF Returns
<1>4. CASE ~Opaque(known, w)
  <2>1. \A i \in DOMAIN w[2] : ~Opaque(known, w[2][i])
    BY <1>1, <1>4, OfParts
  <2>2. \A i \in DOMAIN w[2] : ~IsError(Back(known, w[2][i]))
    BY <1>1, <2>1 DEF Returns
  <2>3. b = << w[1], items >>
    BY <2>2, ListBack
  <2>4. DOMAIN items = DOMAIN w[2] /\ \A i \in DOMAIN w[2] : items[i] = Back(known, w[2][i])
    OBVIOUS
  <2> HIDE DEF b, items
  <2>5. b[1] = w[1] /\ b[2] = items
    BY <2>3
  <2>6. ~IsError(b)
    BY <2>5 DEF IsError, Sequence
  <2>7. ASSUME ~Changed(w) PROVE Meaning(b) = Meaning(w)
    <3>1. \A i \in DOMAIN w[2] : ~Changed(w[2][i])
      BY <1>1, <2>7, OfParts
    <3>2. \A i \in DOMAIN w[2] : Meaning(items[i]) = Meaning(w[2][i])
      BY <1>1, <2>1, <2>4, <3>1 DEF Returns
    <3>3. CASE w[1] \in {"list", "tuple"}
      <4>1. Meaning(b) = << w[1], [i \in DOMAIN items |-> Meaning(items[i])] >>
        BY <1>2, <2>5, <3>3, ItemMeans
      <4>2. Meaning(w) = << w[1], [i \in DOMAIN w[2] |-> Meaning(w[2][i])] >>
        BY <1>2, <3>3, ItemMeans
      <4>3. [i \in DOMAIN items |-> Meaning(items[i])] = [i \in DOMAIN w[2] |-> Meaning(w[2][i])]
        BY <2>4, <3>2
      <4> QED BY <4>1, <4>2, <4>3
    <3>4. CASE w[1] \in {"set", "frozenset"}
      <4>1. Meaning(b) = << w[1], { Meaning(items[i]) : i \in DOMAIN items } >>
        BY <1>2, <2>5, <3>4, ItemMeans
      <4>2. Meaning(w) = << w[1], { Meaning(w[2][i]) : i \in DOMAIN w[2] } >>
        BY <1>2, <3>4, ItemMeans
      <4>3. { Meaning(items[i]) : i \in DOMAIN items } = { Meaning(w[2][i]) : i \in DOMAIN w[2] }
        BY <2>4, <3>2
      <4> QED BY <4>1, <4>2, <4>3
    <3> QED BY <3>3, <3>4 DEF Sequence
  <2> QED BY <1>4, <2>6, <2>7 DEF Returns, b
<1> QED BY <1>3, <1>4

LEMMA TupleReturns ==
  ASSUME NEW known, NEW w, Sent(w), w[1] = "namedTuple", \A c \in Children(w) : Returns(known, c)
  PROVE  Returns(known, w)
<1> DEFINE b == Back(known, w)
           items == [i \in DOMAIN w[4] |-> Back(known, w[4][i])]
<1>1. Children(w) = { w[4][i] : i \in DOMAIN w[4] }
  BY ChildrenIs DEF Range
<1>2. Nested(w) /\ Nested(b)
  BY BackNested, SentParts
<1>3. CASE Opaque(known, w)
  <2>1. PICK i \in DOMAIN w[4] : Opaque(known, w[4][i])
    BY <1>1, <1>3, OfParts
  <2>2. IsError(Back(known, w[4][i]))
    BY <1>1, <2>1 DEF Returns
  <2>3. b = Error
    BY <2>2, TupleBack
  <2> QED BY <1>3, <2>3, ErrorIs DEF Returns
<1>4. CASE ~Opaque(known, w)
  <2>1. \A i \in DOMAIN w[4] : ~Opaque(known, w[4][i])
    BY <1>1, <1>4, OfParts
  <2>2. \A i \in DOMAIN w[4] : ~IsError(Back(known, w[4][i]))
    BY <1>1, <2>1 DEF Returns
  <2>3. b = << "namedTuple", w[2], w[3], items >>
    BY <2>2, TupleBack
  <2>4. DOMAIN items = DOMAIN w[4] /\ \A i \in DOMAIN w[4] : items[i] = Back(known, w[4][i])
    OBVIOUS
  <2> HIDE DEF b, items
  <2>5. b[1] = "namedTuple" /\ b[2] = w[2] /\ b[3] = w[3] /\ b[4] = items
    BY <2>3
  <2>6. ~IsError(b)
    BY <2>5 DEF IsError
  <2>7. ASSUME ~Changed(w) PROVE Meaning(b) = Meaning(w)
    <3>1. \A i \in DOMAIN w[4] : ~Changed(w[4][i])
      BY <1>1, <2>7, OfParts
    <3>2. \A i \in DOMAIN w[4] : Meaning(items[i]) = Meaning(w[4][i])
      BY <1>1, <2>1, <2>4, <3>1 DEF Returns
    <3>3. Meaning(b) = << "namedTuple", w[2], w[3], [i \in DOMAIN items |-> Meaning(items[i])] >>
      BY <1>2, <2>5, TupleMeans
    <3>4. Meaning(w) = << "namedTuple", w[2], w[3], [i \in DOMAIN w[4] |-> Meaning(w[4][i])] >>
      BY <1>2, TupleMeans
    <3>5. [i \in DOMAIN items |-> Meaning(items[i])] = [i \in DOMAIN w[4] |-> Meaning(w[4][i])]
      BY <2>4, <3>2
    <3> QED BY <3>3, <3>4, <3>5
  <2> QED BY <1>4, <2>6, <2>7 DEF Returns, b
<1> QED BY <1>3, <1>4

LEMMA DictReturns ==
  ASSUME NEW known, NEW w, Sent(w), w[1] = "dict", \A c \in Children(w) : Returns(known, c)
  PROVE  Returns(known, w)
<1> DEFINE b == Back(known, w)
           key(i) == w[2][i][1]
           value(i) == w[2][i][2]
<1>1. Children(w) = { w[2][i][j] : i \in DOMAIN w[2], j \in 1..2 }
  BY ChildrenIs
<1>2. \A i \in DOMAIN w[2] : key(i) \in Children(w) /\ value(i) \in Children(w)
  BY <1>1
<1>3. \A c \in Children(w) : \E i \in DOMAIN w[2] : c = key(i) \/ c = value(i)
  <2> TAKE c \in Children(w)
  <2>1. PICK i \in DOMAIN w[2], j \in 1..2 : c = w[2][i][j]
    BY <1>1
  <2>2. j = 1 \/ j = 2
    OBVIOUS
  <2> QED BY <2>1, <2>2
<1>4. Nested(w) /\ Nested(b)
  BY BackNested, SentParts
<1>5. Failing(known, w) <=> \E i \in DOMAIN w[2] : IsError(Back(known, key(i))) \/ IsError(Back(known, value(i)))
  BY DEF Failing
<1> HIDE DEF key, value
<1>6. CASE Opaque(known, w)
  <2>1. PICK c \in Children(w) : Opaque(known, c)
    BY <1>6, OfParts
  <2>2. IsError(Back(known, c))
    BY <2>1 DEF Returns
  <2>3. Failing(known, w)
    BY <1>3, <1>5, <2>2
  <2>4. b = Error
    BY <2>3, DictBack
  <2> QED BY <1>6, <2>4, ErrorIs DEF Returns
<1>7. CASE ~Opaque(known, w)
  <2>1. \A c \in Children(w) : ~Opaque(known, c) /\ ~IsError(Back(known, c))
    BY <1>7, OfParts DEF Returns
  <2>2. ~Failing(known, w)
    BY <1>2, <1>5, <2>1
  <2>3. PICK pairs : SamePairs(known, w, pairs)
    BY <2>2, DictBack
  <2>4. b = << "dict", pairs >>
    BY <2>3 DEF SamePairs
  <2> HIDE DEF b
  <2>5. b[1] = "dict" /\ b[2] = pairs
    BY <2>4
  <2>6. ~IsError(b)
    BY <2>5 DEF IsError
  <2>7. ASSUME ~Changed(w) PROVE Meaning(b) = Meaning(w)
    <3>1. \A c \in Children(w) : Meaning(Back(known, c)) = Meaning(c)
      BY <2>1, <2>7, OfParts DEF Returns
    <3>2. \A i \in DOMAIN w[2] : /\ Meaning(Back(known, key(i))) = Meaning(key(i))
                                 /\ Meaning(Back(known, value(i))) = Meaning(value(i))
      BY <1>2, <3>1
    <3> DEFINE M == { << Meaning(pairs[i][1]), Meaning(pairs[i][2]) >> : i \in DOMAIN pairs }
               N == { << Meaning(key(i)), Meaning(value(i)) >> : i \in DOMAIN w[2] }
    <3>3. Meaning(b) = << "dict", M >>
      BY <1>4, <2>5, DictMeans
    <3>4. Meaning(w) = << "dict", N >>
      BY <1>4, DictMeans DEF key, value
    <3>5. \A i \in DOMAIN pairs : \E j \in DOMAIN w[2] : pairs[i] = << Back(known, key(j)), Back(known, value(j)) >>
      BY <2>3 DEF SamePairs, key, value
    <3>6. \A j \in DOMAIN w[2] : \E i \in DOMAIN pairs : pairs[i] = << Back(known, key(j)), Back(known, value(j)) >>
      BY <2>3 DEF SamePairs, key, value
    <3>7. M \subseteq N
      <4>1. ASSUME NEW i \in DOMAIN pairs PROVE << Meaning(pairs[i][1]), Meaning(pairs[i][2]) >> \in N
        <5>1. PICK j \in DOMAIN w[2] : pairs[i] = << Back(known, key(j)), Back(known, value(j)) >>
          BY <3>5
        <5>2. Meaning(pairs[i][1]) = Meaning(key(j)) /\ Meaning(pairs[i][2]) = Meaning(value(j))
          BY <3>2, <5>1
        <5> QED BY <5>2
      <4> QED BY <4>1
    <3>8. N \subseteq M
      <4>1. ASSUME NEW j \in DOMAIN w[2] PROVE << Meaning(key(j)), Meaning(value(j)) >> \in M
        <5>1. PICK i \in DOMAIN pairs : pairs[i] = << Back(known, key(j)), Back(known, value(j)) >>
          BY <3>6
        <5>2. Meaning(pairs[i][1]) = Meaning(key(j)) /\ Meaning(pairs[i][2]) = Meaning(value(j))
          BY <3>2, <5>1
        <5> QED BY <5>2
      <4> QED BY <4>1
    <3> QED BY <3>3, <3>4, <3>7, <3>8
  <2> QED BY <1>7, <2>6, <2>7 DEF Returns, b
<1> QED BY <1>6, <1>7

\* Every value that the sandbox may send, whatever is in it, comes back through
\* encode and decode, or is refused, as Returns says: whichever objects the
\* store knows (value.go).
THEOREM RoundTrip == \A known, w : Sent(w) => Returns(known, w)
<1> SUFFICES ASSUME NEW known, NEW w, Sent(w) PROVE Returns(known, w)
  OBVIOUS
<1> DEFINE S == { p \in Parts(w) : Returns(known, p) }
<1>1. ASSUME NEW p \in Parts(w), Children(p) \subseteq S PROVE p \in S
  <2>1. Sent(p) /\ IsWire(p) /\ \A c \in Children(p) : Returns(known, c)
    BY <1>1, SentParts
  <2>2. p[1] \in Leaves \cup Sequence \cup {"namedTuple", "dict"}
    BY <2>1, WireKind
  <2> QED BY <2>1, <2>2, LeafReturns, ListReturns, TupleReturns, DictReturns
<1>2. Nested(w) /\ w \in Parts(w)
  BY SentParts
<1> HIDE DEF S
<1>3. Parts(w) \subseteq S
  BY <1>1, <1>2, TreeInduction
<1> QED BY <1>2, <1>3 DEF S

(***************************************************************************)
(* What goes through the host, and the default of os.getenv                *)
(***************************************************************************)

\* What goes through the host.
LEMMA EchoIs ==
  ASSUME NEW w, Sent(w)
  PROVE  /\ Opaque(Known, w) => echo(w)[1] # "return"
         /\ ~Opaque(Known, w) => echo(w)[1] = "return" /\ (Changed(w) \/ Meaning(echo(w)[2]) = Meaning(w))
<1> DEFINE v == decode(w)
           b == Back(Known, w)
<1>1. v = decodeIn(Known, w) /\ encode(v) = b
  BY DEF decode, Back
<1>2. Returns(Known, w)
  BY RoundTrip
<1>3. IsError(v) => IsError(b)
  BY <1>1, ErrorBack, ErrorIs
<1> HIDE DEF v, b
<1>4. echo(w) = IF IsError(v) THEN << "protocolError" >> ELSE IF IsError(b) THEN Raise("TypeError") ELSE Ret(b)
  BY <1>1 DEF echo, ret, v
<1>5. CASE IsError(b)
  <2>1. echo(w)[1] # "return"
    BY <1>4, <1>5 DEF Raise
  <2> QED BY <1>2, <1>5, <2>1 DEF Returns, b
<1>6. CASE ~IsError(b)
  <2>1. echo(w) = << "return", b >>
    BY <1>3, <1>4, <1>6 DEF Ret
  <2> QED BY <1>2, <1>6, <2>1 DEF Returns, b
<1> QED BY <1>5, <1>6

LEMMA CallInvEchoes == CallInv => EchoFaithful
<1> SUFFICES ASSUME CallInv, Answered("echo") PROVE EchoFaithful
  BY DEF EchoFaithful
<1>1. answer = echo(event.value) /\ event \in Requests
  BY DEF CallInv, Faithful, Answered
<1>2. Sent(event.value)
  BY <1>1, RequestsAre, SentAssumption DEF Answered
<1>3. /\ Opaque(Known, event.value) => answer[1] # "return"
      /\ ~Opaque(Known, event.value) =>
           answer[1] = "return" /\ (Changed(event.value) \/ Meaning(answer[2]) = Meaning(event.value))
  BY <1>1, <1>2, EchoIs
<1> QED BY <1>3 DEF EchoFaithful

\* What a handler makes of os.getenv.
FromEnv == \E i \in DOMAIN handlers : handlers[i].kind = "env" /\ call.key \in DOMAIN handlers[i].vars

LEMMA AskedGetenv ==
  ASSUME TInv, call.name = "getenv", at \in DOMAIN handlers
  PROVE  /\ Asked(handlers[at]) # Ranges
         /\ Asked(handlers[at]) = NotHandled \/ Asked(handlers[at]) = Ret(call.default) \/ FromEnv
<1> DEFINE h == handlers[at]
<1>1. h.kind \in {"nil", "fs", "env", "clock"}
  BY OSAssumption DEF TInv, IsHandler
<1>2. NotHandled # Ranges /\ \A v : Ret(v) # Ranges
  BY DEF NotHandled, Ranges, Ret
<1>3. CASE h.kind = "nil"
  <2>1. Asked(h) = NotHandled
    BY <1>3, Zenon DEF Asked
  <2> QED BY <1>2, <2>1
<1>4. CASE h.kind = "fs"
  <2>1. Asked(h) = HandleOSCall(h, call, files[h.files])
    BY <1>4, Zenon DEF Asked
  <2>2. Asked(h) = NotHandled
    BY <2>1, Zenon DEF HandleOSCall, Others
  <2> QED BY <1>2, <2>2
<1>5. CASE h.kind = "env"
  <2>1. Asked(h) = Env(h, call)
    BY <1>5, Zenon DEF Asked
  <2>2. Asked(h) = IF call.key \in DOMAIN h.vars THEN Ret(<< "str", h.vars[call.key] >>) ELSE Ret(call.default)
    BY <2>1, Zenon DEF Env
  <2> QED BY <1>2, <1>5, <2>2 DEF FromEnv
<1>6. CASE h.kind = "clock"
  <2>1. Asked(h) = Clock(h, call)
    BY <1>6, Zenon DEF Asked
  <2>2. Asked(h) = NotHandled
    BY <2>1 DEF Clock
  <2> QED BY <1>2, <2>2
<1> QED BY <1>1, <1>3, <1>4, <1>5, <1>6

OSAnswer ==
  IF result[1] # "return" THEN result
  ELSE LET w == encodeOSResult(call, result[2]) IN IF IsError(w) THEN Raise("TypeError") ELSE Ret(w)

\* An OS call is the one that code made; getenv gets its default, or what an
\* environment holds; and the answer is what came of that.
Defaulted ==
  event.kind = "os" =>
    LET c == osCallFromProto(event.asked) IN
    /\ stage # "idle" =>
         /\ ~IsError(c) /\ call = c[2]
         /\ call.name = "getenv" =>
              /\ stage # "ranging"
              /\ stage = "served" => result = NotHandled \/ result = Ret(call.default) \/ FromEnv
    /\ answer # None => \/ IsError(c) /\ answer = << "protocolError" >>
                        \/ stage = "served" /\ answer = OSAnswer

LEMMA ServeKeepsDefault == CallInv /\ Defaulted /\ ServeOS => Defaulted'
<1> SUFFICES ASSUME CallInv, Defaulted, ServeOS, event.kind = "os" PROVE Defaulted'
  BY DEF ServeOS, Defaulted
<1> DEFINE c == osCallFromProto(event.asked)
<1>1. OSNext /\ UNCHANGED << arch, event, answer >>
  BY DEF ServeOS
<1>2. stage \in {"asking", "ranging"} /\ call' = call /\ handlers' = handlers
  BY <1>1 DEF OSNext, PassOver, Answer, Exhausted, BeginRange, Visit, EndRange, Asking, Serving
<1>3. TInv
  BY <1>2 DEF CallInv, Fresh, IInv
<1>4. ~IsError(c) /\ call = c[2] /\ answer = None /\ (call.name = "getenv" => stage = "asking")
  BY <1>2 DEF Defaulted
<1>5. FromEnv <=> FromEnv'
  BY <1>2 DEF FromEnv
<1>6. stage' # "idle"
  BY <1>1, <1>2 DEF OSNext, PassOver, Answer, Exhausted, BeginRange, Visit, EndRange, Serve
<1>7. ASSUME call.name = "getenv"
      PROVE  stage' # "ranging"
             /\ (stage' = "served" => result' = NotHandled \/ result' = Ret(call.default) \/ FromEnv)
  <2>1. stage = "asking"
    BY <1>4, <1>7
  <2>2. CASE PassOver
    BY <2>1, <2>2 DEF PassOver
  <2>3. CASE Answer
    <3>1. at \in DOMAIN handlers /\ stage' = "served" /\ result' = Asked(handlers[at])
      BY <2>3 DEF Answer, Asking, Serve
    <3> QED BY <1>3, <1>7, <3>1, AskedGetenv
  <2>4. CASE Exhausted
    BY <2>4 DEF Exhausted, Serve
  <2>5. CASE BeginRange
    <3>1. at \in DOMAIN handlers /\ Asked(handlers[at]) = Ranges
      BY <2>5 DEF BeginRange, Asking
    <3> QED BY <1>3, <1>7, <3>1, AskedGetenv
  <2>6. CASE Visit \/ EndRange
    BY <2>1, <2>6 DEF Visit, EndRange
  <2> QED BY <1>1, <2>2, <2>3, <2>4, <2>5, <2>6 DEF OSNext
<1> HIDE DEF c
<1>8. c' = c
  BY <1>1 DEF c
<1> QED BY <1>1, <1>2, <1>4, <1>5, <1>6, <1>7, <1>8 DEF Defaulted, c

LEMMA StepDefaulted == CallInv /\ Defaulted /\ [Next]_vars => Defaulted'
<1> SUFFICES ASSUME CallInv, Defaulted, [Next]_vars PROVE Defaulted'
  OBVIOUS
<1>1. ASSUME event' = event, event.kind # "os" PROVE Defaulted'
  BY <1>1 DEF Defaulted
<1>2. CASE AnswerEcho \/ AnswerTool \/ AnswerRaise \/ AnswerRegistry \/ AnswerMethod \/ AnswerAttribute \/ AnswerCall
           \/ Apply
  BY <1>1, <1>2 DEF AnswerEcho, AnswerTool, AnswerRaise, AnswerRegistry, AnswerMethod, AnswerAttribute,
                    AnswerCall, Apply, Answers
<1>3. CASE AnswerLookup
  BY <1>3 DEF AnswerLookup, Defaulted
<1>4. CASE RefuseOS
  <2>1. /\ event' = event /\ answer' = << "protocolError" >> /\ IsError(osCallFromProto(event.asked))
        /\ UNCHANGED osVars /\ event.kind = "os"
    BY <1>4 DEF RefuseOS, Answers
  <2>2. stage = "idle" /\ stage' = "idle"
    BY <2>1 DEF Defaulted, osVars
  <2> QED BY <2>1, <2>2 DEF Defaulted
<1>5. CASE TakeOS
  <2>1. /\ event' = event /\ answer' = answer /\ ~IsError(osCallFromProto(event.asked)) /\ event.kind = "os"
        /\ stage = "idle" /\ stage' = "asking" /\ call' = osCallFromProto(event.asked)[2]
    BY <1>5 DEF TakeOS
  <2>2. answer = None
    BY <2>1 DEF Defaulted
  <2> QED BY <2>1, <2>2 DEF Defaulted
<1>6. CASE ServeOS
  BY <1>6, ServeKeepsDefault
<1>7. CASE AnswerOS
  <2>1. event' = event /\ answer' = OSAnswer /\ stage = "served" /\ UNCHANGED osVars /\ event.kind = "os"
    BY <1>7 DEF AnswerOS, Answers, OSAnswer
  <2>2. OSAnswer' = OSAnswer /\ (FromEnv <=> FromEnv')
    BY <2>1 DEF OSAnswer, FromEnv, osVars
  <2>3. stage' = stage /\ call' = call /\ result' = result
    BY <2>1 DEF osVars
  <2> QED BY <2>1, <2>2, <2>3 DEF Defaulted
<1>8. CASE UNCHANGED vars
  <2>1. event' = event /\ answer' = answer /\ stage' = stage /\ call' = call /\ result' = result /\ handlers' = handlers
    BY <1>8 DEF vars, osVars
  <2>2. OSAnswer' = OSAnswer /\ (FromEnv <=> FromEnv')
    BY <2>1 DEF OSAnswer, FromEnv
  <2> QED BY <2>1, <2>2 DEF Defaulted
<1> QED BY <1>2, <1>3, <1>4, <1>5, <1>6, <1>7, <1>8 DEF Next

\* What os.getenv gives.
LEMMA DefaultIs ==
  ASSUME CallInv, Defaulted, Answered("os"), event.asked.name = "getenv", answer # NotHandled
  PROVE  DefaultKept
<1> DEFINE e == event.asked
           d == e.default
           c == osCallFromProto(e)
           b == Back({}, d)
<1>1. e \in Asks
  BY RequestsAre DEF CallInv, Answered
<1>2. {"name", "key", "default"} \subseteq DOMAIN e /\ Sent(d)
  BY <1>1, SentAssumption
<1>3. Returns({}, d)
  BY <1>2, RoundTrip
<1>4. c = IF IsError(decodeBare(d)) THEN Error ELSE << "call", [e EXCEPT !.default = decodeBare(d)] >>
  BY Zenon DEF osCallFromProto, PathCalls, Others
<1>5. decodeBare(d) = decodeIn({}, d) /\ encode(decodeBare(d)) = b
  BY DEF decodeBare, Back
<1>6. IsError(c) <=> IsError(decodeBare(d))
  BY <1>4 DEF IsError, Error
<1>7. CASE IsError(c)
  <2>1. answer = << "protocolError" >>
    BY <1>7 DEF Defaulted, Answered
  <2>2. IsError(b)
    BY <1>5, <1>6, <1>7, ErrorBack, ErrorIs
  <2>3. Opaque({}, d)
    BY <1>3, <2>2 DEF Returns
  <2>4. answer[1] # "return"
    BY <2>1
  <2> QED BY <2>3, <2>4 DEF DefaultKept
<1>8. CASE ~IsError(c)
  <2>1. stage = "served" /\ answer = OSAnswer /\ call = [e EXCEPT !.default = decodeBare(d)]
    BY <1>4, <1>6, <1>8 DEF Defaulted, Answered
  <2>2. call.name = "getenv" /\ call.key = e.key /\ call.default = decodeBare(d)
    BY <1>2, <2>1
  <2>3. result = NotHandled \/ result = Ret(decodeBare(d)) \/ FromEnv
    BY <2>1, <2>2 DEF Defaulted, Answered
  <2>4. CASE FromEnv
    BY <2>2, <2>4 DEF FromEnv, DefaultKept
  <2>5. CASE result = NotHandled
    BY <2>1, <2>5 DEF OSAnswer, NotHandled
  <2>6. CASE result = Ret(decodeBare(d))
    <3>1. result[1] = "return" /\ result[2] = decodeBare(d)
      BY <2>6 DEF Ret
    <3>2. decodeBare(d)[1] # "paths"
      <4>1. IsWire(d) /\ Nested(d)
        BY <1>2, SentParts
      <4>2. "paths" \notin NoChildren \cup Sequence \cup {"namedTuple", "dict", "map"}
        BY DEF NoChildren, Leaves, Plain, Integer, Sequence
      <4> QED BY <1>5, <4>1, <4>2, DecodedChildren
    <3>3. encodeOSResult(call, decodeBare(d)) = b
      <4>1. encodeOSResult(call, decodeBare(d)) = encode(decodeBare(d))
        BY <2>2, <3>2, Zenon DEF encodeOSResult
      <4> QED BY <1>5, <4>1
    <3> HIDE DEF b, d
    <3>4. answer = IF IsError(b) THEN Raise("TypeError") ELSE Ret(b)
      BY <2>1, <3>1, <3>3 DEF OSAnswer
    <3>5. Opaque({}, d) => answer[1] # "return"
      BY <1>3, <3>4 DEF Returns, Raise, b
    <3>6. ~Opaque({}, d) => answer[1] = "return" /\ (Changed(d) \/ Meaning(answer[2]) = Meaning(d))
      BY <1>3, <3>4 DEF Returns, Ret, b
    <3> QED BY <3>5, <3>6 DEF DefaultKept, d
  <2> QED BY <2>3, <2>4, <2>5, <2>6
<1> QED BY <1>7, <1>8

\* A value that goes through the host comes back as it was, a default of
\* os.getenv and an exception too, however deep what is in them and whatever
\* objects the session knows, but for what Changed and Opaque name (encode,
\* decode, osCallFromProto, encodeOSResult).
THEOREM CrossesFaithfully == Spec => []CrossingsFaithful
<1>1. Init => Defaulted
  BY DEF Init, Defaulted
<1>2. CallInv /\ Defaulted /\ [Next]_vars => Defaulted'
  BY StepDefaulted
<1>3. CallInv /\ Defaulted => DefaultKept
  BY DefaultIs DEF DefaultKept
<1>4. CallInv => EchoFaithful /\ ExceptionsKept
  BY CallInvEchoes, CallInvKeepsErrors
<1>5. EchoFaithful /\ ExceptionsKept /\ DefaultKept => CrossingsFaithful
  BY DEF CrossingsFaithful
<1> QED BY <1>1, <1>2, <1>3, <1>4, <1>5, SafeCalls, PTL DEF Spec

(***************************************************************************)
(* What a tool gets                                                        *)
(***************************************************************************)

\* The types that Kept is about.
Measured == {"int", "int8", "uint8", "uint64", "float", "float32", "bool", "duration"}

\* Numbers that decode to themselves.
LEMMA NumberDecodes ==
  ASSUME NEW known, NEW w, IsWire(w), Nested(w),
         decodeIn(known, w)[1] \in {"bool", "int", "bigInt", "float"}
  PROVE  decodeIn(known, w) \in Number
<1>1. w[1] # "bigint" => decodeIn(known, w) = w
  BY DecodedChildren
<1>2. w[1] \in {"bool", "int", "bigint", "float"}
  BY <1>1, DecodedChildren
<1>3. CASE w[1] = "bool"
  <2>1. w \in {"bool"} \X BOOLEAN
    BY <1>3, WireIs
  <2>2. PICK b \in BOOLEAN : w = << "bool", b >>
    BY <2>1
  <2> QED BY <1>1, <2>2 DEF Number
<1>4. CASE w[1] = "int"
  <2>1. w \in {"int"} \X (MinInt..MaxInt)
    BY <1>4, WireIs
  <2>2. PICK n \in MinInt..MaxInt : w = << "int", n >>
    BY <2>1
  <2> QED BY <1>1, <2>2 DEF Number
<1>5. CASE w[1] = "float"
  <2>1. w \in {"float"} \X Floats(Double)
    BY <1>5, WireIs
  <2>2. PICK h \in Floats(Double) : w = << "float", h >>
    BY <2>1
  <2> QED BY <1>1, <2>2 DEF Number
<1>6. CASE w[1] = "bigint"
  <2>1. w \in {"bigint"} \X BOOLEAN \X Nat
    BY <1>6, WireIs
  <2>2. decodeIn(known, w) = << "bigInt", IF w[2] THEN -w[3] ELSE w[3] >>
    BY <1>6, LeafDecodes DEF decodeBig
  <2>3. (IF w[2] THEN -w[3] ELSE w[3]) \in Int
    BY <2>1
  <2> QED BY <2>2, <2>3 DEF Number
<1> QED BY <1>2, <1>3, <1>4, <1>5, <1>6

\* Only the name of a number type counts.
LEMMA IntByName ==
  ASSUME NEW v, NEW T, NEW a
  PROVE  convertInt(v, T, a) = convertInt(v, << T[1] >>, a)
<1> DEFINE U == << T[1] >>
<1>1. U[1] = T[1]
  OBVIOUS
<1> HIDE DEF U
<1>2. \A n : Fits(n, T) <=> Fits(n, U)
  BY <1>1, Zenon DEF Fits
<1>3. convertInt(v, T, a) = convertInt(v, U, a)
  BY <1>1, <1>2, Zenon DEF convertInt
<1> QED BY <1>3 DEF U

LEMMA KeptByName ==
  ASSUME NEW v, NEW T, NEW g
  PROVE  Kept(v, T, g) <=> Kept(v, << T[1] >>, g)
BY DEF Kept, KeptAsFloat

LEMMA HalvesOfWhole == \A v : v[1] \notin {"bool", "float", "float32"} => Halves(v) = 2 * v[2]
BY Zenon DEF Halves

\* What is not measured is kept.
LEMMA KeptElse == \A v, T, g : T[1] \notin Measured => Kept(v, T, g)
BY DEF Kept, Measured

LEMMA IntIsKept ==
  ASSUME NEW v, v[1] \in {"bool", "int", "bigInt", "float"} => v \in Number,
         NEW T, T[1] \in {"int", "int8", "duration"},
         NEW a, ~IsError(convertInt(v, T, a))
  PROVE  Kept(v, T, convertInt(v, T, a))
<1> DEFINE g == convertInt(v, T, a)
           U == << T[1] >>
<1>1. g = convertInt(v, U, a) /\ U \in Signed
  BY IntByName DEF Signed
<1>2. v[1] \in {"bool", "int", "float"}
  <2> SUFFICES ASSUME v[1] \notin {"bool", "int", "float"} PROVE FALSE
    OBVIOUS
  <2>1. convertInt(v, T, a) = Error
    BY Zenon DEF convertInt
  <2> QED BY <2>1, ErrorIs
<1> HIDE DEF g
<1>3. Kept(v, U, g)
  BY <1>1, <1>2, IntegersAreKept DEF g
<1> QED BY <1>3, KeptByName DEF g

LEMMA UintIsKept ==
  ASSUME NEW v, NEW T, T[1] \in {"uint8", "uint64"}, ~IsError(convertUint(v, T))
  PROVE  Kept(v, T, convertUint(v, T))
<1> DEFINE g == convertUint(v, T)
<1>1. v[1] \in {"int", "bigInt"} /\ g = << T[1], v[2] >>
  BY ErrorIs DEF convertUint
<1> HIDE DEF g
<1>2. Halves(g) = 2 * v[2] /\ Halves(v) = 2 * v[2]
  BY <1>1, HalvesOfWhole
<1> QED BY <1>2 DEF Kept, g

\* The type's own precision comes last.
LEMMA NarrowedIs ==
  ASSUME NEW v, NEW T, T[1] \in {"float", "float32"}, NEW n \in Floats(Double),
         Nearest(Halves(v), n, Double) \/ (v = << "float", NaN >> /\ n = NaN)
  PROVE  KeptAsFloat(v, T, << T[1], Narrowed(n, T) >>)
<1> DEFINE m == Narrowed(n, T)
           g == << T[1], m >>
<1>0. g[2] = m
  OBVIOUS
<1> HIDE DEF g
<1> SUFFICES KeptAsFloat(v, T, g)
  BY DEF g
<1>1. n \in Int
  BY FloatsAre
<1>2. CASE n = NaN
  <2>1. m = n
    BY <1>2 DEF Narrowed
  <2>2. CASE v = << "float", NaN >>
    <3> HIDE DEF m
    <3> QED BY <1>0, <1>2, <2>1, <2>2 DEF KeptAsFloat
  <2>3. CASE Nearest(Halves(v), n, Double)
    <3>1. NaN \notin Finite(Double) /\ NaN # Inf /\ NaN # -Inf
      <4>1. Inf \in Nat \ {0} /\ NaN \in Int /\ Inf < NaN
        BY Format
      <4>2. ASSUME NEW f \in Finite(Double) PROVE f < Inf
        <5>1. PICK a \in Int, w \in Double.units : f = a * w /\ Size(f) <= (Double.exact - 1) * w
          BY FiniteIs
        <5>2. /\ f \in Int /\ Size(f) \in Nat /\ f <= Size(f) /\ w \in Nat \ {0}
              /\ Double.exact \in Nat /\ Double.exact * w < Inf
          BY FiniteIs, Format, SizeIs
        <5>3. (Double.exact - 1) * w = Double.exact * w - w /\ Double.exact * w \in Int
          BY <5>2
        <5> QED BY <4>1, <5>1, <5>2, <5>3
      <4> QED BY <4>1, <4>2
    <3> QED BY <1>2, <2>3, <3>1 DEF Nearest
  <2> QED BY <2>2, <2>3
<1>3. CASE n # NaN /\ T[1] = "float"
  <2>1. m = n
    BY <1>3 DEF Narrowed
  <2> HIDE DEF m
  <2> QED BY <1>0, <1>3, <2>1 DEF KeptAsFloat
<1>4. CASE n # NaN /\ T[1] = "float32"
  <2>1. m = Rounded(n, Single)
    BY <1>4 DEF Narrowed
  <2>2. Nearest(n, m, Single)
    BY <1>1, <2>1, FloatsAreNearest
  <2> HIDE DEF m
  <2> QED BY <1>0, <1>4, <2>2 DEF KeptAsFloat
<1> QED BY <1>2, <1>3, <1>4

LEMMA FloatIsKept ==
  ASSUME NEW v, v[1] \in {"int", "bigInt", "float"} => v \in Number,
         NEW T, T[1] \in {"float", "float32"}, ~IsError(convertFloat(v, T))
  PROVE  Kept(v, T, convertFloat(v, T))
<1> DEFINE g == convertFloat(v, T)
<1>1. v[1] \in {"int", "bigInt", "float"}
  <2> SUFFICES ASSUME v[1] \notin {"int", "bigInt", "float"} PROVE FALSE
    OBVIOUS
  <2>1. g = Error
    BY Zenon DEF convertFloat
  <2> QED BY <2>1, ErrorIs
<1>2. CASE v[1] \in {"int", "bigInt"}
  <2> DEFINE n == Rounded(2 * v[2], Double)
  <2>1. g = << T[1], Narrowed(n, T) >>
    BY <1>2, Zenon DEF convertFloat
  <2>2. v[2] \in Int
    BY <1>2, Widths DEF Number
  <2>3. Halves(v) = 2 * v[2]
    BY <1>2, HalvesOfWhole
  <2>4. n \in Floats(Double) /\ Nearest(Halves(v), n, Double)
    BY <2>2, <2>3, FloatsAreNearest
  <2> HIDE DEF n, g
  <2>5. KeptAsFloat(v, T, g)
    BY <2>1, <2>4, NarrowedIs
  <2> QED BY <2>5 DEF Kept, g
<1>3. CASE v[1] = "float"
  <2>1. g = << T[1], Narrowed(v[2], T) >>
    BY <1>3, Zenon DEF convertFloat
  <2>2. v = << "float", v[2] >> /\ v[2] \in Floats(Double)
    BY <1>3 DEF Number
  <2>3. Halves(v) = v[2]
    BY <2>2, HalvesOfFloat
  <2>4. v[2] # NaN => Nearest(Halves(v), v[2], Double)
    BY <2>2, <2>3, FloatsAre
  <2> HIDE DEF g
  <2>5. KeptAsFloat(v, T, g)
    BY <2>1, <2>2, <2>4, NarrowedIs
  <2> QED BY <2>5 DEF Kept, g
<1> QED BY <1>1, <1>2, <1>3

LEMMA ConvertedIsKept ==
  ASSUME NEW of, NEW v, v[1] \in {"bool", "int", "bigInt", "float"} => v \in Number, v[1] # "float32",
         NEW T, NEW a,
         ~IsError(convertGiven(of, v, T, a))
  PROVE  Kept(v, T, convertGiven(of, v, T, a))
<1> DEFINE g == convertGiven(of, v, T, a)
<1>1. CASE T[1] \notin Measured
  BY <1>1, KeptElse
<1>2. CASE T[1] \in Measured
  <2>0. T[1] \notin Nilable /\ T[1] # "any" /\ T[1] \notin {"map", "slice", "struct", "tuple", "set", "frozenset"}
    BY <1>2 DEF Measured, Nilable, Pointer
  <2>1. v[1] # "nil"
    <3> SUFFICES ASSUME v[1] = "nil" PROVE FALSE
      OBVIOUS
    <3>1. g = Error
      BY <2>0, Zenon DEF convertGiven
    <3> QED BY <3>1, ErrorIs
  <2>2. CASE Assignable(v, T)
    <3>1. v[1] = T[1]
      <4>1. T # << "map", << "any" >> >> /\ T # << "slice", << "any" >> >>
        BY <2>0
      <4> QED BY <2>0, <2>2, <4>1 DEF Assignable
    <3>2. g = Assigned(v, T)
      BY <2>0, <2>1, <2>2, Zenon DEF convertGiven
    <3>3. Assigned(v, T) = v
      BY <2>0, Zenon DEF Assigned
    <3> HIDE DEF g
    <3>4. CASE T[1] = "float"
      <4>1. v = << "float", v[2] >> /\ v[2] \in Floats(Double)
        BY <3>1, <3>4 DEF Number
      <4>2. Halves(v) = v[2]
        BY <4>1, HalvesOfFloat
      <4>3. v[2] # NaN => Nearest(Halves(v), v[2], Double)
        BY <4>1, <4>2, FloatsAre
      <4> QED BY <3>2, <3>3, <3>4, <4>1, <4>3 DEF Kept, KeptAsFloat, g
    <3>5. CASE T[1] # "float"
      <4> QED BY <3>1, <3>2, <3>3, <3>5 DEF Kept, g
    <3> QED BY <3>4, <3>5
  <2>3. CASE ~Assignable(v, T)
    <3>1. g = convertKind(of, v, T, a)
      BY <2>0, <2>1, <2>3, Zenon DEF convertGiven
    <3> HIDE DEF g
    <3>2. CASE T[1] \in {"int", "int8", "duration"}
      <4>1. convertKind(of, v, T, a) = convertInt(v, T, a)
        BY <3>2, Zenon DEF convertKind
      <4> QED BY <3>1, <3>2, <4>1, IntIsKept DEF g
    <3>3. CASE T[1] \in {"uint8", "uint64"}
      <4>1. convertKind(of, v, T, a) = convertUint(v, T)
        BY <3>3, Zenon DEF convertKind
      <4> QED BY <3>1, <3>3, <4>1, UintIsKept DEF g
    <3>4. CASE T[1] \in {"float", "float32"}
      <4>1. convertKind(of, v, T, a) = convertFloat(v, T)
        BY <3>4, Zenon DEF convertKind
      <4> QED BY <3>1, <3>4, <4>1, FloatIsKept DEF g
    <3>5. CASE T[1] = "bool"
      <4>1. convertKind(of, v, T, a) = Error
        BY <3>5, Zenon DEF convertKind
      <4> QED BY <3>1, <4>1, ErrorIs DEF g
    <3> QED BY <1>2, <3>2, <3>3, <3>4, <3>5 DEF Measured
  <2> QED BY <2>2, <2>3
<1> QED BY <1>1, <1>2

LEMMA SentIsKept ==
  ASSUME NEW w, Sent(w), NEW T, NEW a, ~IsError(convert(decode(w), T, a))
  PROVE  Kept(decode(w), T, convert(decode(w), T, a))
<1>1. IsWire(w) /\ Nested(w)
  BY SentParts
<1>2. decode(w)[1] \in {"bool", "int", "bigInt", "float"} => decode(w) \in Number
  BY <1>1, NumberDecodes DEF decode
<1>f. decode(w)[1] # "float32"
  BY <1>1, DecodedChildren DEF decode, NoChildren, Leaves, Plain, Integer, Sequence
<1> DEFINE v == decode(w)
<1>3. \E of : convert(v, T, a) = convertGiven(of, v, T, a)
  BY Zenon DEF convert
<1> HIDE DEF v
<1>4. PICK of : convert(v, T, a) = convertGiven(of, v, T, a)
  BY <1>3
<1>5. ~IsError(convertGiven(of, v, T, a))
  BY <1>4 DEF v
<1>6. Kept(v, T, convertGiven(of, v, T, a))
  BY <1>2, <1>f, <1>5, ConvertedIsKept DEF v
<1> QED BY <1>4, <1>6 DEF v

\* What is bound to a parameter.
Argued(e, i, a) ==
  LET T == e.tool.types[i]
      given == i \in DOMAIN e.args \/ e.tool.params[i] \in DOMAIN e.kwargs
  IN IF given THEN convert(decode(Bound(e, i)), T, a)
     ELSE IF T[1] \in Nilable THEN Zero(T) ELSE Error

\* Every argument of a call that reaches the function.
LEMMA ArgumentsAre ==
  ASSUME NEW e, NEW a, e.tool.params \in Seq(STRING), e.args \in Seq(Range(e.args)),
         Function(e, a)[1] = "return", NEW i \in DOMAIN e.tool.params
  PROVE  Function(e, a)[2][i] = Argued(e, i, a) /\ ~IsError(Argued(e, i, a))
<1> DEFINE tool == e.tool
           args == Decoded(e.args)
           kwargs == Decoded(e.kwargs)
           Given0(j) == j \in DOMAIN args \/ tool.params[j] \in DOMAIN kwargs
           Twice(j) == j \in DOMAIN args /\ tool.params[j] \in DOMAIN kwargs
           Value(j) == IF j \in DOMAIN args THEN args[j] ELSE kwargs[tool.params[j]]
           Arg(j) == CASE Twice(j) -> Error
                       [] Given0(j) /\ ~Twice(j) -> convert(Value(j), tool.types[j], a)
                       [] ~Given0(j) /\ tool.types[j][1] \in Nilable -> Zero(tool.types[j])
                       [] OTHER -> Error
           items == [j \in 1..Len(tool.params) |-> Arg(j)]
           in == bind(tool, args, kwargs, a)
<1>1. ~IsError(in) /\ Function(e, a)[2] = in[2]
  <2>1. Function(e, a) = IF IsError(in) THEN Raise("TypeError")
                         ELSE << "return", in[2], IF in[2] = << >> THEN << "nil" >> ELSE encode(in[2][1]) >>
    BY DEF Function
  <2> HIDE DEF in
  <2>2. Raise("TypeError")[1] # "return"
    BY DEF Raise
  <2> QED BY <2>1, <2>2
<1>2. in = Error \/ in = Collect("args", items)
  BY Zenon DEF bind
<1> HIDE DEF in
<1>3. in = Collect("args", items)
  BY <1>1, <1>2, ErrorIs
<1>4. (\A j \in DOMAIN items : ~IsError(items[j])) /\ in = << "args", items >>
  <2> HIDE DEF items
  <2> QED BY <1>1, <1>3, ErrorIs DEF Collect
<1>5. i \in 1..Len(tool.params) /\ i \in DOMAIN items
  BY LenProperties
<1>6. items[i] = Arg(i)
  BY <1>5
<1>7. DOMAIN args = DOMAIN e.args /\ DOMAIN kwargs = DOMAIN e.kwargs
  BY DEF Decoded
<1>8. Given0(i) => Value(i) = decode(Bound(e, i))
  BY DEF Decoded, Bound
<1>9. ~IsError(Arg(i)) => Arg(i) = Argued(e, i, a)
  <2>1. CASE Twice(i)
    <3>1. Arg(i) = Error
      BY <2>1, Zenon
    <3> QED BY <3>1, ErrorIs
  <2>2. CASE Given0(i) /\ ~Twice(i)
    <3>1. Arg(i) = convert(Value(i), tool.types[i], a)
      BY <2>2, Zenon
    <3> QED BY <1>7, <1>8, <2>2, <3>1, Zenon DEF Argued
  <2>3. CASE ~Given0(i) /\ tool.types[i][1] \in Nilable
    <3>1. Arg(i) = Zero(tool.types[i])
      BY <2>3, Zenon
    <3> QED BY <1>7, <2>3, <3>1, Zenon DEF Argued
  <2>4. CASE ~Given0(i) /\ tool.types[i][1] \notin Nilable
    <3>1. Arg(i) = Error
      BY <2>4, Zenon
    <3> QED BY <3>1, ErrorIs
  <2> QED BY <2>1, <2>2, <2>3, <2>4
<1>10. Function(e, a)[2][i] = Arg(i) /\ ~IsError(Arg(i))
  <2> HIDE DEF items, Arg
  <2> QED BY <1>1, <1>4, <1>5, <1>6
<1> QED BY <1>9, <1>10

LEMMA ArguedIsKept ==
  ASSUME NEW e, NEW a, e.tool.params \in Seq(STRING), e.args \in Seq(Range(e.args)),
         \A j \in DOMAIN e.args : Sent(e.args[j]), \A k \in DOMAIN e.kwargs : Sent(e.kwargs[k]),
         NEW i \in DOMAIN e.tool.params, ~IsError(Argued(e, i, a))
  PROVE  Kept(decode(Bound(e, i)), e.tool.types[i], Argued(e, i, a))
<1> DEFINE T == e.tool.types[i]
<1>1. CASE i \in DOMAIN e.args \/ e.tool.params[i] \in DOMAIN e.kwargs
  <2>1. Sent(Bound(e, i))
    BY <1>1 DEF Bound
  <2>2. Argued(e, i, a) = convert(decode(Bound(e, i)), T, a)
    BY <1>1 DEF Argued
  <2> QED BY <2>1, <2>2, SentIsKept
<1>2. CASE ~(i \in DOMAIN e.args \/ e.tool.params[i] \in DOMAIN e.kwargs)
  <2>1. T[1] \in Nilable
    BY <1>2, ErrorIs DEF Argued
  <2>2. T[1] \notin Measured
    BY <2>1 DEF Measured, Nilable, Pointer
  <2> QED BY <2>2, KeptElse
<1> QED BY <1>1, <1>2

LEMMA CallInvKeepsArguments == CallInv => ArgumentKept
<1> SUFFICES ASSUME CallInv, Answered("tool"), answer[1] = "return", NEW i \in DOMAIN event.tool.params
             PROVE  Kept(decode(Bound(event, i)), event.tool.types[i], answer[2][i])
  BY DEF ArgumentKept
<1>1. answer = Function(event, arch) /\ event \in Requests
  <2>1. answer = CallTool(event, arch) /\ event \in Requests
    BY DEF CallInv, Faithful, Answered
  <2> QED BY <2>1 DEF CallTool
<1>2. PICK c \in Calls : event.tool = c.tool /\ event.args = c.args /\ event.kwargs = c.kwargs
  BY <1>1, RequestsAre DEF Answered
<1>3. /\ event.tool.params \in Seq(STRING) /\ event.args \in Seq(Range(event.args))
      /\ \A j \in DOMAIN event.args : Sent(event.args[j])
      /\ \A k \in DOMAIN event.kwargs : Sent(event.kwargs[k])
  BY <1>2, SentAssumption
<1>4. answer[2][i] = Argued(event, i, arch) /\ ~IsError(Argued(event, i, arch))
  BY <1>1, <1>3, ArgumentsAre
<1> QED BY <1>3, <1>4, ArguedIsKept

\* A tool gets the numbers and timedeltas that code passed, or the call fails:
\* for any tool, by position or by name, on any processor and for any widths,
\* but for what Kept names (bind, convert).
THEOREM ArgumentsKept == Spec => []ArgumentKept
BY SafeCalls, CallInvKeepsArguments, PTL

(***************************************************************************)
(* Types, their annotations, and conversion                                *)
(***************************************************************************)

\* The operators over types are recursions.
LEMMA RuleIs ==
  /\ \A of, p : Rule(<< "pyType" >>, of, p) = pyTypeGiven(of, p)
  /\ \A of, p : Rule(<< "accepts" >>, of, p) = AcceptsGiven(of, p[1], p[2])
  /\ \A of, p : Rule(<< "refused" >>, of, p) = RefusedGiven(of, p[1], p[2])
  /\ \A of, p, a : Rule(<< "convert", a >>, of, p) = convertGiven(of, p[1], p[2], a)
BY DEF Rule

LEMMA LooksIs ==
  /\ \A p : Looks(<< "pyType" >>, p) = TypeChildren(p)
  /\ \A p : Looks(<< "accepts" >>, p) = PyChildren(p[1]) \X ({p[2]} \cup Children(p[2]))
  /\ \A p : Looks(<< "refused" >>, p) = TypeChildren(p[1]) \X ({p[2]} \cup Children(p[2]))
  /\ \A p, a : Looks(<< "convert", a >>, p) = Near(p[1]) \X TypeChildren(p[2])
BY DEF Looks

LEMMA ScopeIs ==
  /\ \A p : Scope(<< "pyType" >>, p) = TypeParts(p)
  /\ \A p : Scope(<< "accepts" >>, p) = Descendants(PyChildren, p[1]) \X Parts(p[2])
  /\ \A p : Scope(<< "refused" >>, p) = TypeParts(p[1]) \X Parts(p[2])
  /\ \A p, a : Scope(<< "convert", a >>, p) = Reach(p[1]) \X TypeParts(p[2])
BY DEF Scope

LEMMA PyTypeRec == \A T : pyType(T) = Rec(<< "pyType" >>, T)
<1> SUFFICES ASSUME NEW T PROVE pyType(T) = Rec(<< "pyType" >>, T)
  OBVIOUS
<1> DEFINE x == << "pyType" >>
           D == TypeParts(T)
           G(of) == of = [p \in D |-> pyTypeGiven(Restrict(of, TypeChildren(p)), p)]
<1>1. Scope(x, T) = D
  BY ScopeIs
<1>2. ASSUME NEW of, NEW p
      PROVE  Rule(x, Restrict(of, Looks(x, p)), p)
               = pyTypeGiven(Restrict(of, TypeChildren(p)), p)
  BY RuleIs, LooksIs
<1>3. ASSUME NEW of PROVE IsRec(x, of, Scope(x, T)) <=> G(of)
  <2> HIDE DEF D, x
  <2>1. [p \in D |-> Rule(x, Restrict(of, Looks(x, p)), p)] =
        [p \in D |-> pyTypeGiven(Restrict(of, TypeChildren(p)), p)]
    BY <1>2, Zenon
  <2> QED BY <1>1, <2>1 DEF IsRec
<1> DEFINE h == CHOOSE of : G(of)
<1>4. pyType(T) = pyTypeGiven(Restrict(h, TypeChildren(T)), T)
  BY DEF pyType
<1>5. (CHOOSE of : IsRec(x, of, Scope(x, T))) = h
  BY <1>3
<1>6. Rec(x, T) = Rule(x, Restrict(h, Looks(x, T)), T)
  BY <1>5 DEF Rec
<1> HIDE DEF h, x
<1>7. Rule(x, Restrict(h, Looks(x, T)), T) = pyTypeGiven(Restrict(h, TypeChildren(T)), T)
  BY <1>2
<1>8. pyType(T) = Rec(x, T)
  BY <1>4, <1>6, <1>7
<1> QED BY <1>8 DEF x

LEMMA AcceptsRec == \A P, w : Accepts(P, w) = Rec(<< "accepts" >>, << P, w >>)
<1> SUFFICES ASSUME NEW P, NEW w PROVE Accepts(P, w) = Rec(<< "accepts" >>, << P, w >>)
  OBVIOUS
<1> DEFINE x == << "accepts" >>
           p == << P, w >>
           D == Descendants(PyChildren, P) \X Parts(w)
           Below(q) == PyChildren(q[1]) \X ({q[2]} \cup Children(q[2]))
           Said(of, q) == AcceptsGiven(Restrict(of, Below(q)), q[1], q[2])
           G(of) == of = [q \in D |-> Said(of, q)]
           h == CHOOSE of : G(of)
<1>1. Scope(x, p) = D
  BY ScopeIs
<1>2. ASSUME NEW of, NEW q PROVE Rule(x, Restrict(of, Looks(x, q)), q) = Said(of, q)
  BY RuleIs, LooksIs
<1>3. ASSUME NEW of PROVE IsRec(x, of, Scope(x, p)) <=> G(of)
  <2> HIDE DEF D, x, p, Said
  <2>1. [q \in D |-> Rule(x, Restrict(of, Looks(x, q)), q)] = [q \in D |-> Said(of, q)]
    BY <1>2, Zenon
  <2> QED BY <1>1, <2>1 DEF IsRec
<1>4. Accepts(P, w) = Said(h, p)
  BY DEF Accepts
<1>5. (CHOOSE of : IsRec(x, of, Scope(x, p))) = h
  BY <1>3
<1>6. Rec(x, p) = Rule(x, Restrict(h, Looks(x, p)), p)
  BY <1>5 DEF Rec
<1> HIDE DEF h, x, p, Said
<1>7. Accepts(P, w) = Rec(x, p)
  BY <1>2, <1>4, <1>6
<1> QED BY <1>7 DEF x, p

LEMMA RefusedRec == \A T, v : Refused(T, v) = Rec(<< "refused" >>, << T, v >>)
<1> SUFFICES ASSUME NEW T, NEW v PROVE Refused(T, v) = Rec(<< "refused" >>, << T, v >>)
  OBVIOUS
<1> DEFINE x == << "refused" >>
           p == << T, v >>
           D == TypeParts(T) \X Parts(v)
           Below(q) == TypeChildren(q[1]) \X ({q[2]} \cup Children(q[2]))
           Said(of, q) == RefusedGiven(Restrict(of, Below(q)), q[1], q[2])
           G(of) == of = [q \in D |-> Said(of, q)]
           h == CHOOSE of : G(of)
<1>1. Scope(x, p) = D
  BY ScopeIs
<1>2. ASSUME NEW of, NEW q PROVE Rule(x, Restrict(of, Looks(x, q)), q) = Said(of, q)
  BY RuleIs, LooksIs
<1>3. ASSUME NEW of PROVE IsRec(x, of, Scope(x, p)) <=> G(of)
  <2> HIDE DEF D, x, p, Said
  <2>1. [q \in D |-> Rule(x, Restrict(of, Looks(x, q)), q)] = [q \in D |-> Said(of, q)]
    BY <1>2, Zenon
  <2> QED BY <1>1, <2>1 DEF IsRec
<1>4. Refused(T, v) = Said(h, p)
  BY DEF Refused
<1>5. (CHOOSE of : IsRec(x, of, Scope(x, p))) = h
  BY <1>3
<1>6. Rec(x, p) = Rule(x, Restrict(h, Looks(x, p)), p)
  BY <1>5 DEF Rec
<1> HIDE DEF h, x, p, Said
<1>7. Refused(T, v) = Rec(x, p)
  BY <1>2, <1>4, <1>6
<1> QED BY <1>7 DEF x, p

LEMMA ConvertRec == \A v, T, a : convert(v, T, a) = Rec(<< "convert", a >>, << v, T >>)
<1> SUFFICES ASSUME NEW v, NEW T, NEW a PROVE convert(v, T, a) = Rec(<< "convert", a >>, << v, T >>)
  OBVIOUS
<1> DEFINE x == << "convert", a >>
           p == << v, T >>
           D == Reach(v) \X TypeParts(T)
           Below(q) == Near(q[1]) \X TypeChildren(q[2])
           Said(of, q) == convertGiven(Restrict(of, Below(q)), q[1], q[2], a)
           G(of) == of = [q \in D |-> Said(of, q)]
           h == CHOOSE of : G(of)
<1>1. Scope(x, p) = D
  BY ScopeIs
<1>2. ASSUME NEW of, NEW q PROVE Rule(x, Restrict(of, Looks(x, q)), q) = Said(of, q)
  BY RuleIs, LooksIs
<1>3. ASSUME NEW of PROVE IsRec(x, of, Scope(x, p)) <=> G(of)
  <2> HIDE DEF D, x, p, Said
  <2>1. [q \in D |-> Rule(x, Restrict(of, Looks(x, q)), q)] = [q \in D |-> Said(of, q)]
    BY <1>2, Zenon
  <2> QED BY <1>1, <2>1 DEF IsRec
<1>4. convert(v, T, a) = Said(h, p)
  BY DEF convert
<1>5. (CHOOSE of : IsRec(x, of, Scope(x, p))) = h
  BY <1>3
<1>6. Rec(x, p) = Rule(x, Restrict(h, Looks(x, p)), p)
  BY <1>5 DEF Rec
<1> HIDE DEF h, x, p, Said
<1>7. convert(v, T, a) = Rec(x, p)
  BY <1>2, <1>4, <1>6
<1> QED BY <1>7 DEF x, p

\* Types in types.
LEMMA TypesNested ==
  ASSUME NEW T, IsType(T)
  PROVE  T \in TypeParts(T) /\ \A U \in TypeParts(T) : IsType(U) /\ TypeChildren(U) \subseteq TypeParts(T)
<1>1. /\ T \in AllIn("type", T)
      /\ \A U \in AllIn("type", T) : Shallow("type", U) /\ AllIn("type", U) \subseteq AllIn("type", T)
                                     /\ Kids("type", U) \subseteq AllIn("type", T)
  BY KidsAre, AllInShallow
<1>2. \A U \in TypeParts(T) : Shallow("type", U) /\ TypeParts(U) \subseteq TypeParts(T)
                              /\ TypeChildren(U) \subseteq TypeParts(T)
  BY <1>1, KidsAre
<1>3. \A U : Shallow("type", U) => Level(TypeChildren, U)[MaxNesting + 1] = {}
  BY DEF Shallow, Depths
<1>4. \A U \in TypeParts(T) : IsType(U)
  BY <1>2, <1>3 DEF IsType
<1> QED BY <1>1, <1>2, <1>4, KidsAre

LEMMA TypeInduction ==
  ASSUME NEW T, IsType(T), NEW S, \A U \in TypeParts(T) : TypeChildren(U) \subseteq S => U \in S
  PROVE  T \in S
<1>1. \A U \in AllIn("type", T) : Kids("type", U) \subseteq S => U \in S
  BY KidsAre
<1>2. AllIn("type", T) \subseteq S
  BY <1>1, KidsAre, KidsInduction
<1> QED BY <1>2, TypesNested, KidsAre

\* A recursion over a type stays in it.
LEMMA TypeScoped == \A T : IsType(T) => Scoped(<< "pyType" >>, T)
<1> SUFFICES ASSUME NEW T, IsType(T) PROVE Scoped(<< "pyType" >>, T)
  OBVIOUS
<1> DEFINE x == << "pyType" >>
<1>1. Scope(x, T) = TypeParts(T) /\ \A p : Looks(x, p) = TypeChildren(p)
  BY ScopeIs, LooksIs
<1> HIDE DEF x
<1>2. T \in Scope(x, T) /\ \A q \in Scope(x, T) : Looks(x, q) \subseteq Scope(x, T)
  BY <1>1, TypesNested
<1>3. PICK A : Linked("type", A) /\ A[Top] = AllIn("type", T)
  BY KidsAre, LinkedOf
<1>4. Layers(x, A) /\ A[Top] = Scope(x, T)
  <2>1. \A p : Looks(x, p) = Kids("type", p)
    BY <1>1, KidsAre
  <2> QED BY <1>1, <1>3, <2>1, KidsAre DEF Linked, Layers
<1>5. Scoped(x, T)
  BY <1>2, <1>4 DEF Scoped
<1> QED BY <1>5 DEF x

\* The annotation of a type, from those of the types in it.
LEMMA PyTypeIs ==
  ASSUME NEW T, IsType(T)
  PROVE  pyType(T) = pyTypeGiven([U \in TypeChildren(T) |-> pyType(U)], T)
<1> DEFINE x == << "pyType" >>
<1>1. Looks(x, T) = TypeChildren(T) /\ \A of : Rule(x, of, T) = pyTypeGiven(of, T)
  BY LooksIs, RuleIs
<1>2. \A U : pyType(U) = Rec(x, U)
  BY PyTypeRec
<1>3. Scoped(x, T) /\ \A U \in TypeChildren(T) : Scoped(x, U)
  BY TypesNested, TypeScoped
<1> HIDE DEF x
<1>4. Rec(x, T) = Rule(x, [U \in TypeChildren(T) |-> Rec(x, U)], T)
  BY <1>1, <1>3, RecIs
<1> QED BY <1>1, <1>2, <1>4

\* The fields that a stub shows.
Shown(T) == { i \in DOMAIN T[3] : T[3][i].exported /\ jsonName(T[3][i]) # "" }

\* Annotations, kind by kind.
LEMMA PyTypeOfLeaf ==
  ASSUME NEW T, IsType(T)
  PROVE  /\ T[1] = "any" => pyType(T) = << "Any" >>
         /\ T[1] \in {"int", "int8", "uint8", "uint64", "bigInt"} => pyType(T) = << "int" >>
         /\ T[1] \in {"bool", "float", "str", "bytes", "date", "path", "tuple", "set"} => pyType(T) = << T[1] >>
         /\ T[1] = "float32" => pyType(T) = << "float" >>
         /\ T[1] = "time" => pyType(T) = << "datetime" >>
         /\ T[1] = "duration" => pyType(T) = << "timedelta" >>
         /\ T[1] = "frozenset" => pyType(T) = << "set" >>
         /\ T[1] = "dict" => pyType(T) = << "dict", << "Any" >>, << "Any" >> >>
         /\ T[1] = "timedelta" =>
              pyType(T) = << "typed", { << k, << "int" >> >> : k \in {"Days", "Seconds", "Microseconds"} } >>
<1> DEFINE of == [U \in TypeChildren(T) |-> pyType(U)]
<1>1. pyType(T) = pyTypeGiven(of, T)
  BY PyTypeIs
<1>2. T[1] \in Kinds
  BY TypesNested DEF IsType
<1> HIDE DEF of
<1> QED BY <1>1, <1>2, Zenon DEF pyTypeGiven

LEMMA TypeChildrenAre ==
  ASSUME NEW T
  PROVE  /\ T[1] \in {"pointer", "slice", "array", "map"} => TypeChildren(T) = {T[2]}
         /\ T[1] = "struct" => TypeChildren(T) = { T[3][i].type : i \in DOMAIN T[3] }
         /\ T[1] \in {"tuple", "set", "frozenset", "dict"} => TypeChildren(T) = {<< "any" >>}
         /\ T[1] = "timedelta" => TypeChildren(T) = {<< "int" >>}
         /\ T[1] = "bytes" => TypeChildren(T) = {<< "uint8" >>}
BY Zenon DEF TypeChildren

LEMMA PyTypeOfTree ==
  ASSUME NEW T, IsType(T)
  PROVE  /\ T[1] = "pointer" => pyType(T) = << "optional", pyType(T[2]) >>
         /\ T[1] \in {"slice", "array"} => pyType(T) = << "list", pyType(T[2]) >>
         /\ T[1] = "map" => pyType(T) = << "dict", << "str" >>, pyType(T[2]) >>
         /\ T[1] = "struct" =>
              pyType(T) = << "typed", { << jsonName(T[3][i]), pyType(T[3][i].type) >> : i \in Shown(T) } >>
<1> DEFINE of == [U \in TypeChildren(T) |-> pyType(U)]
<1>1. pyType(T) = pyTypeGiven(of, T)
  BY PyTypeIs
<1>2. T[1] \in {"pointer", "slice", "array", "map"} => of[T[2]] = pyType(T[2])
  BY TypeChildrenAre
<1>3. T[1] = "struct" => \A i \in Shown(T) : of[T[3][i].type] = pyType(T[3][i].type)
  BY TypeChildrenAre DEF Shown
<1> HIDE DEF of
<1>4. T[1] = "pointer" => pyType(T) = << "optional", of[T[2]] >>
  BY <1>1, Zenon DEF pyTypeGiven
<1>5. T[1] \in {"slice", "array"} => pyType(T) = << "list", of[T[2]] >>
  BY <1>1, Zenon DEF pyTypeGiven
<1>6. T[1] = "map" => pyType(T) = << "dict", << "str" >>, of[T[2]] >>
  BY <1>1, Zenon DEF pyTypeGiven
<1>7. T[1] = "struct" =>
        pyType(T) = << "typed", { << jsonName(T[3][i]), of[T[3][i].type] >> : i \in Shown(T) } >>
  BY <1>1, Zenon DEF pyTypeGiven, Shown
<1>8. T[1] = "struct" =>
        { << jsonName(T[3][i]), of[T[3][i].type] >> : i \in Shown(T) } =
        { << jsonName(T[3][i]), pyType(T[3][i].type) >> : i \in Shown(T) }
  BY <1>3
<1> QED BY <1>2, <1>4, <1>5, <1>6, <1>7, <1>8

\* What annotations hold besides those of the types in a type.
Basic == {<< "Any" >>, << "str" >>, << "int" >>}

LEMMA PyChildrenAre ==
  ASSUME NEW P
  PROVE  /\ P[1] \in {"optional", "list"} => PyChildren(P) = {P[2]}
         /\ P[1] = "dict" => PyChildren(P) = {P[2], P[3]}
         /\ P[1] = "typed" => PyChildren(P) = { f[2] : f \in P[2] }
         /\ P[1] \notin {"optional", "list", "dict", "typed"} => PyChildren(P) = {}
BY Zenon DEF PyChildren

\* What an annotation holds.
LEMMA PyTypeHolds ==
  ASSUME NEW T, IsType(T)
  PROVE  /\ PyChildren(pyType(T)) \subseteq { pyType(U) : U \in TypeChildren(T) } \cup Basic
         /\ TypeChildren(T) = {} => PyChildren(pyType(T)) = {}
<1> DEFINE P == pyType(T)
           Q == { pyType(U) : U \in TypeChildren(T) }
<1>0. T[1] \in Kinds
  BY TypesNested DEF IsType
<1>1. CASE T[1] \in {"any", "int", "int8", "uint8", "uint64", "bigInt", "bool", "float", "float32", "str", "bytes",
                     "date", "path", "tuple", "set", "time", "duration", "frozenset"}
  <2>1. P[1] \notin {"optional", "list", "dict", "typed"}
    BY <1>1, PyTypeOfLeaf
  <2> QED BY <2>1, PyChildrenAre
<1>2. CASE T[1] = "dict"
  <2>1. P = << "dict", << "Any" >>, << "Any" >> >> /\ TypeChildren(T) # {}
    BY <1>2, PyTypeOfLeaf, TypeChildrenAre
  <2> QED BY <2>1, PyChildrenAre DEF Basic
<1>3. CASE T[1] = "timedelta"
  <2>1. TypeChildren(T) # {}
    BY <1>3, TypeChildrenAre
  <2>2. P = << "typed", { << k, << "int" >> >> : k \in {"Days", "Seconds", "Microseconds"} } >>
    BY <1>3, PyTypeOfLeaf
  <2>3. PyChildren(P) \subseteq Basic
    BY <2>2, PyChildrenAre DEF Basic
  <2> QED BY <2>1, <2>3
<1>4. CASE T[1] \in {"pointer", "slice", "array"}
  <2>1. TypeChildren(T) = {T[2]} /\ PyChildren(P) = {pyType(T[2])}
    BY <1>4, PyTypeOfTree, PyChildrenAre, TypeChildrenAre
  <2> QED BY <2>1
<1>5. CASE T[1] = "map"
  <2>1. TypeChildren(T) = {T[2]} /\ PyChildren(P) = {<< "str" >>, pyType(T[2])}
    BY <1>5, PyTypeOfTree, PyChildrenAre, TypeChildrenAre
  <2> QED BY <2>1 DEF Basic
<1>6. CASE T[1] = "struct"
  <2>1. TypeChildren(T) = { T[3][i].type : i \in DOMAIN T[3] }
    BY <1>6, TypeChildrenAre
  <2>2. P = << "typed", { << jsonName(T[3][i]), pyType(T[3][i].type) >> : i \in Shown(T) } >>
    BY <1>6, PyTypeOfTree
  <2>3. PyChildren(P) = { f[2] : f \in { << jsonName(T[3][i]), pyType(T[3][i].type) >> : i \in Shown(T) } }
    BY <2>2, PyChildrenAre
  <2>4. PyChildren(P) \subseteq { pyType(T[3][i].type) : i \in DOMAIN T[3] }
    <3>1. ASSUME NEW C \in PyChildren(P) PROVE \E i \in DOMAIN T[3] : C = pyType(T[3][i].type)
      <4> DEFINE F == { << jsonName(T[3][i]), pyType(T[3][i].type) >> : i \in Shown(T) }
      <4>1. PICK f \in F : C = f[2]
        BY <2>3
      <4>2. PICK i \in Shown(T) : f = << jsonName(T[3][i]), pyType(T[3][i].type) >>
        OBVIOUS
      <4> QED BY <4>1, <4>2 DEF Shown
    <3> HIDE DEF P
    <3> QED BY <3>1
  <2>5. { pyType(T[3][i].type) : i \in DOMAIN T[3] } = Q
    BY <2>1
  <2>6. TypeChildren(T) = {} => Q = {}
    OBVIOUS
  <2> HIDE DEF P, Q
  <2>7. PyChildren(P) \subseteq Q
    BY <2>4, <2>5
  <2> QED BY <2>6, <2>7 DEF P, Q
<1> QED BY <1>0, <1>1, <1>2, <1>3, <1>4, <1>5, <1>6 DEF Kinds

\* An annotation is as deep as its type.
LEMMA StubShallow ==
  ASSUME NEW T, IsType(T)
  PROVE  Shallow("stub", pyType(T))
<1>1. PICK A : Linked("type", A) /\ A[Top] = TypeParts(T) /\ \A n \in 0..Top : A[n] \subseteq TypeParts(T)
  BY KidsAre, LinkedOf
<1> DEFINE B == [n \in 0..Top |-> IF n = 0 THEN {} ELSE { pyType(U) : U \in A[n] } \cup Basic]
<1>2. B[0] = {} /\ B[Top] = { pyType(U) : U \in TypeParts(T) } \cup Basic
  BY <1>1, TopIs DEF Top
<1>3. ASSUME NEW n \in 0..MaxNesting
      PROVE  B[n] \subseteq B[n + 1] /\ \A P \in B[n + 1] : Kids("stub", P) \subseteq B[n]
  <2>1. /\ B[n + 1] = { pyType(U) : U \in A[n + 1] } \cup Basic
        /\ B[n] = IF n = 0 THEN {} ELSE { pyType(U) : U \in A[n] } \cup Basic
    BY TopIs DEF Top
  <2> HIDE DEF B
  <2>2. /\ A[n] \subseteq A[n + 1] /\ A[0] = {} /\ A[n + 1] \subseteq TypeParts(T)
        /\ \A U \in A[n + 1] : TypeChildren(U) \subseteq A[n]
    <3>1. n + 1 \in 0..Top
      BY TopIs DEF Top
    <3> QED BY <1>1, <3>1, KidsAre DEF Linked
  <2>3. B[n] \subseteq B[n + 1]
    BY <2>1, <2>2
  <2>4. ASSUME NEW P \in B[n + 1] PROVE PyChildren(P) \subseteq B[n]
    <3>1. CASE P \in Basic
      <4>1. PyChildren(P) = {}
        BY <3>1, PyChildrenAre DEF Basic
      <4> QED BY <4>1
    <3>2. CASE P \notin Basic
      <4>1. PICK U \in A[n + 1] : P = pyType(U)
        BY <2>1, <3>2
      <4>2. IsType(U)
        BY <2>2, TypesNested
      <4>3. /\ PyChildren(P) \subseteq { pyType(W) : W \in TypeChildren(U) } \cup Basic
            /\ TypeChildren(U) = {} => PyChildren(P) = {}
        BY <4>1, <4>2, PyTypeHolds
      <4>4. TypeChildren(U) \subseteq A[n]
        BY <2>2
      <4>5. CASE n = 0
        BY <2>2, <4>3, <4>4, <4>5
      <4>6. CASE n # 0
        <5>1. { pyType(W) : W \in TypeChildren(U) } \subseteq { pyType(W) : W \in A[n] }
          BY <4>4
        <5> QED BY <2>1, <4>3, <4>6, <5>1
      <4> QED BY <4>5, <4>6
    <3> QED BY <3>1, <3>2
  <2> QED BY <2>3, <2>4, KidsAre
<1> HIDE DEF B
<1>4. Linked("stub", B)
  BY <1>2, <1>3 DEF Linked
<1>5. pyType(T) \in B[Top]
  BY <1>2, TypesNested
<1> QED BY <1>4, <1>5, LinkedClosed

\* A recursion down a type or an annotation, at values that it does not leave.
LEMMA PairScoped ==
  ASSUME NEW x, NEW s, NEW t, Shallow(s, t), NEW D, NEW d \in D,
         Scope(x, << t, d >>) = AllIn(s, t) \X D,
         \A u \in AllIn(s, t), e \in D : Looks(x, << u, e >>) \subseteq Kids(s, u) \X D
  PROVE  Scoped(x, << t, d >>)
<1>1. PICK A : Linked(s, A) /\ A[Top] = AllIn(s, t) /\ \A n \in 0..Top : A[n] \subseteq AllIn(s, t)
  BY LinkedOf
<1>2. t \in AllIn(s, t) /\ \A u \in AllIn(s, t) : Kids(s, u) \subseteq AllIn(s, t)
  BY AllInShallow
<1>3. << t, d >> \in Scope(x, << t, d >>)
  BY <1>2
<1>4. \A q \in Scope(x, << t, d >>) : Looks(x, q) \subseteq Scope(x, << t, d >>)
  <2> TAKE q \in Scope(x, << t, d >>)
  <2>1. PICK u \in AllIn(s, t), e \in D : q = << u, e >>
    OBVIOUS
  <2> QED BY <1>2, <2>1
<1> DEFINE B == [n \in 0..Top |-> A[n] \X D]
<1>5. B[0] = A[0] \X D /\ B[Top] = A[Top] \X D
  BY TopIs
<1>6. ASSUME NEW n \in 0..MaxNesting
      PROVE  B[n] \subseteq B[n + 1] /\ \A p \in B[n + 1] : Looks(x, p) \subseteq B[n]
  <2>1. B[n] = A[n] \X D /\ B[n + 1] = A[n + 1] \X D
    BY TopIs DEF Top
  <2> HIDE DEF B
  <2>2. A[n] \subseteq A[n + 1] /\ (\A u \in A[n + 1] : Kids(s, u) \subseteq A[n]) /\ A[n + 1] \subseteq AllIn(s, t)
    <3>1. n + 1 \in 0..Top
      BY TopIs DEF Top
    <3> QED BY <1>1, <3>1 DEF Linked
  <2>3. ASSUME NEW p \in B[n + 1] PROVE Looks(x, p) \subseteq B[n]
    <3>1. PICK u \in A[n + 1], e \in D : p = << u, e >>
      BY <2>1
    <3>2. Looks(x, p) \subseteq Kids(s, u) \X D /\ Kids(s, u) \subseteq A[n]
      BY <2>2, <3>1
    <3> QED BY <2>1, <3>2
  <2> QED BY <2>1, <2>2, <2>3
<1> HIDE DEF B
<1>7. Layers(x, B)
  <2>1. A[0] = {}
    BY <1>1 DEF Linked
  <2> QED BY <1>5, <1>6, <2>1 DEF Layers
<1> QED BY <1>1, <1>3, <1>4, <1>5, <1>7 DEF Scoped

\* What the stub lets through, and what convert refuses, are such recursions.
LEMMA AcceptsScoped ==
  ASSUME NEW P, Shallow("stub", P), NEW w, Nested(w)
  PROVE  Scoped(<< "accepts" >>, << P, w >>)
<1> DEFINE x == << "accepts" >>
<1>1. Scope(x, << P, w >>) = AllIn("stub", P) \X Parts(w)
  BY ScopeIs, KidsAre
<1>2. \A Q \in AllIn("stub", P), u \in Parts(w) : Looks(x, << Q, u >>) \subseteq Kids("stub", Q) \X Parts(w)
  <2> TAKE Q \in AllIn("stub", P), u \in Parts(w)
  <2>1. Looks(x, << Q, u >>) = PyChildren(Q) \X ({u} \cup Children(u))
    BY LooksIs
  <2>2. Children(u) \subseteq Parts(w)
    BY PartsNested
  <2> QED BY <2>1, <2>2, KidsAre
<1>3. w \in Parts(w)
  BY PartsNested
<1> HIDE DEF x
<1>4. Scoped(x, << P, w >>)
  BY <1>1, <1>2, <1>3, PairScoped
<1> QED BY <1>4 DEF x

LEMMA RefusedScoped ==
  ASSUME NEW T, IsType(T), NEW v, Nested(v)
  PROVE  Scoped(<< "refused" >>, << T, v >>)
<1> DEFINE x == << "refused" >>
<1>1. Scope(x, << T, v >>) = AllIn("type", T) \X Parts(v)
  BY ScopeIs, KidsAre
<1>2. \A U \in AllIn("type", T), u \in Parts(v) : Looks(x, << U, u >>) \subseteq Kids("type", U) \X Parts(v)
  <2> TAKE U \in AllIn("type", T), u \in Parts(v)
  <2>1. Looks(x, << U, u >>) = TypeChildren(U) \X ({u} \cup Children(u))
    BY LooksIs
  <2>2. Children(u) \subseteq Parts(v)
    BY PartsNested
  <2> QED BY <2>1, <2>2, KidsAre
<1>3. v \in Parts(v) /\ Shallow("type", T)
  BY PartsNested, KidsAre
<1> HIDE DEF x
<1>4. Scoped(x, << T, v >>)
  BY <1>1, <1>2, <1>3, PairScoped
<1> QED BY <1>4 DEF x

\* The stub lets something through for what it lets through in it.
LEMMA AcceptsIs ==
  ASSUME NEW P, Shallow("stub", P), NEW w, Nested(w)
  PROVE  Accepts(P, w) =
           AcceptsGiven([q \in PyChildren(P) \X ({w} \cup Children(w)) |-> Accepts(q[1], q[2])], P, w)
<1> DEFINE x == << "accepts" >>
           p == << P, w >>
           L == PyChildren(P) \X ({w} \cup Children(w))
<1>1. Looks(x, p) = L /\ \A of : Rule(x, of, p) = AcceptsGiven(of, P, w)
  BY LooksIs, RuleIs
<1>2. Accepts(P, w) = Rec(x, p) /\ \A q \in L : Accepts(q[1], q[2]) = Rec(x, q)
  <2>1. ASSUME NEW q \in L PROVE Accepts(q[1], q[2]) = Rec(x, q)
    <3>1. q = << q[1], q[2] >>
      OBVIOUS
    <3> HIDE DEF x, L
    <3>2. Accepts(q[1], q[2]) = Rec(x, << q[1], q[2] >>)
      BY AcceptsRec DEF x
    <3> QED BY <3>1, <3>2
  <2> QED BY <2>1, AcceptsRec
<1>3. Scoped(x, p) /\ \A q \in L : Scoped(x, q)
  <2>1. (\A Q \in PyChildren(P) : Shallow("stub", Q)) /\ \A u \in {w} \cup Children(w) : Nested(u)
    BY AllInShallow, KidsAre, PartsNested
  <2>2. \A q \in L : Scoped(x, q)
    BY <2>1, AcceptsScoped
  <2> QED BY <2>2, AcceptsScoped
<1>4. [q \in L |-> Accepts(q[1], q[2])] = [q \in L |-> Rec(x, q)]
  <2> HIDE DEF L, x
  <2> QED BY <1>2, Zenon
<1> HIDE DEF x, p, L
<1>5. Rec(x, p) = Rule(x, [q \in L |-> Rec(x, q)], p)
  BY <1>1, <1>3, RecIs
<1>6. Accepts(P, w) = AcceptsGiven([q \in L |-> Accepts(q[1], q[2])], P, w)
  BY <1>1, <1>2, <1>4, <1>5
<1> QED BY <1>6 DEF L

LEMMA RefusedIs ==
  ASSUME NEW T, IsType(T), NEW v, Nested(v)
  PROVE  Refused(T, v) =
           RefusedGiven([q \in TypeChildren(T) \X ({v} \cup Children(v)) |-> Refused(q[1], q[2])], T, v)
<1> DEFINE x == << "refused" >>
           p == << T, v >>
           L == TypeChildren(T) \X ({v} \cup Children(v))
<1>1. Looks(x, p) = L /\ \A of : Rule(x, of, p) = RefusedGiven(of, T, v)
  BY LooksIs, RuleIs
<1>2. Refused(T, v) = Rec(x, p) /\ \A q \in L : Refused(q[1], q[2]) = Rec(x, q)
  <2>1. ASSUME NEW q \in L PROVE Refused(q[1], q[2]) = Rec(x, q)
    <3>1. q = << q[1], q[2] >>
      OBVIOUS
    <3> HIDE DEF x, L
    <3>2. Refused(q[1], q[2]) = Rec(x, << q[1], q[2] >>)
      BY RefusedRec DEF x
    <3> QED BY <3>1, <3>2
  <2> QED BY <2>1, RefusedRec
<1>3. Scoped(x, p) /\ \A q \in L : Scoped(x, q)
  <2>1. (\A U \in TypeChildren(T) : IsType(U)) /\ \A u \in {v} \cup Children(v) : Nested(u)
    BY TypesNested, PartsNested
  <2>2. \A q \in L : Scoped(x, q)
    BY <2>1, RefusedScoped
  <2> QED BY <2>2, RefusedScoped
<1>4. [q \in L |-> Refused(q[1], q[2])] = [q \in L |-> Rec(x, q)]
  <2> HIDE DEF L, x
  <2> QED BY <1>2, Zenon
<1> HIDE DEF x, p, L
<1>5. Rec(x, p) = Rule(x, [q \in L |-> Rec(x, q)], p)
  BY <1>1, <1>3, RecIs
<1>6. Refused(T, v) = RefusedGiven([q \in L |-> Refused(q[1], q[2])], T, v)
  BY <1>1, <1>2, <1>4, <1>5
<1> QED BY <1>6 DEF L

\* Conversion does not leave the value and the attributes of objects.
LEMMA ReachIs ==
  ASSUME NEW v, Nested(v)
  PROVE  /\ v \in Reach(v) /\ Near(v) \subseteq Reach(v)
         /\ \A y \in Reach(v) : Nested(y) /\ Near(y) \subseteq Reach(v)
<1> DEFINE R == Range(Attrs)
           Q == UNION { Parts(b) : b \in R }
<1>1. \A b \in R : Nested(b)
  BY ToolsAssumption DEF Range
<1> HIDE DEF R
<1>2. v \in Parts(v) /\ \A p \in Parts(v) : Nested(p) /\ Children(p) \subseteq Parts(v)
  BY PartsNested
<1>3. R \subseteq Q /\ \A p \in Q : Nested(p) /\ Children(p) \subseteq Q
  <2>1. ASSUME NEW b \in R
        PROVE  b \in Parts(b) /\ \A p \in Parts(b) : Nested(p) /\ Children(p) \subseteq Parts(b)
    BY <1>1, PartsNested
  <2>2. R \subseteq Q
    BY <2>1
  <2>3. ASSUME NEW p \in Q PROVE Nested(p) /\ Children(p) \subseteq Q
    <3>1. PICK b \in R : p \in Parts(b)
      OBVIOUS
    <3> QED BY <2>1, <3>1
  <2> QED BY <2>2, <2>3
<1>4. Reach(v) = Parts(v) \cup Q /\ \A y : Near(y) = {y} \cup Children(y) \cup R
  BY DEF Reach, Near, R, Q
<1> HIDE DEF Q
<1> QED BY <1>2, <1>3, <1>4

LEMMA ConvertScoped ==
  ASSUME NEW v, Nested(v), NEW T, IsType(T), NEW a
  PROVE  Scoped(<< "convert", a >>, << v, T >>)
<1> DEFINE x == << "convert", a >>
           D == Reach(v)
<1>1. Scope(x, << v, T >>) = D \X TypeParts(T) /\ \A y, U : Looks(x, << y, U >>) = Near(y) \X TypeChildren(U)
  BY ScopeIs, LooksIs
<1>2. v \in D /\ \A y \in D : Near(y) \subseteq D
  BY ReachIs
<1>3. T \in TypeParts(T) /\ \A U \in TypeParts(T) : TypeChildren(U) \subseteq TypeParts(T)
  BY TypesNested
<1>4. PICK A : Linked("type", A) /\ A[Top] = TypeParts(T)
  BY LinkedOf, KidsAre
<1> DEFINE B == [n \in 0..Top |-> D \X A[n]]
<1>5. B[0] = D \X A[0] /\ B[Top] = D \X A[Top]
  BY TopIs
<1> HIDE DEF x, D
<1>6. ASSUME NEW n \in 0..MaxNesting
      PROVE  B[n] \subseteq B[n + 1] /\ \A p \in B[n + 1] : Looks(x, p) \subseteq B[n]
  <2>1. B[n] = D \X A[n] /\ B[n + 1] = D \X A[n + 1]
    BY TopIs DEF Top
  <2> HIDE DEF B
  <2>2. A[n] \subseteq A[n + 1] /\ \A U \in A[n + 1] : TypeChildren(U) \subseteq A[n]
    BY <1>4, KidsAre DEF Linked
  <2>3. ASSUME NEW p \in B[n + 1] PROVE Looks(x, p) \subseteq B[n]
    <3>1. PICK y \in D, U \in A[n + 1] : p = << y, U >>
      BY <2>1
    <3> QED BY <1>1, <1>2, <2>1, <2>2, <3>1
  <2> QED BY <2>1, <2>2, <2>3
<1> HIDE DEF B
<1>7. Layers(x, B)
  <2>1. A[0] = {}
    BY <1>4 DEF Linked
  <2> QED BY <1>5, <1>6, <2>1 DEF Layers
<1>8. << v, T >> \in Scope(x, << v, T >>)
  BY <1>1, <1>2, <1>3
<1>9. \A q \in Scope(x, << v, T >>) : Looks(x, q) \subseteq Scope(x, << v, T >>)
  <2> TAKE q \in Scope(x, << v, T >>)
  <2>1. PICK y \in D, U \in TypeParts(T) : q = << y, U >>
    BY <1>1
  <2> QED BY <1>1, <1>2, <1>3, <2>1
<1>10. Scoped(x, << v, T >>)
  BY <1>1, <1>4, <1>5, <1>7, <1>8, <1>9 DEF Scoped
<1> QED BY <1>10 DEF x

\* A value is converted as those in it, and the attributes of objects, are.
LEMMA ConvertIs ==
  ASSUME NEW v, Nested(v), NEW T, IsType(T), NEW a
  PROVE  convert(v, T, a) =
           convertGiven([q \in Near(v) \X TypeChildren(T) |-> convert(q[1], q[2], a)], v, T, a)
<1> DEFINE x == << "convert", a >>
           p == << v, T >>
           L == Near(v) \X TypeChildren(T)
<1>1. Looks(x, p) = L /\ \A of : Rule(x, of, p) = convertGiven(of, v, T, a)
  BY LooksIs, RuleIs
<1>2. convert(v, T, a) = Rec(x, p) /\ \A q \in L : convert(q[1], q[2], a) = Rec(x, q)
  <2>1. ASSUME NEW q \in L PROVE convert(q[1], q[2], a) = Rec(x, q)
    <3>1. q = << q[1], q[2] >>
      OBVIOUS
    <3> HIDE DEF x, L
    <3>2. convert(q[1], q[2], a) = Rec(x, << q[1], q[2] >>)
      BY ConvertRec DEF x
    <3> QED BY <3>1, <3>2
  <2> QED BY <2>1, ConvertRec
<1>3. Scoped(x, p) /\ \A q \in L : Scoped(x, q)
  <2>1. (\A U \in TypeChildren(T) : IsType(U)) /\ \A u \in Near(v) : Nested(u)
    BY TypesNested, ReachIs
  <2>2. \A q \in L : Scoped(x, q)
    BY <2>1, ConvertScoped
  <2> QED BY <2>2, ConvertScoped
<1>4. [q \in L |-> convert(q[1], q[2], a)] = [q \in L |-> Rec(x, q)]
  <2> HIDE DEF L, x
  <2> QED BY <1>2, Zenon
<1> HIDE DEF x, p, L
<1>5. Rec(x, p) = Rule(x, [q \in L |-> Rec(x, q)], p)
  BY <1>1, <1>3, RecIs
<1>6. convert(v, T, a) = convertGiven([q \in L |-> convert(q[1], q[2], a)], v, T, a)
  BY <1>1, <1>2, <1>4, <1>5
<1> QED BY <1>6 DEF L

(***************************************************************************)
(* What the stub allows and refuses                                        *)
(***************************************************************************)

\* What the stub lets through, kind by kind.
LEMMA AcceptsLeaf ==
  ASSUME NEW P, Shallow("stub", P), NEW w, Nested(w), Accepts(P, w)
  PROVE  /\ P[1] = "int" => w[1] \in {"int", "bigint", "bool"}
         /\ P[1] = "float" => w[1] \in {"float", "int", "bigint", "bool"}
         /\ P[1] = "date" => w[1] \in {"date", "datetime"}
         /\ P[1] \notin {"Any", "optional", "int", "float", "date", "list", "dict", "typed"} => w[1] = P[1]
<1> DEFINE of == [q \in PyChildren(P) \X ({w} \cup Children(w)) |-> Accepts(q[1], q[2])]
<1>1. AcceptsGiven(of, P, w)
  BY AcceptsIs
<1> HIDE DEF of
<1> QED BY <1>1, Zenon DEF AcceptsGiven

LEMMA AcceptsOptional ==
  ASSUME NEW P, Shallow("stub", P), NEW w, Nested(w), Accepts(P, w), P[1] = "optional"
  PROVE  w[1] = "nil" \/ Accepts(P[2], w)
<1> DEFINE of == [q \in PyChildren(P) \X ({w} \cup Children(w)) |-> Accepts(q[1], q[2])]
<1>1. AcceptsGiven(of, P, w)
  BY AcceptsIs
<1>2. of[<< P[2], w >>] = Accepts(P[2], w)
  BY PyChildrenAre
<1> HIDE DEF of
<1>3. w[1] = "nil" \/ of[<< P[2], w >>]
  BY <1>1, Zenon DEF AcceptsGiven
<1> QED BY <1>2, <1>3

LEMMA AcceptsList ==
  ASSUME NEW P, Shallow("stub", P), NEW w, Nested(w), Accepts(P, w), P[1] = "list"
  PROVE  w[1] = "list" /\ \A i \in DOMAIN w[2] : Accepts(P[2], w[2][i])
<1> DEFINE of == [q \in PyChildren(P) \X ({w} \cup Children(w)) |-> Accepts(q[1], q[2])]
<1>1. AcceptsGiven(of, P, w)
  BY AcceptsIs
<1>2. ASSUME w[1] = "list", NEW i \in DOMAIN w[2] PROVE of[<< P[2], w[2][i] >>] = Accepts(P[2], w[2][i])
  <2>1. w[2][i] \in Children(w) /\ P[2] \in PyChildren(P)
    BY <1>2, ChildrenIs, PyChildrenAre DEF Range, Sequence
  <2> QED BY <2>1
<1> HIDE DEF of
<1>3. w[1] = "list" /\ \A i \in DOMAIN w[2] : of[<< P[2], w[2][i] >>]
  BY <1>1, Zenon DEF AcceptsGiven
<1> QED BY <1>2, <1>3

LEMMA AcceptsDict ==
  ASSUME NEW P, Shallow("stub", P), NEW w, Nested(w), Accepts(P, w), P[1] = "dict"
  PROVE  w[1] = "dict" /\ \A i \in DOMAIN w[2] : Accepts(P[2], w[2][i][1]) /\ Accepts(P[3], w[2][i][2])
<1> DEFINE of == [q \in PyChildren(P) \X ({w} \cup Children(w)) |-> Accepts(q[1], q[2])]
<1>1. AcceptsGiven(of, P, w)
  BY AcceptsIs
<1>2. ASSUME w[1] = "dict", NEW i \in DOMAIN w[2]
      PROVE  /\ of[<< P[2], w[2][i][1] >>] = Accepts(P[2], w[2][i][1])
             /\ of[<< P[3], w[2][i][2] >>] = Accepts(P[3], w[2][i][2])
  <2>1. w[2][i][1] \in Children(w) /\ w[2][i][2] \in Children(w) /\ P[2] \in PyChildren(P) /\ P[3] \in PyChildren(P)
    BY <1>2, ChildrenIs, PyChildrenAre
  <2> QED BY <2>1
<1> HIDE DEF of
<1>3. w[1] = "dict" /\ \A i \in DOMAIN w[2] : of[<< P[2], w[2][i][1] >>] /\ of[<< P[3], w[2][i][2] >>]
  BY <1>1, Zenon DEF AcceptsGiven
<1> QED BY <1>2, <1>3

LEMMA AcceptsTyped ==
  ASSUME NEW P, Shallow("stub", P), NEW w, Nested(w), Accepts(P, w), P[1] = "typed"
  PROVE  /\ w[1] = "dict"
         /\ { w[2][i][1] : i \in DOMAIN w[2] } = { << "str", f[1] >> : f \in P[2] }
         /\ \A i \in DOMAIN w[2] : \A f \in P[2] : w[2][i][1] = << "str", f[1] >> => Accepts(f[2], w[2][i][2])
<1> DEFINE of == [q \in PyChildren(P) \X ({w} \cup Children(w)) |-> Accepts(q[1], q[2])]
<1>1. AcceptsGiven(of, P, w)
  BY AcceptsIs
<1>2. ASSUME w[1] = "dict", NEW i \in DOMAIN w[2], NEW f \in P[2]
      PROVE  of[<< f[2], w[2][i][2] >>] = Accepts(f[2], w[2][i][2])
  <2>1. w[2][i][2] \in Children(w) /\ f[2] \in PyChildren(P)
    BY <1>2, ChildrenIs, PyChildrenAre
  <2> QED BY <2>1
<1> HIDE DEF of
<1>3. /\ w[1] = "dict"
      /\ { w[2][i][1] : i \in DOMAIN w[2] } = { << "str", f[1] >> : f \in P[2] }
      /\ \A i \in DOMAIN w[2] : \A f \in P[2] : w[2][i][1] = << "str", f[1] >> => of[<< f[2], w[2][i][2] >>]
  BY <1>1, Zenon DEF AcceptsGiven
<1> QED BY <1>2, <1>3

\* Where the stub says more than convert keeps.
LEMMA RefusedLeaf ==
  ASSUME NEW T, IsType(T), NEW v, Nested(v)
  PROVE  /\ T[1] \in {"int", "int8"} /\ (v[1] = "bigInt" \/ (v[1] = "int" /\ ~Fits(v[2], T))) => Refused(T, v)
         /\ T[1] \in {"uint8", "uint64"} /\ (v[1] = "bool" \/ ~Fits(v[2], T)) => Refused(T, v)
         /\ T[1] \in {"float", "float32"} /\ v[1] = "bool" => Refused(T, v)
         /\ T[1] = "bigInt" /\ v[1] # "bigInt" => Refused(T, v)
         /\ T[1] = "dict" /\ v[1] = "map" => Refused(T, v)
         /\ T[1] = "date" /\ v[1] = "time" => Refused(T, v)
         /\ T[1] = "duration" /\ v[1] = "timedelta" => Refused(T, v)
         /\ T[1] = "array" /\ Len(v[2]) # T[3] => Refused(T, v)
<1> DEFINE of == [q \in TypeChildren(T) \X ({v} \cup Children(v)) |-> Refused(q[1], q[2])]
<1>1. Refused(T, v) = RefusedGiven(of, T, v)
  BY RefusedIs
<1> HIDE DEF of
<1> QED BY <1>1, Zenon DEF RefusedGiven

LEMMA RefusedIn ==
  ASSUME NEW T, IsType(T), NEW v, Nested(v)
  PROVE  /\ T[1] = "pointer" /\ v[1] # "nil" /\ Refused(T[2], v) => Refused(T, v)
         /\ T[1] \in {"slice", "array"} /\ v[1] = "list" =>
              \A i \in DOMAIN v[2] : Refused(T[2], v[2][i]) => Refused(T, v)
         /\ T[1] = "map" /\ v[1] = "map" => \A k \in DOMAIN v[2] : Refused(T[2], v[2][k]) => Refused(T, v)
         /\ T[1] = "timedelta" /\ v[1] = "map" =>
              \A k \in DOMAIN v[2] : Refused(<< "int" >>, v[2][k]) => Refused(T, v)
         /\ T[1] = "struct" /\ v[1] = "map" =>
              \A i \in Shown(T) : jsonName(T[3][i]) \in DOMAIN v[2] /\ Refused(T[3][i].type, v[2][jsonName(T[3][i])])
                                    => Refused(T, v)
<1> DEFINE of == [q \in TypeChildren(T) \X ({v} \cup Children(v)) |-> Refused(q[1], q[2])]
<1>1. Refused(T, v) = RefusedGiven(of, T, v)
  BY RefusedIs
<1>2. \A U \in TypeChildren(T), u \in {v} \cup Children(v) : of[<< U, u >>] = Refused(U, u)
  OBVIOUS
<1>3. (v[1] = "list" => \A i \in DOMAIN v[2] : v[2][i] \in Children(v))
      /\ (v[1] = "map" => \A k \in DOMAIN v[2] : v[2][k] \in Children(v))
  BY ChildrenIs DEF Range, Sequence
<1> HIDE DEF of
<1>4. T[1] = "pointer" /\ v[1] # "nil" /\ of[<< T[2], v >>] => Refused(T, v)
  BY <1>1, Zenon DEF RefusedGiven
<1>5. T[1] \in {"slice", "array"} => \A i \in DOMAIN v[2] : of[<< T[2], v[2][i] >>] => Refused(T, v)
  BY <1>1, Zenon DEF RefusedGiven
<1>6. T[1] = "map" => \A k \in DOMAIN v[2] : of[<< T[2], v[2][k] >>] => Refused(T, v)
  BY <1>1, Zenon DEF RefusedGiven
<1>7. T[1] = "timedelta" => \A k \in DOMAIN v[2] : of[<< << "int" >>, v[2][k] >>] => Refused(T, v)
  BY <1>1, Zenon DEF RefusedGiven
<1>8. T[1] = "struct" =>
        \A i \in Shown(T) : of[<< T[3][i].type, v[2][jsonName(T[3][i])] >>] => Refused(T, v)
  BY <1>1, Zenon DEF RefusedGiven, Shown
<1>9. T[1] = "pointer" /\ v[1] # "nil" /\ Refused(T[2], v) => Refused(T, v)
  BY <1>2, <1>4, TypeChildrenAre
<1>10. T[1] \in {"slice", "array"} /\ v[1] = "list" =>
         \A i \in DOMAIN v[2] : Refused(T[2], v[2][i]) => Refused(T, v)
  BY <1>2, <1>3, <1>5, TypeChildrenAre
<1>11. T[1] = "map" /\ v[1] = "map" => \A k \in DOMAIN v[2] : Refused(T[2], v[2][k]) => Refused(T, v)
  BY <1>2, <1>3, <1>6, TypeChildrenAre
<1>12. T[1] = "timedelta" /\ v[1] = "map" =>
         \A k \in DOMAIN v[2] : Refused(<< "int" >>, v[2][k]) => Refused(T, v)
  BY <1>2, <1>3, <1>7, TypeChildrenAre
<1>13. ASSUME T[1] = "struct", v[1] = "map", NEW i \in Shown(T), jsonName(T[3][i]) \in DOMAIN v[2],
              Refused(T[3][i].type, v[2][jsonName(T[3][i])])
       PROVE  Refused(T, v)
  <2>1. T[3][i].type \in TypeChildren(T) /\ v[2][jsonName(T[3][i])] \in Children(v)
    BY <1>3, <1>13, TypeChildrenAre DEF Shown
  <2> QED BY <1>2, <1>8, <1>13, <2>1
<1> QED BY <1>9, <1>10, <1>11, <1>12, <1>13

\* Nil is converted to what a missing parameter is.
LEMMA ZeroIs == \A T : T[1] \in Nilable => ~IsError(Zero(T))
<1> SUFFICES ASSUME NEW T, T[1] \in Nilable PROVE ~IsError(Zero(T))
  OBVIOUS
<1>1. \E of : Zero(T) = ZeroGiven(of, T)
  BY Zenon DEF Zero
<1>2. PICK of : Zero(T) = ZeroGiven(of, T)
  BY <1>1
<1> DEFINE z == ZeroGiven(of, T)
<1>3. T[1] \in {"any", "pointer", "bigInt"} => z = << "nil" >>
  BY Zenon DEF ZeroGiven
<1>4. T[1] \in {"bytes", "tuple", "set", "frozenset", "dict", "map"} => z = << T[1], << >> >>
  BY Zenon DEF ZeroGiven
<1>5. T[1] = "slice" => z = << "list", << >> >>
  BY Zenon DEF ZeroGiven
<1> HIDE DEF z
<1> QED BY <1>2, <1>3, <1>4, <1>5 DEF Nilable, Pointer, IsError, z

\* Conversions that do not fail.
Made(v, T, a) == [q \in Near(v) \X TypeChildren(T) |-> convert(q[1], q[2], a)]

LEMMA MadeIs ==
  ASSUME NEW v, NEW T, NEW a, NEW U \in TypeChildren(T), NEW c \in {v} \cup Children(v)
  PROVE  Made(v, T, a)[<< c, U >>] = convert(c, U, a)
<1> DEFINE q == << c, U >>
<1>1. q \in Near(v) \X TypeChildren(T) /\ q[1] = c /\ q[2] = U
  BY DEF Near
<1> HIDE DEF q
<1> QED BY <1>1 DEF Made, q

LEMMA ConvertNil ==
  ASSUME NEW v, Nested(v), v[1] = "nil", NEW T, IsType(T), T[1] \in Nilable, NEW a
  PROVE  convert(v, T, a) = Zero(T) /\ ~IsError(convert(v, T, a))
<1>1. convert(v, T, a) = convertGiven(Made(v, T, a), v, T, a)
  BY ConvertIs DEF Made
<1>2. convert(v, T, a) = Zero(T)
  BY <1>1, Zenon DEF convertGiven
<1> QED BY <1>2, ZeroIs

LEMMA ConvertAny ==
  ASSUME NEW v, Nested(v), ~IsError(v), NEW T, IsType(T), T[1] = "any", NEW a
  PROVE  ~IsError(convert(v, T, a))
<1>1. CASE v[1] = "nil"
  BY <1>1, ConvertNil DEF Nilable
<1>2. CASE v[1] # "nil"
  <2>1. convert(v, T, a) = convertGiven(Made(v, T, a), v, T, a)
    BY ConvertIs DEF Made
  <2>2. convert(v, T, a) = v
    BY <1>2, <2>1, Zenon DEF convertGiven
  <2> QED BY <2>2
<1> QED BY <1>1, <1>2

LEMMA AssignedIs == \A v, T : ~IsError(v) => ~IsError(Assigned(v, T))
<1> SUFFICES ASSUME NEW v, NEW T, ~IsError(v) PROVE ~IsError(Assigned(v, T))
  OBVIOUS
<1> DEFINE r == Assigned(v, T)
<1>1. T[1] \in {"tuple", "set", "frozenset"} => r = << T[1], v[2] >>
  BY Zenon DEF Assigned
<1>2. T[1] = "slice" => r = << "list", v[2] >>
  BY Zenon DEF Assigned
<1>3. T[1] \notin {"tuple", "set", "frozenset", "slice"} => r = v
  BY Zenon DEF Assigned
<1> HIDE DEF r
<1> QED BY <1>1, <1>2, <1>3 DEF IsError, r

\* By assignment, or by the kind of the type.
LEMMA ConvertPasses ==
  ASSUME NEW v, Nested(v), ~IsError(v), v[1] # "nil", NEW T, IsType(T), T[1] # "any", NEW a,
         Assignable(v, T) \/ ~IsError(convertKind(Made(v, T, a), v, T, a))
  PROVE  ~IsError(convert(v, T, a))
<1>1. convert(v, T, a) = convertGiven(Made(v, T, a), v, T, a)
  BY ConvertIs DEF Made
<1>2. CASE Assignable(v, T)
  <2>1. convert(v, T, a) = Assigned(v, T)
    BY <1>1, <1>2, Zenon DEF convertGiven
  <2> QED BY <2>1, AssignedIs
<1>3. CASE ~Assignable(v, T)
  <2>1. convert(v, T, a) = convertKind(Made(v, T, a), v, T, a)
    BY <1>1, <1>3, Zenon DEF convertGiven
  <2> QED BY <1>3, <2>1
<1> QED BY <1>2, <1>3

LEMMA SameKind ==
  ASSUME NEW v, NEW T, v[1] = T[1], T[1] \notin {"map", "slice", "struct"}
  PROVE  Assignable(v, T)
BY DEF Assignable

LEMMA KindPointer ==
  ASSUME NEW v, NEW T, T[1] = "pointer", NEW a, ~IsError(convert(v, T[2], a))
  PROVE  ~IsError(convertKind(Made(v, T, a), v, T, a))
<1> DEFINE of == Made(v, T, a)
<1>1. of[<< v, T[2] >>] = convert(v, T[2], a)
  BY MadeIs, TypeChildrenAre
<1> HIDE DEF of
<1>2. convertKind(of, v, T, a) = IF IsError(of[<< v, T[2] >>]) THEN Error ELSE << "pointer", of[<< v, T[2] >>] >>
  BY Zenon DEF convertKind
<1>3. convertKind(of, v, T, a) = << "pointer", of[<< v, T[2] >>] >>
  BY <1>1, <1>2
<1>4. ~IsError(convertKind(of, v, T, a))
  BY <1>3 DEF IsError
<1> QED BY <1>4 DEF of

\* A list is converted if all in it is.
LEMMA ItemsPass ==
  ASSUME NEW of, NEW v, v[1] \in Sequence, NEW T, NEW k, k # "error",
         \A i \in DOMAIN v[2] : ~IsError(of[<< v[2][i], T >>])
  PROVE  ~IsError(convertItems(of, v, T, k))
<1> DEFINE items == [i \in DOMAIN v[2] |-> of[<< v[2][i], T >>]]
<1>1. convertItems(of, v, T, k) = Collect(k, items)
  BY DEF convertItems, sequence
<1>2. DOMAIN items = DOMAIN v[2] /\ \A i \in DOMAIN items : ~IsError(items[i])
  OBVIOUS
<1> HIDE DEF items
<1>3. Collect(k, items) = << k, items >>
  BY <1>2 DEF Collect
<1> QED BY <1>1, <1>3 DEF IsError

LEMMA KindItems ==
  ASSUME NEW v, v[1] \in Sequence, NEW T, NEW U \in TypeChildren(T), NEW a, NEW k, k # "error",
         \A i \in DOMAIN v[2] : ~IsError(convert(v[2][i], U, a))
  PROVE  ~IsError(convertItems(Made(v, T, a), v, U, k))
<1>1. \A i \in DOMAIN v[2] : v[2][i] \in Children(v)
  BY ChildrenIs DEF Range
<1> DEFINE of == Made(v, T, a)
<1>2. \A i \in DOMAIN v[2] : ~IsError(of[<< v[2][i], U >>])
  <2> TAKE i \in DOMAIN v[2]
  <2>1. of[<< v[2][i], U >>] = convert(v[2][i], U, a)
    BY <1>1, MadeIs
  <2>2. ~IsError(convert(v[2][i], U, a))
    OBVIOUS
  <2> HIDE DEF of
  <2> QED BY <2>1, <2>2, Zenon
<1> HIDE DEF of
<1>3. ~IsError(convertItems(of, v, U, k))
  BY <1>2, ItemsPass
<1> QED BY <1>3 DEF of

Float == {"float", "float32"}

LEMMA KindNumber ==
  ASSUME NEW of, NEW v, NEW T, NEW a
  PROVE  LET c == convertKind(of, v, T, a) IN
         /\ T[1] \in {"int", "int8"} /\ v[1] = "int" /\ Fits(v[2], T) => c = << T[1], v[2] >>
         /\ T[1] \in {"int", "int8"} /\ v[1] = "bool" => ~IsError(c)
         /\ T[1] \in {"uint8", "uint64"} /\ v[1] \in {"int", "bigInt"} /\ v[2] >= 0 /\ Fits(v[2], T) => ~IsError(c)
         /\ T[1] \in Float /\ v[1] \in {"int", "bigInt", "float"} => ~IsError(c)
<1> DEFINE c == convertKind(of, v, T, a)
<1>1. ASSUME T[1] \in {"int", "int8"}, v[1] = "int", Fits(v[2], T) PROVE c = << T[1], v[2] >>
  <2>1. c = convertInt(v, T, a)
    BY <1>1, Zenon DEF convertKind
  <2>2. T[1] # "duration"
    BY <1>1
  <2> HIDE DEF c
  <2> QED BY <1>1, <2>1, <2>2, Zenon DEF convertInt
<1>2. ASSUME T[1] \in {"int", "int8"}, v[1] = "bool" PROVE ~IsError(c)
  <2>1. c = convertInt(v, T, a)
    BY <1>2, Zenon DEF convertKind
  <2> HIDE DEF c
  <2>2. c = << T[1], IF v[2] THEN 1 ELSE 0 >>
    BY <1>2, <2>1, Zenon DEF convertInt
  <2>3. c[1] = T[1]
    BY <2>2
  <2> QED BY <1>2, <2>3 DEF IsError
<1>3. ASSUME T[1] \in {"uint8", "uint64"}, v[1] \in {"int", "bigInt"}, v[2] >= 0, Fits(v[2], T) PROVE ~IsError(c)
  <2>1. c = convertUint(v, T)
    BY <1>3, Zenon DEF convertKind
  <2> HIDE DEF c
  <2>2. c = << T[1], v[2] >>
    BY <1>3, <2>1 DEF convertUint
  <2> QED BY <1>3, <2>2 DEF IsError
<1>4. ASSUME T[1] \in Float, v[1] \in {"int", "bigInt", "float"} PROVE ~IsError(c)
  <2>1. c = convertFloat(v, T)
    BY <1>4, Zenon DEF convertKind, Float
  <2> HIDE DEF c
  <2>2. \E n : c = << T[1], n >>
    BY <1>4, <2>1, Zenon DEF convertFloat
  <2>3. c[1] = T[1]
    BY <2>2
  <2> QED BY <1>4, <2>3 DEF IsError, Float
<1> HIDE DEF c
<1>5. T[1] \in {"int", "int8"} /\ v[1] = "int" /\ Fits(v[2], T) => c = << T[1], v[2] >>
  BY <1>1
<1>6. T[1] \in {"int", "int8"} /\ v[1] = "bool" => ~IsError(c)
  BY <1>2
<1>7. T[1] \in {"uint8", "uint64"} /\ v[1] \in {"int", "bigInt"} /\ v[2] >= 0 /\ Fits(v[2], T) => ~IsError(c)
  BY <1>3
<1>8. T[1] \in Float /\ v[1] \in {"int", "bigInt", "float"} => ~IsError(c)
  BY <1>4
<1> QED BY <1>5, <1>6, <1>7, <1>8 DEF c

\* A map, a struct and a TimeDelta are converted if what is in them is.
LEMMA EntriesOfMap == \A v : v[1] = "map" => mapping(v) /\ Entries(v) = v[2]
<1>1. \A v : v[1] = "map" => mapping(v)
  BY DEF mapping
<1>2. \A v : v[1] = "map" => Entries(v) = v[2]
  BY Zenon DEF Entries
<1> QED BY <1>1, <1>2

LEMMA KindMap ==
  ASSUME NEW v, v[1] = "map", NEW T, T[1] = "map", NEW a,
         \A k \in DOMAIN v[2] : ~IsError(convert(v[2][k], T[2], a))
  PROVE  ~IsError(convertKind(Made(v, T, a), v, T, a))
<1> DEFINE of == Made(v, T, a)
           m == Entries(v)
           out == [k \in DOMAIN m |-> of[<< m[k], T[2] >>]]
<1>1. ASSUME NEW k \in DOMAIN m PROVE ~IsError(of[<< m[k], T[2] >>])
  <2>1. m = v[2] /\ k \in DOMAIN v[2]
    BY EntriesOfMap
  <2>2. v[2][k] \in Children(v) /\ T[2] \in TypeChildren(T)
    BY <2>1, ChildrenIs, TypeChildrenAre DEF Range
  <2>3. of[<< v[2][k], T[2] >>] = convert(v[2][k], T[2], a)
    BY <2>2, MadeIs
  <2>4. ~IsError(convert(v[2][k], T[2], a))
    BY <2>1
  <2> HIDE DEF of, m
  <2> QED BY <2>1, <2>3, <2>4
<1>2. convertKind(of, v, T, a) = convertMap(of, v, T)
  BY Zenon DEF convertKind
<1> HIDE DEF of
<1>3. convertMap(of, v, T) =
        IF ~mapping(v) THEN Error
        ELSE IF \E k \in DOMAIN m : IsError(out[k]) THEN Error ELSE << "map", out >>
  BY Zenon DEF convertMap
<1>4. mapping(v)
  BY EntriesOfMap
<1> HIDE DEF m
<1>5. \A k \in DOMAIN m : ~IsError(out[k])
  BY <1>1
<1> HIDE DEF out
<1>6. ~IsError(convertKind(of, v, T, a))
  BY <1>2, <1>3, <1>4, <1>5 DEF IsError
<1> QED BY <1>6 DEF of

LEMMA KindStruct ==
  ASSUME NEW v, v[1] = "map", NEW T, T[1] = "struct", NEW a,
         \A i \in Shown(T) : jsonName(T[3][i]) \in DOMAIN v[2] =>
                               ~IsError(convert(v[2][jsonName(T[3][i])], T[3][i].type, a))
  PROVE  ~IsError(convertKind(Made(v, T, a), v, T, a))
<1> DEFINE of == Made(v, T, a)
           m == Entries(v)
           zero == Zero(T)[2]
           Set(i) == LET f == T[3][i] IN f.exported /\ jsonName(f) # "" /\ jsonName(f) \in DOMAIN m
           Value(i) == of[m[jsonName(T[3][i])], T[3][i].type]
           r == << "struct", [i \in DOMAIN T[3] |->
                  IF Set(i) THEN [zero[i] EXCEPT !.value = Value(i), !.zero = Value(i) = zero[i].value]
                            ELSE zero[i]] >>
           bad == \E i \in DOMAIN T[3] : Set(i) /\ IsError(Value(i))
<1>1. ASSUME NEW i \in DOMAIN T[3], Set(i) PROVE ~IsError(Value(i))
  <2>1. i \in Shown(T) /\ jsonName(T[3][i]) \in DOMAIN v[2] /\ m = v[2]
    BY <1>1, EntriesOfMap DEF Shown
  <2>2. v[2][jsonName(T[3][i])] \in Children(v) /\ T[3][i].type \in TypeChildren(T)
    BY <2>1, ChildrenIs, TypeChildrenAre DEF Range
  <2>3. of[<< v[2][jsonName(T[3][i])], T[3][i].type >>] = convert(v[2][jsonName(T[3][i])], T[3][i].type, a)
    BY <2>2, MadeIs
  <2>4. ~IsError(convert(v[2][jsonName(T[3][i])], T[3][i].type, a))
    BY <2>1
  <2> HIDE DEF of, m
  <2> QED BY <2>1, <2>3, <2>4
<1>2. convertKind(of, v, T, a) = convertStruct(of, v, T)
  BY Zenon DEF convertKind
<1> HIDE DEF of
<1>3. convertStruct(of, v, T) =
        CASE ~mapping(v) -> Error
          [] mapping(v) /\ bad -> Error
          [] OTHER -> r
  BY Zenon DEF convertStruct
<1>4. mapping(v)
  BY EntriesOfMap
<1>5. ~bad
  BY <1>1
<1>6. r[1] = "struct"
  OBVIOUS
<1> HIDE DEF bad, r
<1>7. convertStruct(of, v, T) = r
  BY <1>3, <1>4, <1>5, Zenon
<1>8. ~IsError(convertKind(of, v, T, a))
  BY <1>2, <1>6, <1>7 DEF IsError
<1> QED BY <1>8 DEF of

LEMMA KindTimedelta ==
  ASSUME NEW v, v[1] = "map", NEW T, T[1] = "timedelta", NEW a,
         \A k \in DOMAIN v[2] : ~IsError(convert(v[2][k], << "int" >>, a))
  PROVE  ~IsError(convertKind(Made(v, T, a), v, T, a))
<1> DEFINE of == Made(v, T, a)
           name(i) == << "Days", "Seconds", "Microseconds" >>[i]
           part(k) == IF k \in DOMAIN Entries(v) THEN of[<< Entries(v)[k], << "int" >> >>] ELSE << "int", 0 >>
           items == [i \in 1..3 |-> part(name(i))]
           parts == Collect("parts", items)
           r == << "timedelta", parts[2][1][2], parts[2][2][2], parts[2][3][2] >>
<1>1. ASSUME NEW k PROVE ~IsError(part(k))
  <2>1. CASE k \in DOMAIN Entries(v)
    <3>1. Entries(v) = v[2] /\ k \in DOMAIN v[2]
      BY <2>1, EntriesOfMap
    <3>2. v[2][k] \in Children(v) /\ << "int" >> \in TypeChildren(T)
      BY <3>1, ChildrenIs, TypeChildrenAre DEF Range
    <3>3. of[<< v[2][k], << "int" >> >>] = convert(v[2][k], << "int" >>, a)
      BY <3>2, MadeIs
    <3>4. ~IsError(convert(v[2][k], << "int" >>, a))
      BY <3>1
    <3> HIDE DEF of
    <3> QED BY <2>1, <3>1, <3>3, <3>4
  <2>2. CASE k \notin DOMAIN Entries(v)
    BY <2>2 DEF IsError
  <2> QED BY <2>1, <2>2
<1>2. convertKind(of, v, T, a) = convertTimeDelta(of, v)
  BY Zenon DEF convertKind
<1> HIDE DEF of
<1>3. convertTimeDelta(of, v) = IF ~mapping(v) \/ IsError(parts) THEN Error ELSE r
  BY Zenon DEF convertTimeDelta
<1>4. mapping(v)
  BY EntriesOfMap
<1> HIDE DEF part, name
<1>5. DOMAIN items = 1..3 /\ \A i \in DOMAIN items : ~IsError(items[i])
  BY <1>1
<1> HIDE DEF items
<1>6. parts = << "parts", items >>
  BY <1>5 DEF Collect
<1>7. r[1] = "timedelta"
  OBVIOUS
<1>8. ~IsError(parts)
  BY <1>6 DEF IsError
<1> HIDE DEF parts, r
<1>9. ~IsError(convertKind(of, v, T, a))
  BY <1>2, <1>3, <1>4, <1>7, <1>8 DEF IsError
<1> QED BY <1>9 DEF of

(***************************************************************************)
(* What the stub allows is converted                                       *)
(***************************************************************************)

\* What the stub allows for a type is among the values that convert does not
\* keep, or converted.
Fine(T, w, a) ==
  (decode(w)[1] # "nil" /\ Refused(T, decode(w))) \/ ~IsError(convert(decode(w), T, a))
Honoured(T) == \A w, a : Sent(w) /\ ~IsError(decode(w)) /\ Accepts(pyType(T), w) => Fine(T, w, a)

\* What decode leaves of a list and of a dict.
LEMMA ListArrives ==
  ASSUME NEW w, Sent(w), ~IsError(decode(w)), w[1] \in Sequence
  PROVE  LET d == decode(w) IN
         /\ d[1] = w[1] /\ DOMAIN d[2] = DOMAIN w[2]
         /\ \A i \in DOMAIN w[2] : d[2][i] = decode(w[2][i]) /\ Sent(w[2][i]) /\ ~IsError(decode(w[2][i]))
<1> DEFINE items == [i \in DOMAIN w[2] |-> decodeIn(Known, w[2][i])]
<1>1. decodeIn(Known, w) = IF \E i \in DOMAIN w[2] : IsError(decodeIn(Known, w[2][i])) THEN Error
                           ELSE << w[1], items >>
  BY SentParts, ListDecodes
<1>2. \A i \in DOMAIN w[2] : w[2][i] \in Children(w)
  BY ChildrenIs DEF Range
<1>3. \A i \in DOMAIN w[2] : Sent(w[2][i])
  BY <1>2, SentParts
<1>4. DOMAIN items = DOMAIN w[2] /\ \A i \in DOMAIN w[2] : items[i] = decode(w[2][i])
  BY DEF decode
<1> HIDE DEF items
<1>5. decode(w) = << w[1], items >> /\ \A i \in DOMAIN w[2] : ~IsError(decode(w[2][i]))
  BY <1>1, ErrorIs DEF decode
<1> QED BY <1>3, <1>4, <1>5

LEMMA DictArrives ==
  ASSUME NEW w, Sent(w), ~IsError(decode(w)), w[1] = "dict"
  PROVE  decode(w)[1] \in {"map", "dict"}
<1> DEFINE d == decodeIn(Known, w)
           key(i) == decodeIn(Known, w[2][i][1])
           value(i) == decodeIn(Known, w[2][i][2])
<1>1. /\ (\E i \in DOMAIN w[2] : IsError(key(i)) \/ IsError(value(i))) => d = Error
      /\ (\A i \in DOMAIN w[2] : ~IsError(key(i)) /\ ~IsError(value(i))) =>
           /\ (\E i \in DOMAIN w[2] : key(i)[1] # "str") =>
                d = << "dict", [i \in DOMAIN w[2] |-> << key(i), value(i) >>] >>
           /\ (\A i \in DOMAIN w[2] : key(i)[1] = "str") => \E m : IsMapOf(Known, w, m)
  BY SentParts, DictDecodes
<1>2. ~IsError(d)
  BY DEF decode
<1>3. \A m : IsMapOf(Known, w, m) => d[1] = "map"
  BY DEF IsMapOf
<1> HIDE DEF d, key, value
<1>4. \A i \in DOMAIN w[2] : ~IsError(key(i)) /\ ~IsError(value(i))
  BY <1>1, <1>2, ErrorIs
<1>5. d[1] \in {"map", "dict"}
  <2> DEFINE e == << "dict", [i \in DOMAIN w[2] |-> << key(i), value(i) >>] >>
  <2>1. e[1] = "dict"
    OBVIOUS
  <2>2. CASE \E i \in DOMAIN w[2] : key(i)[1] # "str"
    <3>1. d = e
      BY <1>1, <1>4, <2>2
    <3> HIDE DEF e
    <3> QED BY <2>1, <3>1
  <2>3. CASE \A i \in DOMAIN w[2] : key(i)[1] = "str"
    BY <1>1, <1>3, <1>4, <2>3
  <2> QED BY <2>2, <2>3
<1> QED BY <1>5 DEF d, decode

LEMMA MapArrives ==
  ASSUME NEW w, Sent(w), ~IsError(decode(w)), w[1] = "dict", \A i \in DOMAIN w[2] : w[2][i][1][1] = "str"
  PROVE  LET d == decode(w) IN
         /\ d[1] = "map"
         /\ \A k \in DOMAIN d[2] : \E i \in DOMAIN w[2] :
              /\ w[2][i][1][2] = k /\ d[2][k] = decode(w[2][i][2])
              /\ Sent(w[2][i][2]) /\ ~IsError(decode(w[2][i][2]))
<1> DEFINE d == decodeIn(Known, w)
           key(i) == decodeIn(Known, w[2][i][1])
           value(i) == decodeIn(Known, w[2][i][2])
<1>1. /\ (\E i \in DOMAIN w[2] : IsError(key(i)) \/ IsError(value(i))) => d = Error
      /\ (\A i \in DOMAIN w[2] : ~IsError(key(i)) /\ ~IsError(value(i))) =>
           ((\A i \in DOMAIN w[2] : key(i)[1] = "str") => \E m : IsMapOf(Known, w, m))
  BY SentParts, DictDecodes
<1>2. ~IsError(d)
  BY DEF decode
<1>3. \A i \in DOMAIN w[2] : w[2][i][1] \in Children(w) /\ w[2][i][2] \in Children(w)
  BY ChildrenIs
<1>4. \A i \in DOMAIN w[2] : Sent(w[2][i][1]) /\ Nested(w[2][i][1]) /\ Sent(w[2][i][2])
  BY <1>3, SentParts
<1>5. \A i \in DOMAIN w[2] : key(i) = w[2][i][1]
  BY <1>4, LeafDecodes
<1> HIDE DEF d, key, value
<1>6. \A i \in DOMAIN w[2] : ~IsError(key(i)) /\ ~IsError(value(i))
  BY <1>1, <1>2, ErrorIs
<1>7. \A i \in DOMAIN w[2] : key(i)[1] = "str"
  BY <1>5
<1>8. PICK m : IsMapOf(Known, w, m)
  BY <1>1, <1>6, <1>7
<1>9. d = << "map", m >> /\ \A k \in DOMAIN m : \E i \in DOMAIN w[2] : key(i)[2] = k /\ m[k] = value(i)
  BY <1>8 DEF IsMapOf, d, key, value
<1>10. d[1] = "map" /\ d[2] = m
  BY <1>9
<1>11. \A i : value(i) = decode(w[2][i][2])
  BY DEF value, decode
<1>12. ASSUME NEW k \in DOMAIN d[2]
       PROVE  \E i \in DOMAIN w[2] : /\ w[2][i][1][2] = k /\ d[2][k] = decode(w[2][i][2])
                                     /\ Sent(w[2][i][2]) /\ ~IsError(decode(w[2][i][2]))
  <2>1. PICK i \in DOMAIN w[2] : key(i)[2] = k /\ m[k] = value(i)
    BY <1>9, <1>10
  <2>2. w[2][i][1][2] = k /\ d[2][k] = decode(w[2][i][2])
    BY <1>5, <1>10, <1>11, <2>1
  <2>3. Sent(w[2][i][2]) /\ ~IsError(decode(w[2][i][2]))
    BY <1>4, <1>6, <1>11
  <2> QED BY <2>2, <2>3
<1>13. d = decode(w)
  BY DEF d, decode
<1> HIDE DEF decode
<1> QED BY <1>10, <1>12, <1>13

\* Of values with nothing in them.
LEMMA LeafArrives ==
  ASSUME NEW w, Sent(w), ~IsError(decode(w))
  PROVE  LET d == decode(w) IN
         /\ w[1] \in Plain \cup {"str", "int"} => d = w
         /\ w[1] = "bigint" => d[1] = "bigInt"
         /\ w[1] = "datetime" => d[1] = "time"
         /\ w[1] = "timedelta" => d[1] \in {"timedelta", "duration"}
<1> DEFINE d == decodeIn(Known, w)
<1>1. /\ w[1] \in Plain \cup {"str", "int", "clock"} => d = w
      /\ w[1] = "bigint" => d = decodeBig(w[2], w[3])
      /\ w[1] = "datetime" => d = decodeDatetime(w[2], w[3], w[4])
      /\ w[1] = "timedelta" => d = decodeTimedelta(w[2], w[3], w[4])
  BY SentParts, LeafDecodes
<1> HIDE DEF d
<1>2. w[1] = "bigint" => d[1] = "bigInt"
  BY <1>1 DEF decodeBig
<1>3. w[1] = "datetime" => d[1] = "time"
  BY <1>1 DEF decodeDatetime
<1>4. w[1] = "timedelta" => d[1] \in {"timedelta", "duration"}
  BY <1>1 DEF decodeTimedelta
<1> QED BY <1>1, <1>2, <1>3, <1>4 DEF d, decode

\* Of a type and a value that its stub lets through.
Allowed(T, w) == IsType(T) /\ Sent(w) /\ ~IsError(decode(w)) /\ Accepts(pyType(T), w)

LEMMA AllowedIs ==
  ASSUME NEW T, NEW w, Allowed(T, w)
  PROVE  /\ Nested(w) /\ IsWire(w) /\ Nested(decode(w)) /\ Shallow("stub", pyType(T))
         /\ T[1] \in Kinds
<1>1. Nested(w) /\ IsWire(w)
  BY SentParts DEF Allowed
<1>2. Nested(decode(w))
  BY DecodedNested DEF Allowed, decode
<1>3. Shallow("stub", pyType(T)) /\ T[1] \in Kinds
  BY StubShallow, TypesNested DEF Allowed, IsType
<1> QED BY <1>1, <1>2, <1>3

\* By assignment, by the kind of the type, or among what is refused.
LEMMA FineByKind ==
  ASSUME NEW T, NEW w, Allowed(T, w), T[1] # "any", NEW a, decode(w)[1] # "nil",
         \/ Refused(T, decode(w))
         \/ decode(w)[1] = T[1] /\ T[1] \notin {"map", "slice", "struct"}
         \/ ~IsError(convertKind(Made(decode(w), T, a), decode(w), T, a))
  PROVE  Fine(T, w, a)
<1> DEFINE d == decode(w)
<1>1. Nested(d) /\ ~IsError(d) /\ IsType(T)
  BY AllowedIs DEF Allowed
<1>2. CASE Refused(T, d)
  BY <1>2 DEF Fine
<1>3. CASE d[1] = T[1] /\ T[1] \notin {"map", "slice", "struct"}
  <2>1. Assignable(d, T)
    BY <1>3, SameKind
  <2>2. ~IsError(convert(d, T, a))
    BY <1>1, <2>1, ConvertPasses
  <2> QED BY <2>2 DEF Fine
<1>4. CASE ~IsError(convertKind(Made(d, T, a), d, T, a))
  <2>1. ~IsError(convert(d, T, a))
    BY <1>1, <1>4, ConvertPasses
  <2> QED BY <2>1 DEF Fine
<1> QED BY <1>2, <1>3, <1>4

LEMMA FineAny ==
  ASSUME NEW T, NEW w, Allowed(T, w), T[1] = "any", NEW a
  PROVE  Fine(T, w, a)
<1>1. ~IsError(convert(decode(w), T, a))
  BY AllowedIs, ConvertAny DEF Allowed
<1> QED BY <1>1 DEF Fine

\* Types that the stub shows as what decodes to them.
LEMMA FineSame ==
  ASSUME NEW T, NEW w, Allowed(T, w), T[1] \in {"bool", "str", "bytes", "path", "tuple", "set", "time"}, NEW a
  PROVE  Fine(T, w, a)
<1> DEFINE P == pyType(T)
           d == decode(w)
<1>1. P = IF T[1] = "time" THEN << "datetime" >> ELSE << T[1] >>
  BY PyTypeOfLeaf DEF Allowed
<1>2. w[1] = IF T[1] = "time" THEN "datetime" ELSE T[1]
  <2>1. P[1] \notin {"Any", "optional", "int", "float", "date", "list", "dict", "typed"} /\
        P[1] = IF T[1] = "time" THEN "datetime" ELSE T[1]
    BY <1>1
  <2> QED BY <2>1, AllowedIs, AcceptsLeaf DEF Allowed
<1>3. d[1] = T[1]
  <2>1. CASE T[1] \in {"tuple", "set"}
    <3>1. w[1] \in Sequence /\ w[1] = T[1]
      BY <1>2, <2>1 DEF Sequence
    <3> QED BY <3>1, ListArrives DEF Allowed
  <2>2. CASE T[1] = "time"
    BY <1>2, <2>2, LeafArrives DEF Allowed
  <2>3. CASE T[1] \in {"bool", "str", "bytes", "path"}
    <3>1. w[1] \in Plain \cup {"str", "int"} /\ w[1] = T[1]
      BY <1>2, <2>3 DEF Plain
    <3> QED BY <3>1, LeafArrives DEF Allowed
  <2> QED BY <2>1, <2>2, <2>3
<1> HIDE DEF d, P
<1>4. d[1] # "nil" /\ T[1] \notin {"any", "map", "slice", "struct"}
  BY <1>3
<1> QED BY <1>3, <1>4, FineByKind DEF d

\* A date or a timedelta, and what goes for one.
LEMMA FineDate ==
  ASSUME NEW T, NEW w, Allowed(T, w), T[1] \in {"date", "duration", "dict"}, NEW a
  PROVE  Fine(T, w, a)
<1> DEFINE P == pyType(T)
           d == decode(w)
<1>0. Nested(d) /\ IsType(T)
  BY AllowedIs DEF Allowed
<1>1. CASE T[1] = "date"
  <2>1. P = << "date" >>
    BY <1>1, PyTypeOfLeaf DEF Allowed
  <2>2. w[1] \in {"date", "datetime"}
    BY <2>1, AllowedIs, AcceptsLeaf DEF Allowed
  <2>3. d[1] \in {"date", "time"}
    BY <2>2, LeafArrives DEF Allowed, Plain
  <2>4. d[1] = "time" => Refused(T, d)
    BY <1>0, <1>1, RefusedLeaf
  <2> HIDE DEF d, P
  <2> QED BY <1>1, <2>3, <2>4, FineByKind DEF d
<1>2. CASE T[1] = "duration"
  <2>1. P = << "timedelta" >>
    BY <1>2, PyTypeOfLeaf DEF Allowed
  <2>2. w[1] = "timedelta"
    BY <2>1, AllowedIs, AcceptsLeaf DEF Allowed
  <2>3. d[1] \in {"duration", "timedelta"}
    BY <2>2, LeafArrives DEF Allowed
  <2>4. d[1] = "timedelta" => Refused(T, d)
    BY <1>0, <1>2, RefusedLeaf
  <2> HIDE DEF d, P
  <2> QED BY <1>2, <2>3, <2>4, FineByKind DEF d
<1>3. CASE T[1] = "dict"
  <2>1. P = << "dict", << "Any" >>, << "Any" >> >>
    BY <1>3, PyTypeOfLeaf DEF Allowed
  <2>2. w[1] = "dict"
    BY <2>1, AllowedIs, AcceptsDict DEF Allowed
  <2>3. d[1] \in {"map", "dict"}
    BY <2>2, DictArrives DEF Allowed
  <2>4. d[1] = "map" => Refused(T, d)
    BY <1>0, <1>3, RefusedLeaf
  <2> HIDE DEF d, P
  <2> QED BY <1>3, <2>3, <2>4, FineByKind DEF d
<1> QED BY <1>1, <1>2, <1>3

\* Integers, floats and bools.
LEMMA FineNumber ==
  ASSUME NEW T, NEW w, Allowed(T, w), NEW a,
         T[1] \in {"int", "int8", "uint8", "uint64", "bigInt", "float", "float32"}
  PROVE  Fine(T, w, a)
<1> DEFINE P == pyType(T)
           d == decode(w)
           c == convertKind(Made(d, T, a), d, T, a)
<1>0. Nested(d) /\ IsType(T)
  BY AllowedIs DEF Allowed
<1>1. w[1] \in {"int", "bigint", "bool"} \cup (IF T[1] \in Float THEN {"float"} ELSE {})
  <2>1. P = IF T[1] \in Float THEN << "float" >> ELSE << "int" >>
    BY PyTypeOfLeaf DEF Allowed, Float
  <2>2. P[1] = IF T[1] \in Float THEN "float" ELSE "int"
    BY <2>1
  <2>3. /\ P[1] = "int" => w[1] \in {"int", "bigint", "bool"}
        /\ P[1] = "float" => w[1] \in {"float", "int", "bigint", "bool"}
    BY AllowedIs, AcceptsLeaf DEF Allowed
  <2> HIDE DEF P
  <2> QED BY <2>2, <2>3
<1>2. /\ w[1] = "bigint" => d[1] = "bigInt"
      /\ w[1] # "bigint" => d[1] = w[1]
  BY <1>1, LeafArrives DEF Allowed, Plain
<1>3. d[1] \in {"int", "bigInt", "bool"} \cup (IF T[1] \in Float THEN {"float"} ELSE {})
  BY <1>1, <1>2
<1>4. /\ T[1] \in {"int", "int8"} /\ (d[1] = "bigInt" \/ (d[1] = "int" /\ ~Fits(d[2], T))) => Refused(T, d)
      /\ T[1] \in {"uint8", "uint64"} /\ (d[1] = "bool" \/ ~Fits(d[2], T)) => Refused(T, d)
      /\ T[1] \in {"float", "float32"} /\ d[1] = "bool" => Refused(T, d)
      /\ T[1] = "bigInt" /\ d[1] # "bigInt" => Refused(T, d)
  BY <1>0, RefusedLeaf
<1>5. /\ T[1] \in {"int", "int8"} /\ d[1] = "int" /\ Fits(d[2], T) => c = << T[1], d[2] >>
      /\ T[1] \in {"int", "int8"} /\ d[1] = "bool" => ~IsError(c)
      /\ T[1] \in {"uint8", "uint64"} /\ d[1] \in {"int", "bigInt"} /\ d[2] >= 0 /\ Fits(d[2], T) => ~IsError(c)
      /\ T[1] \in Float /\ d[1] \in {"int", "bigInt", "float"} => ~IsError(c)
  BY KindNumber
<1>6. T[1] \in {"uint8", "uint64"} /\ Fits(d[2], T) => d[2] >= 0
  <2>1. T[1] = "uint8" => (Fits(d[2], T) <=> d[2] \in 0..(2 * MaxSmall + 1))
    BY Zenon DEF Fits
  <2>2. T[1] = "uint64" => (Fits(d[2], T) <=> d[2] \in 0..(2 * MaxInt + 1))
    BY Zenon DEF Fits
  <2> HIDE DEF d
  <2> QED BY <2>1, <2>2
<1>7. T[1] \in {"int", "int8"} /\ c = << T[1], d[2] >> => ~IsError(c)
  <2> HIDE DEF c, d
  <2> QED BY DEF IsError
<1>8. d[1] # "nil" /\ T[1] \notin {"any", "map", "slice", "struct"}
  BY <1>3
<1> HIDE DEF c, d, P
<1>9. Refused(T, d) \/ d[1] = T[1] \/ ~IsError(c)
  BY <1>3, <1>4, <1>5, <1>6, <1>7 DEF Float
<1> QED BY <1>8, <1>9, FineByKind DEF c, d

LEMMA IntIsType == \A T : IsType(T) /\ T[1] = "timedelta" => IsType(<< "int" >>)
BY TypesNested, TypeChildrenAre

\* Types with others in them, if the theorem holds of those.
LEMMA FineFrozen ==
  ASSUME NEW T, NEW w, Allowed(T, w), T[1] = "frozenset", NEW a
  PROVE  Fine(T, w, a)
<1> DEFINE d == decode(w)
           c == convertKind(Made(d, T, a), d, T, a)
<1>1. pyType(T) = << "set" >>
  BY PyTypeOfLeaf DEF Allowed
<1>2. w[1] = "set"
  BY <1>1, AllowedIs, AcceptsLeaf DEF Allowed
<1>3. /\ d[1] = "set" /\ DOMAIN d[2] = DOMAIN w[2]
      /\ \A i \in DOMAIN w[2] : d[2][i] = decode(w[2][i]) /\ Sent(w[2][i]) /\ ~IsError(decode(w[2][i]))
  BY <1>2, ListArrives DEF Allowed, Sequence
<1>4. << "any" >> \in TypeChildren(T) /\ IsType(<< "any" >>)
  BY TypeChildrenAre, TypesNested DEF Allowed
<1>5. \A i \in DOMAIN d[2] : ~IsError(convert(d[2][i], << "any" >>, a))
  <2> TAKE i \in DOMAIN d[2]
  <2>1. Nested(d[2][i]) /\ ~IsError(d[2][i])
    BY <1>3, DecodedNested DEF decode
  <2> QED BY <1>4, <2>1, ConvertAny
<1>6. d[1] \in Sequence /\ d[1] # "nil"
  BY <1>3 DEF Sequence
<1>7. ~IsError(convertItems(Made(d, T, a), d, << "any" >>, "frozenset"))
  <2> HIDE DEF d
  <2> QED BY <1>4, <1>5, <1>6, KindItems
<1>8. c = convertItems(Made(d, T, a), d, << "any" >>, "frozenset")
  <2> HIDE DEF d
  <2> QED BY Zenon DEF convertKind
<1> QED BY <1>6, <1>7, <1>8, FineByKind

LEMMA FinePointer ==
  ASSUME NEW T, NEW w, Allowed(T, w), T[1] = "pointer", NEW a, Honoured(T[2])
  PROVE  Fine(T, w, a)
<1> DEFINE d == decode(w)
<1>0. Nested(d) /\ IsType(T) /\ ~IsError(d) /\ Nested(w) /\ Shallow("stub", pyType(T))
  BY AllowedIs DEF Allowed
<1>1. pyType(T) = << "optional", pyType(T[2]) >>
  BY PyTypeOfTree DEF Allowed
<1>2. w[1] = "nil" \/ Accepts(pyType(T[2]), w)
  BY <1>0, <1>1, AcceptsOptional DEF Allowed
<1>3. CASE d[1] = "nil"
  <2>1. ~IsError(convert(d, T, a))
    BY <1>0, <1>3, ConvertNil DEF Nilable, Pointer
  <2> QED BY <2>1 DEF Fine
<1>4. CASE d[1] # "nil"
  <2>1. w[1] # "nil"
    BY <1>4, LeafArrives DEF Allowed, Plain
  <2>2. Fine(T[2], w, a)
    BY <1>2, <2>1 DEF Allowed, Honoured
  <2>3. Refused(T[2], d) \/ ~IsError(convert(d, T[2], a))
    BY <2>2 DEF Fine
  <2>4. Refused(T[2], d) => Refused(T, d)
    BY <1>0, <1>4, RefusedIn
  <2>5. ~IsError(convert(d, T[2], a)) => ~IsError(convertKind(Made(d, T, a), d, T, a))
    BY KindPointer
  <2> QED BY <1>4, <2>3, <2>4, <2>5, FineByKind
<1> QED BY <1>3, <1>4

LEMMA FineList ==
  ASSUME NEW T, NEW w, Allowed(T, w), T[1] \in {"slice", "array"}, NEW a, Honoured(T[2])
  PROVE  Fine(T, w, a)
<1> DEFINE d == decode(w)
           c == convertKind(Made(d, T, a), d, T, a)
           U == T[2]
<1>0. Nested(d) /\ IsType(T) /\ Nested(w) /\ Shallow("stub", pyType(T))
  BY AllowedIs DEF Allowed
<1>1. pyType(T) = << "list", pyType(U) >>
  BY PyTypeOfTree DEF Allowed
<1>2. w[1] = "list" /\ \A i \in DOMAIN w[2] : Accepts(pyType(U), w[2][i])
  BY <1>0, <1>1, AcceptsList DEF Allowed
<1>3. /\ d[1] = "list" /\ DOMAIN d[2] = DOMAIN w[2]
      /\ \A i \in DOMAIN w[2] : d[2][i] = decode(w[2][i]) /\ Sent(w[2][i]) /\ ~IsError(decode(w[2][i]))
  BY <1>2, ListArrives DEF Allowed, Sequence
<1>4. \A i \in DOMAIN d[2] : Refused(U, d[2][i]) \/ ~IsError(convert(d[2][i], U, a))
  <2> TAKE i \in DOMAIN d[2]
  <2>1. Fine(U, w[2][i], a)
    <3>1. i \in DOMAIN w[2] /\ Sent(w[2][i]) /\ ~IsError(decode(w[2][i])) /\ Accepts(pyType(U), w[2][i])
      BY <1>2, <1>3
    <3> QED BY <3>1 DEF Honoured
  <2>2. d[2][i] = decode(w[2][i])
    BY <1>3
  <2> HIDE DEF d
  <2> QED BY <2>1, <2>2 DEF Fine
<1>5. \A i \in DOMAIN d[2] : Refused(U, d[2][i]) => Refused(T, d)
  BY <1>0, <1>3, RefusedIn
<1>6. U \in TypeChildren(T) /\ d[1] \in Sequence /\ d[1] # "nil"
  BY <1>3, TypeChildrenAre DEF Sequence
<1>7. (\A i \in DOMAIN d[2] : ~IsError(convert(d[2][i], U, a))) => ~IsError(convertItems(Made(d, T, a), d, U, "list"))
  <2> HIDE DEF d, U
  <2> QED BY <1>6, KindItems
<1>8. /\ T[1] = "slice" => c = convertItems(Made(d, T, a), d, U, "list")
      /\ T[1] = "array" /\ Len(d[2]) = T[3] => c = convertItems(Made(d, T, a), d, U, "list")
  <2>1. sequence(d)
    BY <1>6 DEF sequence
  <2> HIDE DEF d
  <2>2. T[1] = "slice" => c = convertItems(Made(d, T, a), d, U, "list")
    BY Zenon DEF convertKind
  <2>3. T[1] = "array" => c = IF sequence(d) /\ Len(d[2]) = T[3] THEN convertItems(Made(d, T, a), d, U, "list") ELSE Error
    BY Zenon DEF convertKind
  <2> HIDE DEF c
  <2> QED BY <2>1, <2>2, <2>3
<1>9. T[1] = "array" /\ Len(d[2]) # T[3] => Refused(T, d)
  BY <1>0, RefusedLeaf
<1>10. Refused(T, d) \/ ~IsError(c)
  <2> HIDE DEF d, c, U
  <2> QED BY <1>4, <1>5, <1>7, <1>8, <1>9
<1> QED BY <1>6, <1>10, FineByKind

LEMMA FineMap ==
  ASSUME NEW T, NEW w, Allowed(T, w), T[1] = "map", NEW a, Honoured(T[2])
  PROVE  Fine(T, w, a)
<1> DEFINE d == decode(w)
           P == pyType(T)
           U == T[2]
           c == convertKind(Made(d, T, a), d, T, a)
<1>0. Nested(d) /\ IsType(T) /\ Nested(w) /\ Shallow("stub", P)
  BY AllowedIs DEF Allowed
<1>1. P = << "dict", << "str" >>, pyType(U) >>
  BY PyTypeOfTree DEF Allowed
<1>2. w[1] = "dict" /\ \A i \in DOMAIN w[2] : Accepts(<< "str" >>, w[2][i][1]) /\ Accepts(pyType(U), w[2][i][2])
  BY <1>0, <1>1, AcceptsDict DEF Allowed
<1>3. Shallow("stub", << "str" >>)
  <2>1. << "str" >> \in PyChildren(P)
    BY <1>1, PyChildrenAre
  <2>2. Kids("stub", P) = PyChildren(P)
    BY KidsAre
  <2> DEFINE Q == << "str" >>
  <2>3. Q \in Kids("stub", P)
    BY <2>1, <2>2
  <2> HIDE DEF P, Q
  <2>4. Shallow("stub", Q)
    BY <1>0, <2>3, AllInShallow
  <2> QED BY <2>4 DEF Q
<1>4. \A i \in DOMAIN w[2] : w[2][i][1][1] = "str"
  <2> TAKE i \in DOMAIN w[2]
  <2>1. w[2][i][1] \in Children(w)
    BY <1>2, ChildrenIs
  <2>2. Nested(w[2][i][1])
    BY <2>1, SentParts DEF Allowed
  <2> QED BY <1>2, <1>3, <2>2, AcceptsLeaf
<1>5. /\ d[1] = "map"
      /\ \A k \in DOMAIN d[2] : \E i \in DOMAIN w[2] :
           /\ w[2][i][1][2] = k /\ d[2][k] = decode(w[2][i][2])
           /\ Sent(w[2][i][2]) /\ ~IsError(decode(w[2][i][2]))
  BY <1>2, <1>4, MapArrives DEF Allowed
<1> HIDE DEF d
<1>6. \A k \in DOMAIN d[2] : Refused(U, d[2][k]) \/ ~IsError(convert(d[2][k], U, a))
  <2> TAKE k \in DOMAIN d[2]
  <2>1. PICK i \in DOMAIN w[2] : d[2][k] = decode(w[2][i][2]) /\ Sent(w[2][i][2]) /\ ~IsError(decode(w[2][i][2]))
    BY <1>5
  <2>2. Fine(U, w[2][i][2], a)
    BY <1>2, <2>1 DEF Honoured
  <2> QED BY <2>1, <2>2 DEF Fine
<1>7. \A k \in DOMAIN d[2] : Refused(U, d[2][k]) => Refused(T, d)
  BY <1>0, <1>5, RefusedIn
<1>8. (\A k \in DOMAIN d[2] : ~IsError(convert(d[2][k], U, a))) => ~IsError(c)
  BY <1>5, KindMap
<1>9. Refused(T, d) \/ ~IsError(c)
  <2> HIDE DEF c, U
  <2> QED BY <1>6, <1>7, <1>8
<1> QED BY <1>5, <1>9, FineByKind DEF d

LEMMA FineTimedelta ==
  ASSUME NEW T, NEW w, Allowed(T, w), T[1] = "timedelta", NEW a, Honoured(<< "int" >>)
  PROVE  Fine(T, w, a)
<1> DEFINE d == decode(w)
           P == pyType(T)
           U == << "int" >>
           c == convertKind(Made(d, T, a), d, T, a)
           F == { << k, << "int" >> >> : k \in {"Days", "Seconds", "Microseconds"} }
<1>0. Nested(d) /\ IsType(T) /\ Nested(w) /\ Shallow("stub", P)
  BY AllowedIs DEF Allowed
<1>1. P = << "typed", F >>
  BY PyTypeOfLeaf DEF Allowed
<1>2. /\ w[1] = "dict"
      /\ { w[2][i][1] : i \in DOMAIN w[2] } = { << "str", f[1] >> : f \in F }
      /\ \A i \in DOMAIN w[2] : \A f \in F : w[2][i][1] = << "str", f[1] >> => Accepts(f[2], w[2][i][2])
  <2>1. P[1] = "typed" /\ P[2] = F
    BY <1>1
  <2> HIDE DEF P, F
  <2> QED BY <1>0, <2>1, AcceptsTyped DEF Allowed, P
<1>3. \A i \in DOMAIN w[2] : w[2][i][1][1] = "str" /\ Accepts(U, w[2][i][2])
  <2> TAKE i \in DOMAIN w[2]
  <2>1. PICK f \in F : w[2][i][1] = << "str", f[1] >>
    <3> HIDE DEF F
    <3> QED BY <1>2
  <2>2. Accepts(f[2], w[2][i][2]) /\ f[2] = U
    BY <1>2, <2>1
  <2> QED BY <2>1, <2>2
<1>4. /\ d[1] = "map"
      /\ \A k \in DOMAIN d[2] : \E i \in DOMAIN w[2] :
           /\ w[2][i][1][2] = k /\ d[2][k] = decode(w[2][i][2])
           /\ Sent(w[2][i][2]) /\ ~IsError(decode(w[2][i][2]))
  BY <1>2, <1>3, MapArrives DEF Allowed
<1>5. pyType(U) = U
  BY <1>0, IntIsType, PyTypeOfLeaf
<1> HIDE DEF d, U, F, P
<1>6. \A k \in DOMAIN d[2] : Refused(U, d[2][k]) \/ ~IsError(convert(d[2][k], U, a))
  <2> TAKE k \in DOMAIN d[2]
  <2>1. PICK i \in DOMAIN w[2] : d[2][k] = decode(w[2][i][2]) /\ Sent(w[2][i][2]) /\ ~IsError(decode(w[2][i][2]))
    BY <1>4
  <2>2. Fine(U, w[2][i][2], a)
    BY <1>3, <1>5, <2>1 DEF Honoured, U
  <2> QED BY <2>1, <2>2 DEF Fine
<1>7. \A k \in DOMAIN d[2] : Refused(U, d[2][k]) => Refused(T, d)
  BY <1>0, <1>4, RefusedIn DEF U
<1>8. (\A k \in DOMAIN d[2] : ~IsError(convert(d[2][k], U, a))) => ~IsError(c)
  BY <1>4, KindTimedelta DEF U
<1>9. Refused(T, d) \/ ~IsError(c)
  <2> HIDE DEF c
  <2> QED BY <1>6, <1>7, <1>8
<1> QED BY <1>4, <1>9, FineByKind DEF d

LEMMA FineStruct ==
  ASSUME NEW T, NEW w, Allowed(T, w), T[1] = "struct", NEW a, \A U \in TypeChildren(T) : Honoured(U)
  PROVE  Fine(T, w, a)
<1> DEFINE d == decode(w)
           P == pyType(T)
           c == convertKind(Made(d, T, a), d, T, a)
           F == { << jsonName(T[3][i]), pyType(T[3][i].type) >> : i \in Shown(T) }
<1>0. Nested(d) /\ IsType(T) /\ Nested(w) /\ Shallow("stub", P)
  BY AllowedIs DEF Allowed
<1>1. P = << "typed", F >>
  BY PyTypeOfTree DEF Allowed
<1>2. /\ w[1] = "dict"
      /\ { w[2][i][1] : i \in DOMAIN w[2] } = { << "str", f[1] >> : f \in F }
      /\ \A i \in DOMAIN w[2] : \A f \in F : w[2][i][1] = << "str", f[1] >> => Accepts(f[2], w[2][i][2])
  <2>1. P[1] = "typed" /\ P[2] = F
    BY <1>1
  <2> HIDE DEF P, F
  <2> QED BY <1>0, <2>1, AcceptsTyped DEF Allowed, P
<1>3. \A i \in DOMAIN w[2] : w[2][i][1][1] = "str"
  <2> TAKE i \in DOMAIN w[2]
  <2>1. PICK f \in F : w[2][i][1] = << "str", f[1] >>
    <3> HIDE DEF F
    <3> QED BY <1>2
  <2> HIDE DEF F
  <2> QED BY <2>1
<1>4. /\ d[1] = "map"
      /\ \A k \in DOMAIN d[2] : \E i \in DOMAIN w[2] :
           /\ w[2][i][1][2] = k /\ d[2][k] = decode(w[2][i][2])
           /\ Sent(w[2][i][2]) /\ ~IsError(decode(w[2][i][2]))
  BY <1>2, <1>3, MapArrives DEF Allowed
<1>5. \A j \in Shown(T) : << jsonName(T[3][j]), pyType(T[3][j].type) >> \in F
  OBVIOUS
<1>6. \A i \in DOMAIN w[2] : IsWire(w[2][i][1]) /\ w[2][i][1] = << "str", w[2][i][1][2] >>
  <2> TAKE i \in DOMAIN w[2]
  <2>1. w[2][i][1] \in Children(w)
    BY <1>2, ChildrenIs
  <2>2. IsWire(w[2][i][1])
    BY <2>1, SentParts DEF Allowed
  <2>3. w[2][i][1] \in {"str"} \X Utf8
    BY <1>3, <2>2, WireIs
  <2> QED BY <2>2, <2>3
<1> HIDE DEF d, F, P
<1>7. \A j \in Shown(T) : jsonName(T[3][j]) \in DOMAIN d[2] =>
        LET v == d[2][jsonName(T[3][j])] IN
        Refused(T[3][j].type, v) \/ ~IsError(convert(v, T[3][j].type, a))
  <2> SUFFICES ASSUME NEW j \in Shown(T), jsonName(T[3][j]) \in DOMAIN d[2]
               PROVE  LET v == d[2][jsonName(T[3][j])] IN
                      Refused(T[3][j].type, v) \/ ~IsError(convert(v, T[3][j].type, a))
    OBVIOUS
  <2> DEFINE k == jsonName(T[3][j])
             U == T[3][j].type
             f == << k, pyType(U) >>
  <2>0. f \in F /\ f[1] = k /\ f[2] = pyType(U)
    BY <1>5
  <2>1. PICK i \in DOMAIN w[2] : w[2][i][1][2] = k /\ d[2][k] = decode(w[2][i][2])
                                 /\ Sent(w[2][i][2]) /\ ~IsError(decode(w[2][i][2]))
    BY <1>4
  <2>2. U \in TypeChildren(T)
    BY TypeChildrenAre DEF Shown
  <2> HIDE DEF f, k, U
  <2>3. w[2][i][1] = << "str", f[1] >>
    BY <1>6, <2>0, <2>1
  <2>4. Accepts(pyType(U), w[2][i][2])
    BY <1>2, <2>0, <2>3
  <2>5. Fine(U, w[2][i][2], a)
    BY <2>1, <2>2, <2>4 DEF Honoured
  <2>6. Refused(U, d[2][k]) \/ ~IsError(convert(d[2][k], U, a))
    BY <2>1, <2>5 DEF Fine
  <2> QED BY <2>6 DEF k, U
<1>8. \A j \in Shown(T) : jsonName(T[3][j]) \in DOMAIN d[2] /\ Refused(T[3][j].type, d[2][jsonName(T[3][j])])
                            => Refused(T, d)
  BY <1>0, <1>4, RefusedIn
<1>9. (\A j \in Shown(T) : jsonName(T[3][j]) \in DOMAIN d[2] =>
                             ~IsError(convert(d[2][jsonName(T[3][j])], T[3][j].type, a))) => ~IsError(c)
  BY <1>4, KindStruct
<1>10. Refused(T, d) \/ ~IsError(c)
  <2> HIDE DEF c
  <2> QED BY <1>7, <1>8, <1>9
<1> QED BY <1>4, <1>10, FineByKind DEF d

\* For every type: by induction from the innermost types outwards.
LEMMA TypesHonoured == \A T : IsType(T) => Honoured(T)
<1> SUFFICES ASSUME NEW T, IsType(T) PROVE Honoured(T)
  OBVIOUS
<1> DEFINE S == { U \in TypeParts(T) : Honoured(U) }
<1>1. ASSUME NEW U \in TypeParts(T), TypeChildren(U) \subseteq S PROVE U \in S
  <2>1. IsType(U) /\ U[1] \in Kinds
    BY TypesNested DEF IsType
  <2>2. \A C \in TypeChildren(U) : Honoured(C)
    BY <1>1
  <2> HIDE DEF S
  <2>3. ASSUME NEW w, NEW a, Sent(w), ~IsError(decode(w)), Accepts(pyType(U), w) PROVE Fine(U, w, a)
    <3>1. Allowed(U, w)
      BY <2>1, <2>3 DEF Allowed
    <3>2. U[1] = "any" => Fine(U, w, a)
      BY <3>1, FineAny
    <3>3. U[1] \in {"bool", "str", "bytes", "path", "tuple", "set", "time"} => Fine(U, w, a)
      BY <3>1, FineSame
    <3>4. U[1] \in {"date", "duration", "dict"} => Fine(U, w, a)
      BY <3>1, FineDate
    <3>5. U[1] \in {"int", "int8", "uint8", "uint64", "bigInt", "float", "float32"} => Fine(U, w, a)
      BY <3>1, FineNumber
    <3>6. U[1] = "frozenset" => Fine(U, w, a)
      BY <3>1, FineFrozen
    <3>7. U[1] = "pointer" => Fine(U, w, a)
      BY <2>2, <3>1, FinePointer, TypeChildrenAre
    <3>8. U[1] \in {"slice", "array"} => Fine(U, w, a)
      BY <2>2, <3>1, FineList, TypeChildrenAre
    <3>9. U[1] = "map" => Fine(U, w, a)
      BY <2>2, <3>1, FineMap, TypeChildrenAre
    <3>10. U[1] = "timedelta" => Fine(U, w, a)
      BY <2>2, <3>1, FineTimedelta, TypeChildrenAre
    <3>11. U[1] = "struct" => Fine(U, w, a)
      BY <2>2, <3>1, FineStruct
    <3> QED BY <2>1, <3>2, <3>3, <3>4, <3>5, <3>6, <3>7, <3>8, <3>9, <3>10, <3>11 DEF Kinds
  <2>4. Honoured(U)
    BY <2>3 DEF Honoured
  <2> QED BY <2>4 DEF S
<1> HIDE DEF S
<1>2. T \in S
  BY <1>1, TypeInduction
<1> QED BY <1>2 DEF S

(***************************************************************************)
(* A call that the stub allows                                             *)
(***************************************************************************)

\* The parameters that have a default may be nil.
LEMMA OptionalIs ==
  ASSUME NEW tool, tool.params \in Seq(STRING), NEW i \in DOMAIN tool.params, i >= optionalFrom(tool)
  PROVE  tool.types[i][1] \in Pointer
<1> DEFINE n == Len(tool.params)
           Tail0(k) == \A j \in k..n : tool.types[j][1] \in Pointer
           From(k) == Tail0(k) /\ (k = 1 \/ tool.types[k - 1][1] \notin Pointer)
<1>1. n \in Nat /\ i \in 1..n
  BY LenProperties
<1>2. optionalFrom(tool) = CHOOSE k \in 1..(n + 1) : From(k)
  BY DEF optionalFrom
<1> HIDE DEF n
<1>3. \E k \in 1..(n + 1) : From(k)
  <2> SUFFICES ASSUME \A k \in 1..(n + 1) : ~From(k) PROVE FALSE
    OBVIOUS
  <2> DEFINE S == { m \in Nat : Tail0(n + 1 - m) }
  <2>1. 0 \in S
    BY <1>1
  <2>2. ASSUME NEW m \in Nat, m < n, m \in S PROVE m + 1 \in S
    <3>1. n + 1 - m \in 1..(n + 1) /\ n + 1 - m # 1
      BY <1>1, <2>2
    <3>2. Tail0(n + 1 - m)
      BY <2>2
    <3>3. tool.types[n - m][1] \in Pointer
      <4>1. ~From(n + 1 - m)
        BY <3>1
      <4>2. (n + 1 - m) - 1 = n - m
        BY <1>1, <2>2
      <4> HIDE DEF Tail0
      <4> QED BY <3>1, <3>2, <4>1, <4>2
    <3>4. Tail0(n - m)
      <4> SUFFICES ASSUME NEW j \in (n - m)..n PROVE tool.types[j][1] \in Pointer
        OBVIOUS
      <4>1. j = n - m \/ j \in (n + 1 - m)..n
        BY <1>1, <2>2
      <4> QED BY <3>2, <3>3, <4>1
    <3>5. n + 1 - (m + 1) = n - m
      BY <1>1, <2>2
    <3> HIDE DEF Tail0
    <3> QED BY <3>4, <3>5
  <2> HIDE DEF S
  <2>3. n \in S
    <3>1. \A m \in 0..n : m \in S
      BY <1>1, <2>1, <2>2, InductionTo
    <3> QED BY <1>1, <3>1
  <2>4. Tail0(1)
    <3>1. n + 1 - n = 1
      BY <1>1
    <3> HIDE DEF Tail0
    <3> QED BY <2>3, <3>1 DEF S
  <2>5. From(1) /\ 1 \in 1..(n + 1)
    BY <1>1, <2>4
  <2> QED BY <2>5
<1> DEFINE o == optionalFrom(tool)
<1>4. o \in 1..(n + 1) /\ From(o)
  <2> HIDE DEF From
  <2> QED BY <1>2, <1>3
<1> HIDE DEF o
<1>5. i \in o..n
  BY <1>1, <1>4 DEF o
<1> QED BY <1>4, <1>5

\* A parameter that is left out gets what it gets for None.
LEMMA NilArrives ==
  ASSUME NEW T, IsType(T), T[1] \in Nilable, NEW a
  PROVE  convert(decode(<< "nil" >>), T, a) = Zero(T)
<1> DEFINE w == << "nil" >>
<1>1. w[1] = "nil"
  OBVIOUS
<1> HIDE DEF w
<1>2. Nested(w)
  BY <1>1, LeafIs DEF NoChildren, Leaves, Plain
<1>3. decode(w) = w
  BY <1>1, <1>2, LeafDecodes DEF Plain, decode
<1>4. convert(w, T, a) = Zero(T)
  BY <1>1, <1>2, ConvertNil
<1> QED BY <1>3, <1>4 DEF w

\* What the stub allows, and is not refused, is bound.
LEMMA AllowedBinds ==
  ASSUME NEW e, NEW a, e.tool.params \in Seq(STRING), StubAllows(e), ~Undecoded(e),
         \A j \in DOMAIN e.args : Sent(e.args[j]), \A k \in DOMAIN e.kwargs : Sent(e.kwargs[k]),
         NEW i \in DOMAIN e.tool.params, IsType(e.tool.types[i]),
         ~(decode(Bound(e, i))[1] # "nil" /\ Refused(e.tool.types[i], decode(Bound(e, i))))
  PROVE  Argued(e, i, a) = convert(decode(Bound(e, i)), e.tool.types[i], a) /\ ~IsError(Argued(e, i, a))
<1> DEFINE T == e.tool.types[i]
           given == i \in DOMAIN e.args \/ e.tool.params[i] \in DOMAIN e.kwargs
<1>1. IF given THEN Accepts(pyType(T), Bound(e, i)) ELSE i >= optionalFrom(e.tool)
  BY DEF StubAllows
<1>2. CASE given
  <2>1. Sent(Bound(e, i)) /\ ~IsError(decode(Bound(e, i)))
    BY <1>2 DEF Bound, Undecoded
  <2>2. Fine(T, Bound(e, i), a)
    BY <1>1, <1>2, <2>1, TypesHonoured DEF Honoured
  <2>3. ~IsError(convert(decode(Bound(e, i)), T, a))
    BY <2>2 DEF Fine
  <2>4. Argued(e, i, a) = convert(decode(Bound(e, i)), T, a)
    BY <1>2 DEF Argued
  <2> QED BY <2>3, <2>4
<1>3. CASE ~given
  <2>1. T[1] \in Pointer
    BY <1>1, <1>3, OptionalIs
  <2>2. T[1] \in Nilable
    BY <2>1 DEF Nilable
  <2>3. Bound(e, i) = << "nil" >> /\ Argued(e, i, a) = Zero(T)
    BY <1>3, <2>2 DEF Bound, Argued
  <2> QED BY <2>2, <2>3, NilArrives, ZeroIs
<1> QED BY <1>2, <1>3

\* A call of which every argument is bound reaches the function.
LEMMA FunctionReturns ==
  ASSUME NEW e, NEW a, e.tool.params \in Seq(STRING), e.args \in Seq(Range(e.args)), StubAllows(e),
         \A i \in DOMAIN e.tool.params : ~IsError(Argued(e, i, a))
  PROVE  Function(e, a)[1] = "return"
<1> DEFINE tool == e.tool
           args == Decoded(e.args)
           kwargs == Decoded(e.kwargs)
           Given0(j) == j \in DOMAIN args \/ tool.params[j] \in DOMAIN kwargs
           Twice(j) == j \in DOMAIN args /\ tool.params[j] \in DOMAIN kwargs
           Value(j) == IF j \in DOMAIN args THEN args[j] ELSE kwargs[tool.params[j]]
           Arg(j) == CASE Twice(j) -> Error
                       [] Given0(j) /\ ~Twice(j) -> convert(Value(j), tool.types[j], a)
                       [] ~Given0(j) /\ tool.types[j][1] \in Nilable -> Zero(tool.types[j])
                       [] OTHER -> Error
           items == [j \in 1..Len(tool.params) |-> Arg(j)]
           in == bind(tool, args, kwargs, a)
           bad == Len(args) > Len(tool.params) \/ \E k \in DOMAIN kwargs : indexOf(tool.params, k) = {}
<1>1. in = IF bad THEN Error ELSE Collect("args", items)
  BY Zenon DEF bind
<1>2. DOMAIN args = DOMAIN e.args /\ DOMAIN kwargs = DOMAIN e.kwargs
  BY DEF Decoded
<1>3. ~bad
  <2>1. Len(args) = Len(e.args)
    <3>1. DOMAIN e.args = 1..Len(e.args) /\ Len(e.args) \in Nat
      BY LenProperties
    <3>2. args \in Seq({ decode(x) : x \in Range(e.args) })
      <4>1. \A j \in 1..Len(e.args) : e.args[j] \in Range(e.args)
        BY <3>1 DEF Range
      <4>2. args = [j \in 1..Len(e.args) |-> decode(e.args[j])]
        BY <3>1 DEF Decoded
      <4> QED BY <3>1, <4>1, <4>2
    <3>3. DOMAIN args = 1..Len(args) /\ Len(args) \in Nat
      BY <3>2, LenProperties
    <3> HIDE DEF args
    <3> QED BY <1>2, <3>1, <3>3
  <2>2. Len(e.args) <= Len(tool.params)
    BY DEF StubAllows
  <2>3. \A k \in DOMAIN kwargs : indexOf(tool.params, k) # {}
    BY <1>2 DEF StubAllows, indexOf
  <2>4. Len(e.args) \in Nat /\ Len(tool.params) \in Nat
    BY LenProperties
  <2> HIDE DEF args, kwargs
  <2> QED BY <2>1, <2>2, <2>3, <2>4
<1>4. ASSUME NEW i \in DOMAIN tool.params PROVE ~IsError(Arg(i))
  <2>1. ~Twice(i)
    BY <1>2 DEF StubAllows
  <2>2. Given0(i) => Value(i) = decode(Bound(e, i))
    BY DEF Decoded, Bound
  <2>3. Arg(i) = Argued(e, i, a)
    <3>1. CASE Given0(i)
      <4>1. Arg(i) = convert(Value(i), tool.types[i], a)
        BY <2>1, <3>1, Zenon
      <4> QED BY <1>2, <2>2, <3>1, <4>1, Zenon DEF Argued
    <3>2. CASE ~Given0(i) /\ tool.types[i][1] \in Nilable
      <4>1. Arg(i) = Zero(tool.types[i])
        BY <3>2, Zenon
      <4> QED BY <1>2, <3>2, <4>1, Zenon DEF Argued
    <3>3. CASE ~Given0(i) /\ tool.types[i][1] \notin Nilable
      <4>1. Arg(i) = Error
        BY <2>1, <3>3, Zenon
      <4> QED BY <1>2, <3>3, <4>1, Zenon DEF Argued
    <3> QED BY <3>1, <3>2, <3>3
  <2> HIDE DEF Arg
  <2> QED BY <2>3
<1>5. DOMAIN items = DOMAIN tool.params /\ \A i \in DOMAIN items : ~IsError(items[i])
  <2>1. DOMAIN tool.params = 1..Len(tool.params)
    BY LenProperties
  <2> HIDE DEF Arg
  <2> QED BY <1>4, <2>1
<1> HIDE DEF items, bad, in
<1>6. in = << "args", items >>
  BY <1>1, <1>3, <1>5 DEF Collect
<1>7. ~IsError(in)
  BY <1>6 DEF IsError
<1>8. Function(e, a) = IF IsError(in) THEN Raise("TypeError")
                       ELSE << "return", in[2], IF in[2] = << >> THEN << "nil" >> ELSE encode(in[2][1]) >>
  BY DEF Function, in
<1> QED BY <1>7, <1>8

LEMMA CallInvAccepts == CallInv => StubAccepted
<1> SUFFICES ASSUME CallInv, Answered("tool"), StubAllows(event), ~Undecoded(event),
                    \A i \in DOMAIN event.tool.params :
                      LET v == decode(Bound(event, i)) IN ~(v[1] # "nil" /\ Refused(event.tool.types[i], v))
             PROVE  /\ answer[1] = "return"
                    /\ \A i \in DOMAIN event.tool.params :
                         answer[2][i] = convert(decode(Bound(event, i)), event.tool.types[i], arch)
  BY DEF StubAccepted
<1>1. answer = Function(event, arch) /\ event \in Requests
  BY DEF CallInv, Faithful, Answered, CallTool
<1>2. PICK c \in Calls : event.tool = c.tool /\ event.args = c.args /\ event.kwargs = c.kwargs
  BY <1>1, RequestsAre DEF Answered
<1>3. /\ event.tool.params \in Seq(STRING) /\ event.args \in Seq(Range(event.args))
      /\ \A j \in DOMAIN event.args : Sent(event.args[j])
      /\ \A k \in DOMAIN event.kwargs : Sent(event.kwargs[k])
      /\ \A i \in DOMAIN event.tool.params : IsType(event.tool.types[i])
  BY <1>2, SentAssumption
<1>4. \A i \in DOMAIN event.tool.params :
        /\ Argued(event, i, arch) = convert(decode(Bound(event, i)), event.tool.types[i], arch)
        /\ ~IsError(Argued(event, i, arch))
  BY <1>3, AllowedBinds
<1>5. answer[1] = "return"
  BY <1>1, <1>3, <1>4, FunctionReturns
<1>6. \A i \in DOMAIN event.tool.params : answer[2][i] = Argued(event, i, arch)
  BY <1>1, <1>3, <1>5, ArgumentsAre
<1> QED BY <1>4, <1>5, <1>6

\* "The exact contract": a call that the stub of a tool allows reaches the Go
\* function with every argument where Python puts it, whatever the types of the
\* parameters and however deep the values, but for those that Refused names
\* (bind, convert, pyType).
THEOREM StubsAccepted == Spec => []StubAccepted
BY SafeCalls, CallInvAccepts, PTL
=============================================================================
