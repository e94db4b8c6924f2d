----------------------------- MODULE Arithmetic -----------------------------
(***************************************************************************)
(* Numbers and times that cross between Go and Python (value.go), and      *)
(* numbers that a tool's parameter asks for (tools/tools.go).              *)
(*                                                                         *)
(* A value is a tuple whose first entry names its kind, with what the      *)
(* conversions look at in the others.  The widths are constants: int64     *)
(* ends at MaxInt, a microsecond has Nanos nanoseconds, a second Micros    *)
(* microseconds, a day Seconds seconds.  A float is a number of halves, or *)
(* one of the numbers Inf, -Inf, NaN that stand for what is none.  It has  *)
(* digits as float64 and float32 have, so that large integers are rounded. *)
(***************************************************************************)
EXTENDS Integers

CONSTANTS
  MaxInt,     \* math.MaxInt64
  Nanos,      \* time.Microsecond
  Micros,     \* microseconds in a second
  Seconds,    \* seconds in a day
  MaxSmall,   \* math.MaxInt8
  MaxInt32,   \* math.MaxInt32, where the wire's fields end
  Double,     \* float64: exact, where its mantissas end, and units, what their
  Single,     \*   last digit may stand for, in halves; float32
  Inf, NaN    \* floats, in halves like the others

MinInt == -MaxInt - 1
IsInt64(n) == n \in MinInt..MaxInt
IsInt32(n) == n \in (-MaxInt32 - 1)..MaxInt32
Wrapped(n) == ((n - MinInt) % (2 * (MaxInt + 1))) + MinInt
Int32(n) == ((n + MaxInt32 + 1) % (2 * (MaxInt32 + 1))) - MaxInt32 - 1
\* Go's integer division goes towards zero.
Quotient(a, b) == IF a < 0 THEN -((-a) \div b) ELSE a \div b

Day == Seconds * Micros

\* The longest Duration and another day, in microseconds, fit an int64, and the
\* days of either an int32.
ASSUME ArithmeticAssumption ==
  /\ MaxInt \in Nat \ {0} /\ Nanos \in Nat \ {0} /\ Micros \in Nat \ {0} /\ Seconds \in Nat \ {0}
  /\ MaxInt \div Nanos + Day <= MaxInt
  /\ MaxInt32 \in Nat /\ Seconds <= MaxInt32 /\ Micros <= MaxInt32
  /\ (MaxInt \div Nanos) \div Day < MaxInt32
  /\ MaxSmall \in 1..(MaxInt - 1)
  /\ Inf \in Int /\ NaN \in Int /\ ~IsInt64(Quotient(Inf, 2))

\* The units are the powers of two up to one of them; no number is Inf or NaN.
ASSUME FloatAssumption ==
  \A F \in {Double, Single} :
    /\ F.exact \in Nat \ {0} /\ F.exact % 2 = 0
    /\ 1 \in F.units /\ F.units \subseteq Nat \ {0}
    /\ \A u, w \in F.units : u <= w => w % u = 0
    /\ \A u \in F.units : u = 1 \/ \E w \in F.units : u = 2 * w
    /\ \A u \in F.units : F.exact * u < Inf
    /\ Inf < NaN

Error == << "error" >>
IsError(v) == v[1] = "error"

(***************************************************************************)
(* Between Go and Python                                                   *)
(***************************************************************************)

encodeBig(n) == IF IsInt64(n) THEN << "int", n >>
                              ELSE << "bigint", n < 0, IF n < 0 THEN -n ELSE n >>

decodeBig(negative, magnitude) == << "bigInt", IF negative THEN -magnitude ELSE magnitude >>

\* The zone and the offset always go with a time.Time; nanoseconds do not.
encodeTime(wall, offset, zone) == << "datetime", wall \div Nanos, << offset >>, zone >>

\* A naive datetime is taken as UTC.
decodeDatetime(micros, offset, zone) ==
  IF offset = << >> THEN << "time", micros * Nanos, 0, "UTC" >>
                    ELSE << "time", micros * Nanos, offset[1], zone >>

encodeDelta(days, secs, micros) == << "timedelta", Int32(days), Int32(secs), Int32(micros) >>

\* A time.Duration, cut to microseconds, in Python's normal form.
encodeDuration(d) ==
  LET micros == Quotient(d, Nanos)
      days == Quotient(micros, Day) - (IF micros % Day # 0 /\ micros < 0 THEN 1 ELSE 0)
      rest == micros - days * Day
  IN encodeDelta(days, rest \div Micros, rest % Micros)

\* The longest Duration.
MaxMicros == MaxInt \div Nanos

Total(days, secs, micros) == Wrapped(days * Day + secs * Micros + micros)

\* Mutant: only the sum is compared, which may have wrapped.
decodeTimedeltaBySum(days, secs, micros) ==
  LET total == Total(days, secs, micros)
  IN IF total > MaxMicros \/ total < -MaxMicros
     THEN << "timedelta", days, secs, micros >>
     ELSE << "duration", total * Nanos >>

\* A time.Duration if it fits one: the days are compared first, since the sum
\* wraps.
decodeTimedelta(days, secs, micros) ==
  LET total == Total(days, secs, micros)
  IN IF \/ days > MaxMicros \div Day \/ days < -(MaxMicros \div Day)
        \/ total > MaxMicros \/ total < -MaxMicros
     THEN << "timedelta", days, secs, micros >>
     ELSE << "duration", total * Nanos >>

(***************************************************************************)
(* What a parameter of a number type gets                                  *)
(***************************************************************************)

Fits(n, T) ==
  CASE T[1] = "int8" -> n \in (-MaxSmall - 1)..MaxSmall
    [] T[1] \in {"int", "duration"} -> IsInt64(n)
    [] T[1] = "uint8" -> n \in 0..(2 * MaxSmall + 1)
    [] T[1] = "uint64" -> n \in 0..(2 * MaxInt + 1)

\* int64 of a float: what the hardware makes of one out of range.
toInt64(halves, arch) ==
  LET n == Quotient(halves, 2) IN
  IF IsInt64(n) THEN n
  ELSE IF arch = "amd64" \/ n < 0 THEN MinInt ELSE MaxInt

Whole(halves) == halves # NaN /\ halves % 2 = 0

\* Mutant: the fraction is cut off.
convertIntCut(v, T, arch) ==
  CASE v[1] = "int" /\ Fits(v[2], T) -> << T[1], v[2] >>
    [] v[1] = "float" /\ Fits(toInt64(v[2], arch), T) -> << T[1], toInt64(v[2], arch) >>
    [] v[1] = "bool" -> << T[1], IF v[2] THEN 1 ELSE 0 >>
    [] OTHER -> Error

\* An int for a duration is a number of seconds; a whole float and a bool are
\* converted like for any integer, to nanoseconds.
convertInt(v, T, arch) ==
  CASE v[1] = "int" /\ ~Fits(v[2], T) -> Error
    [] v[1] = "int" /\ Fits(v[2], T) /\ T[1] = "duration" ->
         << "duration", Wrapped(v[2] * Micros * Nanos) >>
    [] v[1] = "int" /\ Fits(v[2], T) /\ T[1] # "duration" -> << T[1], v[2] >>
    [] v[1] = "float" /\ Whole(v[2]) /\ Fits(toInt64(v[2], arch), T) ->
         << T[1], toInt64(v[2], arch) >>
    [] v[1] = "bool" -> << T[1], IF v[2] THEN 1 ELSE 0 >>
    [] OTHER -> Error

convertUint(v, T) ==
  IF v[1] \in {"int", "bigInt"} /\ v[2] >= 0 /\ Fits(v[2], T)
  THEN << T[1], v[2] >> ELSE Error

Size(n) == IF n < 0 THEN -n ELSE n

\* The multiple of a unit nearest to a number, the even one of two.
Turned(h, unit) ==
  LET q == h \div unit
      rest == h % unit
  IN IF 2 * rest > unit \/ (2 * rest = unit /\ q % 2 = 1) THEN (q + 1) * unit ELSE q * unit

\* float64 of a number of halves, or float32: a multiple of the unit that a number
\* of its size has; Inf if that is too large.
Rounded(h, F) ==
  LET fit == { u \in F.units : Size(h) <= F.exact * u }
      unit == CHOOSE u \in fit : \A w \in fit : u <= w
      n == Turned(h, unit)
  IN IF fit = {} \/ (Size(n) = F.exact * unit /\ 2 * unit \notin F.units)
     THEN IF h < 0 THEN -Inf ELSE Inf
     ELSE n

\* Convert to the type of the parameter.
Narrowed(h, T) == IF T[1] = "float32" /\ h # NaN THEN Rounded(h, Single) ELSE h

\* Mutant: a big integer goes through an int64.
convertFloatByInt64(v, T) ==
  CASE v[1] \in {"int", "bigInt"} -> << T[1], Narrowed(Rounded(2 * Wrapped(v[2]), Double), T) >>
    [] v[1] = "float" -> << T[1], Narrowed(v[2], T) >>
    [] OTHER -> Error

\* An integer for a float32 is rounded twice.
convertFloat(v, T) ==
  CASE v[1] \in {"int", "bigInt"} -> << T[1], Narrowed(Rounded(2 * v[2], Double), T) >>
    [] v[1] = "float" -> << T[1], Narrowed(v[2], T) >>
    [] OTHER -> Error

(***************************************************************************)
(* What is kept                                                            *)
(***************************************************************************)

\* The number a value stands for, in halves.
Halves(v) == CASE v[1] = "bool" -> IF v[2] THEN 2 ELSE 0
               [] v[1] \in {"float", "float32"} -> v[2]
               [] OTHER -> 2 * v[2]

\* The numbers that a format has.
Finite(F) == { m * u : m \in (1 - F.exact)..(F.exact - 1), u \in F.units }
Floats(F) == Finite(F) \cup {Inf, -Inf, NaN}

\* n is h, or a float nearest to it if no float is h; Inf beyond all of them.
Nearest(h, n, F) ==
  \/ n \in Finite(F) /\ \A f \in Finite(F) : Size(n - h) <= Size(f - h)
  \/ n = (IF h < 0 THEN -Inf ELSE Inf) /\ \A f \in Finite(F) : Size(f) < Size(h)

\* A float parameter gets the float nearest to the number.  A float32 gets the
\* one nearest to that, which may not be the one nearest to the number.
KeptAsFloat(v, T, g) ==
  \/ v = << "float", NaN >> /\ g[2] = NaN
  \/ T[1] = "float" /\ Nearest(Halves(v), g[2], Double)
  \/ T[1] = "float32" /\ \E n \in Floats(Double) :
       Nearest(Halves(v), n, Double) /\ Nearest(n, g[2], Single)

\* Go gets the number that code passed, or the nearest that its float type has;
\* but a float that no int64 holds becomes whatever the processor makes of it.  A
\* timedelta arrives exactly, an int for one in seconds unless that overflows.
Kept(v, T, g) ==
  /\ T[1] \in {"float", "float32"} => KeptAsFloat(v, T, g)
  /\ T[1] \in {"int", "int8", "uint8", "uint64", "bool"} =>
       \/ Halves(g) = Halves(v)
       \/ v[1] = "float" /\ T[1] = "int" /\ ~IsInt64(Quotient(v[2], 2))
  /\ T[1] = "duration" /\ v[1] = "duration" => g = v
  /\ T[1] = "duration" /\ v[1] = "int" =>
       g[2] = v[2] * Micros * Nanos \/ ~IsInt64(v[2] * Micros * Nanos)
=============================================================================
