---------------------------- MODULE MCHostCall ----------------------------
(***************************************************************************)
(* An instance of HostCall: values around every edge of the conversions,   *)
(* a tool per type, two mounts one of whose names begins like the other.   *)
(***************************************************************************)
EXTENDS HostCall

MCKeys == << "A", "Days", "K", "Key", "Microseconds", "Seconds", "Value", "X", "a", "b", "base" >>
MCAttrs == [k \in {"a"} |-> << "int", 1 >>]

\* Mantissas of 4 and 3 binary digits; the float32s end at 112, the float64s at 240.
MCDouble == [ exact |-> 16, units |-> {1, 2, 4, 8, 16, 32} ]
MCSingle == [ exact |-> 8, units |-> {1, 2, 4, 8, 16, 32} ]

Num(n) == << "int", n >>
Str(s) == << "str", s >>
Nil == << "nil" >>

Numbers == { << "bool", TRUE >>, << "bool", FALSE >>,
             Num(0), Num(1), Num(-1), Num(7), Num(8), Num(15), Num(16), Num(63), Num(-64),
             << "bigint", FALSE, 64 >>, << "bigint", FALSE, 127 >>, << "bigint", FALSE, 128 >>,
             << "bigint", TRUE, 65 >>,
             << "float", 0 >>, << "float", 1 >>, << "float", 2 >>, << "float", -3 >>,
             << "bigint", FALSE, 73 >>, << "bigint", FALSE, 250 >>, << "bigint", TRUE, 250 >>,
             << "float", 15 >>, << "float", 128 >>, << "float", -128 >>, << "float", -144 >>,
             << "float", Inf >>, << "float", -Inf >>, << "float", NaN >> }

\* Python's timedelta, in its normal form, up to and over the edge of a
\* Duration (21 microseconds, 3 days and a half), and where the sum wraps.
Deltas == { << "timedelta", d, s, m >> : d \in {-22, -11, -4, -3, -1, 0, 1, 3, 4, 10, 11, 22},
                                        s \in 0..1, m \in 0..2 }

Moments == { << "datetime", 7, << >>, "" >>, << "datetime", 7, << 0 >>, "UTC" >>,
             << "datetime", 7, << 1 >>, "" >>,
             << "date", 1 >>, << "clock", 3, << >>, "" >>, << "clock", 3, << 1 >>, "CET" >>,
             << "timezone", 1, "CET" >> }

Texts == { Str(""), Str("a"), Str("b"), << "path", "a" >>,
           << "bytes", << >> >>, << "bytes", << 1 >> >> }

Others0 == { Nil, << "ellipsis" >>, << "exception", "E", << >> >>, << "exception", "E", << "" >> >>,
             << "exception", "E", << "m" >> >>,
             << "type", "int", "builtin" >>, << "type", "C", "host" >>, << "type", "D", "host" >>,
             << "type", "S", "sandbox" >>,
             << "instance", "host", "o" >>, << "instance", "host", "p" >>,
             << "instance", "sandbox", "o" >>,
             << "function", "f", "doc" >>, << "builtin", "len" >>,
             << "fileHandle", "a", "r", 0 >>,
             << "repr", "<x>" >>, << "cycle", "..." >>, << "uuid", "u" >> }

Scalars == Numbers \cup Deltas \cup Moments \cup Texts \cup Others0

Few == { Nil, Num(1), << "bool", TRUE >>, << "bigint", FALSE, 64 >>, Str("a"), << "float", 1 >>,
         << "datetime", 7, << >>, "" >>, << "repr", "<x>" >> }

Pair(k, v) == << k, v >>
DictOf(pairs) == << "dict", pairs >>
Dicts == { DictOf(<< >>) }
  \cup { DictOf(<< Pair(k, v) >>) : k \in {Str("a"), Str("Key"), Num(1)}, v \in Few }
  \cup { DictOf(<< Pair(k, v), Pair(Str("a"), Nil) >>) :
           k \in {Str("b"), Num(1), << "tuple", << Num(1) >> >>}, v \in Few }

Lists(S) == { << k, << >> >> : k \in Sequence } \cup { << k, << v >> >> : k \in Sequence, v \in S }
            \cup { << k, << v, Num(1) >> >> : k \in {"list", "tuple"}, v \in S }

MCEchoed == Scalars \cup Dicts \cup Lists(Few \cup Dicts)
  \cup { << "namedTuple", "T", << "x" >>, << v >> >> : v \in Few \cup Dicts }

MCArguments ==
  Numbers \cup Moments \cup Texts \cup Dicts \cup Lists(Few \ {<< "repr", "<x>" >>})
  \cup { Nil, << "timedelta", 1, 0, 1 >>, << "timedelta", 11, 0, 0 >>, << "instance", "host", "o" >>,
         << "list", << Num(1), Num(8) >> >>,
         << "list", << DictOf(<< Pair(Str("a"), Num(1)) >>) >> >>,
         DictOf(<< Pair(Str("a"), Num(7)), Pair(Str("b"), Str("b")) >>),
         DictOf(<< Pair(Str("b"), Str("b")), Pair(Str("base"), DictOf(<< Pair(Str("a"), Num(1)) >>)) >>),
         DictOf(<< Pair(Str("Days"), Num(1)), Pair(Str("Seconds"), Num(1)),
                   Pair(Str("Microseconds"), Num(0)) >>),
         DictOf(<< Pair(Str("Days"), << "bigint", FALSE, 64 >>), Pair(Str("Seconds"), Num(1)),
                   Pair(Str("Microseconds"), Num(0)) >>),
         << "uuid", "u" >> }

Anything == << "any" >>
Base == << "struct", "Base", << Member("a", "", << "int" >>) >> >>
Record == << "struct", "Record", << Member("a", "", << "int8" >>),
                                    [Member("B", "b", << "str" >>) EXCEPT !.omitEmpty = TRUE],
                                    Member("skip", "-", << "int" >>),
                                    [Member("own", "", << "int" >>) EXCEPT !.exported = FALSE] >> >>
Tagged == << "struct", "Tagged", << Member("A", "a", << "int" >>) >> >>
Outer == << "struct", "Outer", << [Member("base", "", Base) EXCEPT !.embedded = TRUE],
                                  Member("B", "b", << "str" >>) >> >>

Types == { << k >> : k \in {"any", "bool", "int", "int8", "uint8", "uint64", "bigInt", "float",
                            "float32", "str", "path", "bytes", "tuple", "set", "frozenset", "dict", "time", "duration",
                            "date", "timedelta"} }
  \cup { << "pointer", << "int" >> >>, << "pointer", Base >>, << "slice", Anything >>, << "slice", << "int8" >> >>,
         << "slice", Base >>, << "array", << "int" >>, 2 >>, << "map", Anything >>, << "map", << "int" >> >>,
         Base, Record, Tagged, Outer }

(***************************************************************************)
(* Registries: two packages have a type Item, and one has a Record2, which *)
(* is also what the second anonymous struct would be called                *)
(***************************************************************************)

ItemA == << "struct", "Item", << Member("a", "", << "int" >>) >> >>
ItemB == << "struct", "Item", << Member("B", "b", << "slice", ItemA >>) >> >>
Record2 == << "struct", "Record2", << Member("a", "", << "str" >>) >> >>
Unnamed == << "struct", "", << Member("a", "", << "pointer", Record2 >>) >> >>

Registration(id, name, async, types, returned) ==
  [ id |-> id, name |-> name, async |-> async, types |-> types, result |-> returned,
    named |-> << >>, fn |-> "function" ]

Registrations ==
  { Registration(1, "f", FALSE, << ItemA, << "pointer", << "int" >> >> >>, ItemB),
    Registration(2, "f", TRUE, << << "map", ItemB >> >>, << >>),
    Registration(3, "g", TRUE, << ItemB, Record2 >>, << "timedelta" >>),
    Registration(4, "g", FALSE, << Unnamed >>, << "slice", ItemA >>),
    [Registration(5, "h", FALSE, << Unnamed, << "int" >> >>, ItemA) EXCEPT !.named = << "", "n" >>],
    [Registration(6, "h", TRUE, << << "int" >> >>, << >>) EXCEPT !.fn = "variadic"],
    [Registration(7, "h", TRUE, << << "int" >> >>, << >>) EXCEPT !.named = << "m", "n" >>] }

Own(made, sync, async) == [ made |-> made, sync |-> sync, async |-> async ]
MCRegistered ==
  [ tools : UNION { [1..n -> Registrations] : n \in 0..3 }, later : UNION { [1..n -> Registrations] : n \in 0..1 },
    own : { Own(FALSE, << >>, << >>), Own(TRUE, << >>, << >>), Own(TRUE, [f |-> 8], [g |-> 9]) } ]

(***************************************************************************)
(* Errors: an exception that a run gave back, one of the host's own, in    *)
(* wrappers; errors of the system, and others                              *)
(***************************************************************************)

Leaf == { Exception("E", << << "m" >> >>, << "there" >>, << "json" >>), Exception("E", << << "m" >> >>, Empty, Empty),
          Exception("KeyError", Empty, << "there" >>, Empty), Plainly("oops"), Sentinel("ErrNotHandled") }
        \cup { Sentinel(n) : n \in DOMAIN Errnos \cup {"ErrInvalid"} }
MCGoErrors == Leaf \cup { Wrap(e) : e \in Leaf } \cup { Wrap(Wrap(e)) : e \in Leaf }

Tool1(T) == [ params |-> << "x" >>, types |-> << T >> ]
Tool2(T, U) == [ params |-> << "x", "y" >>, types |-> << T, U >> ]

Given(t, args, kwargs) == [ tool |-> t, args |-> args, kwargs |-> kwargs ]
Named(x, v) == [k \in {x} |-> v]

Pairs == { Tool2(<< "int" >>, << "pointer", << "int" >> >>),
           Tool2(<< "pointer", << "int" >> >>, << "int" >>),
           Tool2(<< "slice", Anything >>, << "bigInt" >>) }
Some == { Nil, Num(1), Str("a"), << "list", << >> >> }

MCCalls ==
  UNION { {Given(t, << >>, << >>)} \cup { Given(t, << v >>, << >>) : v \in MCArguments }
          \cup { Given(t, << >>, Named("x", v)) : v \in Few \ {<< "repr", "<x>" >>} }
          : t \in { Tool1(T) : T \in Types } }
  \cup UNION { { Given(t, args, kwargs) : args \in UNION { [1..n -> Some] : n \in 0..2 },
                 kwargs \in UNION { [by -> Some] : by \in SUBSET {"x", "y", "z"} } }
               : t \in Pairs }
  \cup { Given([ params |-> << >>, types |-> << >> ], args, << >>) : args \in { << >>, << Nil >> } }

(***************************************************************************)
(* Mounts, OS calls                                                        *)
(***************************************************************************)

MCSpelling == [ d |-> << "d" >>, db |-> << "d", "b" >>, e |-> << "e" >> ]

Fs(mount, f) == [ kind |-> "fs", mount |-> mount, files |-> f ]
TheEnv == [ kind |-> "env", vars |-> [k \in {"K", "X"} |-> IF k = "K" THEN "a" ELSE "bad"] ]
TheClock == [ kind |-> "clock", now |-> << "time", 25, 1, "CET" >> ]
NoHandler == [ kind |-> "nil" ]

MCMounts == { << >>, << Fs(<< "d" >>, "one"), NoHandler, Fs(<< "", "db", "." >>, "two"), TheEnv, TheClock >>,
              << Fs(<< "d", "e" >>, "one"), Fs(<< >>, "two") >>, << Fs(<< >>, "one"), Fs(<< "d" >>, "two") >> }

OSPath == { << >>, << "d" >>, << "d", "e" >>, << "db" >>, << "db", "e" >>, << "e" >>,
            << "d", "", "e" >>, << "d", "..", "db" >>, << "..", "d", ".", "d" >>, << "d", "d", "e" >>, << "d", "e", "e" >> }

Call == [ name |-> "", path |-> << >>, dest |-> << >>, key |-> "", default |-> Nil, tz |-> << >> ]
MCAsks ==
  { [Call EXCEPT !.name = n, !.path = p] : n \in {"resolve", "iterdir", "stat"}, p \in OSPath }
  \cup { [Call EXCEPT !.name = "rename", !.path = p, !.dest = q] : p, q \in OSPath }
  \cup { [Call EXCEPT !.name = "getenv", !.key = k, !.default = v] :
           k \in {"K", "X", "none"}, v \in Few \cup Moments \cup Others0 }
  \cup { [Call EXCEPT !.name = "unknown"] }
  \cup { [Call EXCEPT !.name = n] : n \in {"get_environ", "date_today"} }
  \cup { [Call EXCEPT !.name = "datetime_now", !.tz = z] : z \in { << >>, << 0 >>, << 2 >> } }

MCOSRequests ==
  { osCallFromProto(c)[2] : c \in { d \in MCAsks : ~IsError(osCallFromProto(d)) } }

Tree(names, f) == [n \in names |-> IF n = f THEN "file" ELSE "dir"]
MCStored ==
  { [m \in {"one", "two"} |-> IF m = "one" THEN a ELSE Tree({<< "d" >>}, << >>)] :
    a \in { Tree({}, << >>),
            Tree({<< "d" >>, << "d", "e" >>, << "e" >>}, << "d", "e" >>),
            Tree({<< "d" >>, << "d", "d" >>, << "d", "d", "e" >>, << "e" >>}, << "d", "d", "e" >>),
            Tree({<< "d" >>, << "d", "e" >>, << "d", "d" >>, << "e" >>, << "e", "e" >>}, << "e", "e" >>) } }
=============================================================================
