------------------------------- MODULE Values -------------------------------
(***************************************************************************)
(* The value codec (value.go): Go values on the host, wire values in the   *)
(* sandbox.                                                                *)
(*                                                                         *)
(* A value is a tuple whose first entry names its kind, with what the      *)
(* conversions look at in the others.  Kinds that both sides have in the   *)
(* same form share a name.  What is done with numbers is in Arithmetic.    *)
(***************************************************************************)
EXTENDS Arithmetic, Sequences, SequencesExt, FiniteSets

CONSTANTS
  Keys,       \* the strings in use, sorted
  BadText,    \* strings that are not UTF-8
  Known,      \* host objects and classes in the session's objectStore
  MaxNesting  \* bound: what is in what is in a value, or in a type

ASSUME ValuesAssumption == MaxNesting \in Nat /\ Keys \in Seq(STRING)

\* Kinds that a codec hands on as they are.
Plain == {"nil", "bool", "float", "bytes", "ellipsis", "notImplemented",
          "date", "path", "fileHandle"}
Sequence == {"list", "tuple", "set", "frozenset"}
Integer == {"int", "int8", "uint64", "bigInt"}

(***************************************************************************)
(* Values in values.  The codec goes down into them: an operator that ends *)
(* in Given says what becomes of a value given what becomes of those in    *)
(* it, "of", and a function over all the parts of a value puts it together.*)
(***************************************************************************)

\* What a value of either side holds.
Children(v) ==
  CASE v[1] \in Sequence -> Range(v[2])
    [] v[1] = "namedTuple" -> Range(v[4])
    [] v[1] = "dict" -> { v[2][i][j] : i \in DOMAIN v[2], j \in 1..2 }
    [] v[1] = "map" -> Range(v[2])
    [] v[1] = "struct" -> { v[2][i].value : i \in DOMAIN v[2] }
    [] v[1] \in {"pointer", "named"} -> { v[2] }
    [] OTHER -> {}

\* What is n steps below the top of a tree, and all that is in it.
Level(Below(_), top) ==
  LET level[n \in 0..(MaxNesting + 1)] ==
        IF n = 0 THEN {top} ELSE UNION { Below(p) : p \in level[n - 1] }
  IN level
Descendants(Below(_), top) == UNION { Level(Below, top)[n] : n \in 0..MaxNesting }

Parts(v) == Descendants(Children, v)
Nested(v) == Level(Children, v)[MaxNesting + 1] = {}

(***************************************************************************)
(* Go to Python                                                            *)
(***************************************************************************)

\* An empty message is no argument.
encodeException(type, message) ==
  << "exception", type, IF message = "" THEN << >> ELSE << message >> >>

\* A collection of kind k, unless one of its items does not encode.
Collect(k, items) ==
  IF \E i \in DOMAIN items : IsError(items[i]) THEN Error ELSE << k, items >>

\* structToMap: exported fields by their json name; an embedded struct without
\* a tag gives its fields to the outer one, in the order of declaration.
fieldName(f) == IF f.tag = "-" THEN "" ELSE IF f.tag = "" THEN f.name ELSE f.tag

Over(a, b) == [k \in DOMAIN a \cup DOMAIN b |-> IF k \in DOMAIN b THEN b[k] ELSE a[k]]

\* Mutant: tags are looked at only to leave a field out.
structToMapByName(v) ==
  LET Fields(f) == IF ~f.exported \/ fieldName(f) = "" \/ (f.omitEmpty /\ f.zero) THEN << >>
                   ELSE [k \in {f.name} |-> f.value]
  IN FoldLeft(LAMBDA m, f : Over(m, Fields(f)), << >>, v[2])

structToMapGiven(of, v) ==
  LET Fields(f) ==
        IF ~f.exported \/ fieldName(f) = "" THEN << >>
        ELSE IF f.embedded /\ f.tag = "" THEN of[f.value]
        ELSE IF f.omitEmpty /\ f.zero THEN << >>
        ELSE [k \in {fieldName(f)} |-> f.value]
  IN FoldLeft(LAMBDA m, f : Over(m, Fields(f)), << >>, v[2])

structToMap(v) ==
  LET of[p \in Parts(v)] == structToMapGiven(Restrict(of, Children(p)), p)
  IN structToMapGiven(Restrict(of, Children(v)), v)

\* The keys of a map, in order.
SortedKeys(m) ==
  LET upTo[n \in 0..Len(Keys)] ==
        IF n = 0 THEN << >>
        ELSE IF Keys[n] \in DOMAIN m THEN Append(upTo[n - 1], Keys[n]) ELSE upTo[n - 1]
  IN upTo[Len(Keys)]

\* What stands for something that stays where it is.  Of the types only the
\* builtin ones go in, of the objects and classes the host's own.
encodeReference(v) ==
  CASE v[1] = "func" -> IF v[4] THEN << "builtin", v[2] >> ELSE << "function", v[2], v[3] >>
    [] v[1] = "type" /\ v[3] = "builtin" -> v
    [] v[1] = "hostObject" -> << "instance", "host", v[2] >>
    [] v[1] = "hostClass" -> << "type", v[2], "host" >>
    [] v[1] = "goError" -> encodeException("RuntimeError", v[2])
    [] OTHER -> Error

encodeText(s) == IF s \in BadText THEN Error ELSE << "str", s >>

\* The items of v[n], each as it is made.
Items(of, v, n) == [i \in DOMAIN v[n] |-> of[v[n][i]]]

\* A dict, unless one of its keys or values does not encode.
Dict(wire) ==
  IF \E i \in DOMAIN wire : IsError(wire[i][1]) \/ IsError(wire[i][2])
  THEN Error ELSE << "dict", wire >>

encodePairs(of, pairs) == Dict([i \in DOMAIN pairs |-> << of[pairs[i][1]], of[pairs[i][2]] >>])

encodeStringMap(of, m) ==
  LET keys == SortedKeys(m)
  IN Dict([i \in DOMAIN keys |-> << encodeText(keys[i]), of[m[keys[i]]] >>])

namedTuple(v, items) == IF IsError(items) THEN Error ELSE << "namedTuple", v[2], v[3], items[2] >>

\* A struct of this package, by the names of its fields in order.
RecordOf(names, wire) == << "dict", [i \in DOMAIN names |-> << << "str", names[i] >>, wire[i] >>] >>

\* What a named type or a pointer hides from the type switch.  A type defined
\* as a Tuple, a set or a Dict is a slice to reflection, one defined as a
\* NamedTuple a struct, as a Duration an integer.  Types defined as the other
\* structs of this package are left out.
encodeReflect(of, v) ==
  LET x == v[2]
      y == of[x]
  IN
  IF v[1] = "pointer" \/ IsError(y) THEN y ELSE
  CASE x[1] \in Sequence -> << "list", y[2] >>
    [] x[1] = "dict" ->
         << "list", [i \in DOMAIN y[2] |-> RecordOf(<< "Key", "Value" >>, y[2][i])] >>
    [] x[1] = "namedTuple" ->
         LET names == << "list", [i \in DOMAIN x[3] |-> encodeText(x[3][i])] >>
         IN IF IsError(encodeText(x[2])) \/ (\E i \in DOMAIN x[3] : IsError(names[2][i])) THEN Error
            ELSE RecordOf(<< "Fields", "TypeName", "Values" >>,
                          << names, << "str", x[2] >>, << "list", y[4] >> >>)
    [] x[1] = "duration" -> encodeBig(x[2])
    [] x[1] \in {"bool", "float", "float32", "str", "bytes", "map", "struct"} \cup Integer -> of[x]
    [] OTHER -> Error

encodeGiven(of, v) ==
  CASE v[1] \in Plain -> v
    [] v[1] = "str" -> encodeText(v[2])
    [] v[1] \in Integer -> encodeBig(v[2])
    [] v[1] = "float32" -> << "float", v[2] >>
    [] v[1] \in Sequence -> Collect(v[1], Items(of, v, 2))
    [] v[1] = "namedTuple" -> namedTuple(v, Collect("list", Items(of, v, 4)))
    [] v[1] = "map" -> encodeStringMap(of, v[2])
    [] v[1] = "dict" -> encodePairs(of, v[2])
    [] v[1] = "struct" -> encodeStringMap(of, structToMap(v))
    [] v[1] = "time" -> encodeTime(v[2], v[3], v[4])
    [] v[1] = "duration" -> encodeDuration(v[2])
    [] v[1] = "timedelta" -> encodeDelta(v[2], v[3], v[4])
    \* The name of the zone goes with the offset or not at all.
    [] v[1] = "clock" -> << "clock", v[2], v[3], IF v[3] = << >> THEN "" ELSE v[4] >>
    [] v[1] = "location" -> << "timezone", v[2], v[3] >>
    [] v[1] = "exception" -> encodeException(v[2], v[3])
    [] v[1] \in {"pointer", "named"} -> encodeReflect(of, v)
    [] OTHER -> encodeReference(v)

\* Of a struct, what its map holds.
Encoded(v) == IF v[1] = "struct" THEN Range(structToMap(v)) ELSE Children(v)

encode(v) ==
  LET of[p \in Parts(v)] == encodeGiven(Restrict(of, Encoded(p)), p)
  IN encodeGiven(Restrict(of, Encoded(v)), v)

(***************************************************************************)
(* Python to Go                                                            *)
(***************************************************************************)

\* A dict whose keys are all strings is a map; an empty one too.
decodeDict(of, pairs) ==
  LET items == [i \in DOMAIN pairs |-> << of[pairs[i][1]], of[pairs[i][2]] >>]
      key(i) == items[i][1]
      value(k) == LET i == CHOOSE j \in DOMAIN items : key(j)[2] = k IN items[i][2]
  IN IF \E i \in DOMAIN items : IsError(items[i][1]) \/ IsError(items[i][2]) THEN Error
     ELSE IF \E i \in DOMAIN items : key(i)[1] # "str" THEN << "dict", items >>
     ELSE << "map", [k \in { key(i)[2] : i \in DOMAIN items } |-> value(k)] >>

decodeType(known, name, origin) ==
  IF origin = "host" /\ name \in known THEN << "hostClass", name >> ELSE << "type", name, origin >>

decodeInstance(known, origin, object) ==
  IF origin = "host" /\ object \in known THEN << "hostObject", object >>
                                         ELSE << "classInstance", origin, object >>

decodeGiven(known, of, w) ==
  CASE w[1] \in Plain \cup {"str", "int"} -> w
    [] w[1] = "bigint" -> decodeBig(w[2], w[3])
    [] w[1] \in Sequence -> Collect(w[1], Items(of, w, 2))
    [] w[1] = "namedTuple" -> namedTuple(w, Collect("list", Items(of, w, 4)))
    [] w[1] = "dict" -> decodeDict(of, w[2])
    [] w[1] = "datetime" -> decodeDatetime(w[2], w[3], w[4])
    [] w[1] = "timedelta" -> decodeTimedelta(w[2], w[3], w[4])
    [] w[1] = "clock" -> w
    [] w[1] = "timezone" -> << "location", w[2], w[3] >>
    [] w[1] = "exception" -> << "exception", w[2], IF w[3] = << >> THEN "" ELSE w[3][1] >>
    [] w[1] = "function" -> << "func", w[2], w[3], FALSE >>
    [] w[1] = "builtin" -> << "func", w[2], "", TRUE >>
    [] w[1] = "type" -> decodeType(known, w[2], w[3])
    [] w[1] = "instance" -> decodeInstance(known, w[2], w[3])
    [] w[1] \in {"repr", "cycle"} -> << "repr", w[2] >>
    [] OTHER -> Error

\* What a codec makes of a wire value whose store knows these host objects.
decodeIn(known, w) ==
  LET of[p \in Parts(w)] == decodeGiven(known, Restrict(of, Children(p)), p)
  IN decodeGiven(known, Restrict(of, Children(w)), w)

\* With the store of the session, and with none.
decode(w) == decodeIn(Known, w)
decodeBare(w) == decodeIn({}, w)

(***************************************************************************)
(* What the sandbox sends                                                  *)
(***************************************************************************)

Utf8 == STRING \ BadText

\* One value, apart from those in it.  Integers of 64 bits have a form of their
\* own; times are in normal form; the keys of a dict differ.
IsWire(w) ==
  CASE w[1] \in {"nil", "ellipsis", "notImplemented"} -> w = << w[1] >>
    [] w[1] = "bool" -> w \in {"bool"} \X BOOLEAN
    [] w[1] = "int" -> w \in {"int"} \X (MinInt..MaxInt)
    [] w[1] = "bigint" -> w \in {"bigint"} \X BOOLEAN \X Nat
    [] w[1] = "float" -> w \in {"float"} \X Floats(Double)
    [] w[1] = "date" -> w \in {"date"} \X Int
    [] w[1] = "str" -> w \in {"str"} \X Utf8
    [] w[1] \in Sequence -> w = << w[1], w[2] >> /\ w[2] \in Seq(Range(w[2]))
    [] w[1] = "namedTuple" -> w = << w[1], w[2], w[3], w[4] >> /\ w[4] \in Seq(Range(w[4]))
    [] w[1] = "dict" ->
         /\ w = << w[1], w[2] >> /\ w[2] \in Seq(Range(w[2]))
         /\ \A i, j \in DOMAIN w[2] : w[2][i][1] = w[2][j][1] => i = j
         /\ \A i \in DOMAIN w[2] : w[2][i][1][1] = "str" => w[2][i][1][2] \in Range(Keys)
    [] w[1] = "datetime" -> w \in {"datetime"} \X Int \X Seq(Int) \X Utf8 /\ Len(w[3]) <= 1
    [] w[1] = "timedelta" -> /\ w \in {"timedelta"} \X Int \X (0..(Seconds - 1)) \X (0..(Micros - 1))
                            /\ IsInt32(w[2])
    [] w[1] = "clock" -> w = << w[1], w[2], w[3], w[4] >> /\ (w[3] = << >> => w[4] = "")
    [] w[1] = "exception" -> w \in {"exception"} \X STRING \X Seq(STRING) /\ Len(w[3]) <= 1
    [] w[1] = "builtin" -> w = << w[1], w[2] >>
    [] w[1] \in {"timezone", "function", "type", "instance"} -> w = << w[1], w[2], w[3] >>
    [] OTHER -> w[1] \in {"bytes", "path", "fileHandle", "repr", "cycle", "uuid"}

Sent(w) == Nested(w) /\ \A p \in Parts(w) : IsWire(p)

(***************************************************************************)
(* Reference: when Python holds two values equal                           *)
(***************************************************************************)

\* A wire value up to the order of a dict and the form of an integer.
MeaningGiven(of, w) ==
  CASE w[1] = "bigint" -> << "int", IF w[2] THEN -w[3] ELSE w[3] >>
    [] w[1] = "dict" -> << "dict", { << of[w[2][i][1]], of[w[2][i][2]] >> : i \in DOMAIN w[2] } >>
    [] w[1] \in {"set", "frozenset"} -> << w[1], { of[w[2][i]] : i \in DOMAIN w[2] } >>
    [] w[1] \in {"list", "tuple"} -> << w[1], Items(of, w, 2) >>
    [] w[1] = "namedTuple" -> << w[1], w[2], w[3], Items(of, w, 4) >>
    [] OTHER -> w

Meaning(w) ==
  LET of[p \in Parts(w)] == MeaningGiven(Restrict(of, Children(p)), p)
  IN MeaningGiven(Restrict(of, Children(w)), w)

\* What the codec is known to change: a naive datetime comes back aware, and an
\* exception whose argument is the empty string without it.
Changed(w) ==
  \E p \in Parts(w) : \/ p[1] = "datetime" /\ p[3] = << >>
                      \/ p[1] = "exception" /\ p[3] = << "" >>

\* What has no Go form that may go back in, whose store knows these objects.
Opaque(known, w) ==
  \E p \in Parts(w) : \/ p[1] \in {"repr", "cycle", "uuid"}
                      \/ p[1] = "type" /\ p[3] # "builtin" /\ ~(p[3] = "host" /\ p[2] \in known)
                      \/ p[1] = "instance" /\ ~(p[2] = "host" /\ p[3] \in known)
=============================================================================
