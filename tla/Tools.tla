------------------------------- MODULE Tools -------------------------------
(***************************************************************************)
(* Tools (tools/tools.go): Go functions called from Python.  bind and      *)
(* convert turn the arguments of a call into what the parameters' types    *)
(* ask for; Signature and pyType say in a stub what may be passed.         *)
(*                                                                         *)
(* A Go type is a tuple whose first entry names it or its kind.  The       *)
(* fields of a struct are a sequence of Member records.                    *)
(***************************************************************************)
EXTENDS Values

CONSTANTS
  Attrs       \* the attributes of every object

ASSUME ToolsAssumption == \A k \in DOMAIN Attrs : Nested(Attrs[k])

Member(name, tag, type) ==
  [name |-> name, tag |-> tag, type |-> type,
   exported |-> TRUE, embedded |-> FALSE, omitEmpty |-> FALSE]

Pointer == {"pointer", "bigInt"}
Nilable == Pointer \cup {"any", "slice", "map", "bytes", "tuple", "set", "frozenset", "dict"}

jsonName(f) == fieldName(f)

\* The types that a type is made of: a []byte has bytes, a Tuple or a Dict
\* anything, a TimeDelta numbers.
TypeChildren(T) ==
  CASE T[1] \in {"pointer", "slice", "array", "map"} -> {T[2]}
    [] T[1] = "struct" -> { T[3][i].type : i \in DOMAIN T[3] }
    [] T[1] = "bytes" -> {<< "uint8" >>}
    [] T[1] \in {"tuple", "set", "frozenset", "dict"} -> {<< "any" >>}
    [] T[1] = "timedelta" -> {<< "int" >>}
    [] OTHER -> {}

TypeParts(T) == Descendants(TypeChildren, T)

\* Types that a parameter may have.
Kinds ==
  {"any", "bool", "int", "int8", "uint8", "uint64", "bigInt", "float", "float32", "str", "path",
   "bytes", "tuple", "set", "frozenset", "dict", "time", "duration", "date", "timedelta",
   "pointer", "slice", "array", "map", "struct"}

IsType(T) ==
  /\ Level(TypeChildren, T)[MaxNesting + 1] = {}
  /\ \A U \in TypeParts(T) : U[1] \in Kinds

\* reflect.Zero
ZeroGiven(of, T) ==
  CASE T[1] \in {"any", "pointer", "bigInt"} -> << "nil" >>
    [] T[1] = "bool" -> << "bool", FALSE >>
    [] T[1] \in {"int", "int8", "uint8", "uint64", "float", "float32", "duration", "date"} ->
         << T[1], 0 >>
    [] T[1] \in {"str", "path"} -> << T[1], "" >>
    [] T[1] \in {"bytes", "tuple", "set", "frozenset", "dict", "map"} -> << T[1], << >> >>
    [] T[1] = "slice" -> << "list", << >> >>
    [] T[1] = "array" -> << "list", [i \in 1..T[3] |-> of[T[2]]] >>
    [] T[1] = "struct" ->
         << "struct", [i \in DOMAIN T[3] |->
              Restrict(T[3][i], DOMAIN T[3][i] \ {"type"})
              @@ [zero |-> TRUE, value |-> of[T[3][i].type]]] >>
    [] T[1] = "time" -> << "time", 0, 0, "UTC" >>
    [] OTHER -> << "timedelta", 0, 0, 0 >>

Zero(T) ==
  LET of[U \in TypeParts(T)] == ZeroGiven(Restrict(of, TypeChildren(U)), U)
  IN ZeroGiven(Restrict(of, TypeChildren(T)), T)

(***************************************************************************)
(* Conversion of an argument                                               *)
(***************************************************************************)

sequence(v) == v[1] \in Sequence

\* What may stand for a struct or a map; the attributes of an object may.
mapping(v) ==
  \/ v[1] \in {"map", "hostObject", "classInstance"}
  \/ v[1] = "dict" /\ \A i \in DOMAIN v[2] : v[2][i][1][1] = "str"
Entries(v) ==
  CASE v[1] = "map" -> v[2]
    [] v[1] = "dict" ->
         [k \in { v[2][i][1][2] : i \in DOMAIN v[2] } |->
            v[2][CHOOSE i \in DOMAIN v[2] : v[2][i][1][2] = k][2]]
    [] OTHER -> Attrs
Entry(v, k) == IF k \in DOMAIN Entries(v) THEN Entries(v)[k] ELSE << "nil" >>

\* AssignableTo: the same type, or []any under two names, one of them none.
Assignable(v, T) ==
  \/ v[1] = T[1] /\ T[1] \notin {"map", "slice", "struct"}
  \/ v[1] = "map" /\ T = << "map", << "any" >> >>
  \/ v[1] \in Sequence /\ T = << "slice", << "any" >> >>
  \/ v[1] = "list" /\ T[1] \in {"tuple", "set", "frozenset"}

Assigned(v, T) ==
  CASE T[1] \in {"tuple", "set", "frozenset"} -> << T[1], v[2] >>
    [] T[1] = "slice" -> << "list", v[2] >>
    [] OTHER -> v

convertText(v, T) == IF v[1] \in {"str", "path"} THEN << T[1], v[2] >> ELSE Error

\* Below, of[v, T] is what converting a value to a type gives, for the values
\* in the one that is converted and the types that its type is made of.

convertItems(of, v, T, k) ==
  IF sequence(v) THEN Collect(k, [i \in DOMAIN v[2] |-> of[v[2][i], T]]) ELSE Error

convertMap(of, v, T) ==
  LET m == Entries(v)
      out == [k \in DOMAIN m |-> of[m[k], T[2]]]
  IN IF ~mapping(v) THEN Error
     ELSE IF \E k \in DOMAIN m : IsError(out[k]) THEN Error ELSE << "map", out >>

\* Fields are set by name, those of embedded structs not; what is not there
\* stays zero.
convertStruct(of, v, T) ==
  LET m == Entries(v)
      zero == Zero(T)[2]
      Set(i) == LET f == T[3][i] IN f.exported /\ jsonName(f) # "" /\ jsonName(f) \in DOMAIN m
      Value(i) == of[m[jsonName(T[3][i])], T[3][i].type]
  IN CASE ~mapping(v) -> Error
       [] mapping(v) /\ (\E i \in DOMAIN T[3] : Set(i) /\ IsError(Value(i))) -> Error
       [] OTHER -> << "struct", [i \in DOMAIN T[3] |->
            IF Set(i) THEN [zero[i] EXCEPT !.value = Value(i), !.zero = Value(i) = zero[i].value]
                      ELSE zero[i]] >>

\* A list of numbers for a []byte.
convertBytes(of, v) ==
  LET items == convertItems(of, v, << "uint8" >>, "bytes")
  IN IF IsError(items) THEN Error ELSE << "bytes", [i \in DOMAIN items[2] |-> items[2][i][2]] >>

\* A Dict is a slice of structs: a map is not one, a list of maps is.
convertDict(v) ==
  IF sequence(v) /\ \A i \in DOMAIN v[2] : mapping(v[2][i])
  THEN << "dict", [i \in DOMAIN v[2] |-> << Entry(v[2][i], "Key"), Entry(v[2][i], "Value") >>] >>
  ELSE Error

convertTimeDelta(of, v) ==
  LET part(k) == IF k \in DOMAIN Entries(v) THEN of[Entries(v)[k], << "int" >>] ELSE << "int", 0 >>
      parts == Collect("parts", [i \in 1..3 |-> part(<< "Days", "Seconds", "Microseconds" >>[i])])
  IN IF ~mapping(v) \/ IsError(parts) THEN Error
     ELSE << "timedelta", parts[2][1][2], parts[2][2][2], parts[2][3][2] >>

\* By the kind of the type, where v is not nil and has another type.
convertKind(of, v, T, arch) ==
  CASE T[1] = "pointer" ->
         LET inner == of[v, T[2]] IN IF IsError(inner) THEN Error ELSE << "pointer", inner >>
    [] T[1] \in {"int", "int8", "duration"} -> convertInt(v, T, arch)
    [] T[1] \in {"uint8", "uint64"} -> convertUint(v, T)
    [] T[1] \in {"float", "float32"} -> convertFloat(v, T)
    [] T[1] \in {"str", "path"} -> convertText(v, T)
    [] T[1] = "bytes" -> convertBytes(of, v)
    [] T[1] = "slice" -> convertItems(of, v, T[2], "list")
    [] T[1] \in {"tuple", "set", "frozenset"} -> convertItems(of, v, << "any" >>, T[1])
    [] T[1] = "dict" -> convertDict(v)
    [] T[1] = "array" ->
         IF sequence(v) /\ Len(v[2]) = T[3] THEN convertItems(of, v, T[2], "list") ELSE Error
    [] T[1] = "map" -> convertMap(of, v, T)
    [] T[1] = "struct" -> convertStruct(of, v, T)
    [] T[1] = "time" -> IF v[1] = "date" THEN << "time", v[2] * Day * Nanos, 0, "UTC" >> ELSE Error
    [] T[1] = "timedelta" -> convertTimeDelta(of, v)
    \* Structs: a big integer has no field to set, and no mapping here has a
    \* key of a date's.
    [] T[1] = "bigInt" /\ mapping(v) -> << "bigInt", 0 >>
    [] T[1] = "date" /\ mapping(v) -> Zero(T)
    [] OTHER -> Error

convertGiven(of, v, T, arch) ==
  CASE v[1] = "nil" -> IF T[1] \in Nilable THEN Zero(T) ELSE Error
    [] v[1] # "nil" /\ T[1] = "any" -> v
    [] v[1] # "nil" /\ T[1] # "any" /\ Assignable(v, T) -> Assigned(v, T)
    [] OTHER -> convertKind(of, v, T, arch)

\* The values that come up in a conversion, at once and in all.
Near(v) == {v} \cup Children(v) \cup Range(Attrs)
Reach(v) == Parts(v) \cup UNION { Parts(a) : a \in Range(Attrs) }

convert(v, T, arch) ==
  LET of[x \in Reach(v) \X TypeParts(T)] ==
        convertGiven(Restrict(of, Near(x[1]) \X TypeChildren(x[2])), x[1], x[2], arch)
  IN convertGiven(Restrict(of, Near(v) \X TypeChildren(T)), v, T, arch)

(***************************************************************************)
(* Binding of a call; a tool has params, their types, and a result type    *)
(***************************************************************************)

indexOf(params, k) == { i \in DOMAIN params : params[i] = k }

\* The Go arguments, or Error where bind raises TypeError.
bind(tool, args, kwargs, arch) ==
  LET n == Len(tool.params)
      Given(i) == i \in DOMAIN args \/ tool.params[i] \in DOMAIN kwargs
      Twice(i) == i \in DOMAIN args /\ tool.params[i] \in DOMAIN kwargs
      Value(i) == IF i \in DOMAIN args THEN args[i] ELSE kwargs[tool.params[i]]
      Arg(i) == CASE Twice(i) -> Error
                  [] Given(i) /\ ~Twice(i) -> convert(Value(i), tool.types[i], arch)
                  [] ~Given(i) /\ tool.types[i][1] \in Nilable -> Zero(tool.types[i])
                  [] OTHER -> Error
  IN IF \/ Len(args) > n
        \/ \E k \in DOMAIN kwargs : indexOf(tool.params, k) = {}
     THEN Error
     ELSE Collect("args", [i \in 1..n |-> Arg(i)])

(***************************************************************************)
(* The stub                                                                *)
(***************************************************************************)

pyTypeGiven(of, T) ==
  CASE T[1] = "any" -> << "Any" >>
    [] T[1] \in {"int", "int8", "uint8", "uint64", "bigInt"} -> << "int" >>
    [] T[1] \in {"bool", "float", "str", "bytes", "date", "path"} -> << T[1] >>
    [] T[1] = "float32" -> << "float" >>
    [] T[1] = "time" -> << "datetime" >>
    [] T[1] = "duration" -> << "timedelta" >>
    [] T[1] = "tuple" -> << "tuple" >>
    [] T[1] \in {"set", "frozenset"} -> << "set" >>
    [] T[1] = "dict" -> << "dict", << "Any" >>, << "Any" >> >>
    [] T[1] = "pointer" -> << "optional", of[T[2]] >>
    [] T[1] \in {"slice", "array"} -> << "list", of[T[2]] >>
    [] T[1] = "map" -> << "dict", << "str" >>, of[T[2]] >>
    \* typedDict: one key per exported field.
    [] T[1] = "struct" ->
         LET Shown == { i \in DOMAIN T[3] : T[3][i].exported /\ jsonName(T[3][i]) # "" }
         IN << "typed", { << jsonName(T[3][i]), of[T[3][i].type] >> : i \in Shown } >>
    \* monty.TimeDelta is a struct like any other.
    [] OTHER -> << "typed", { << k, << "int" >> >> : k \in {"Days", "Seconds", "Microseconds"} } >>

pyType(T) ==
  LET of[U \in TypeParts(T)] == pyTypeGiven(Restrict(of, TypeChildren(U)), U)
  IN pyTypeGiven(Restrict(of, TypeChildren(T)), T)

\* Mutant: from the first pointer on, whatever follows.
optionalFromFirst(tool) ==
  CHOOSE i \in 1..(Len(tool.params) + 1) :
    /\ i <= Len(tool.params) => tool.types[i][1] \in Pointer
    /\ \A j \in 1..(i - 1) : tool.types[j][1] \notin Pointer

\* The parameters from here on have "= None".
optionalFrom(tool) ==
  CHOOSE i \in 1..(Len(tool.params) + 1) :
    /\ \A j \in i..Len(tool.params) : tool.types[j][1] \in Pointer
    /\ i = 1 \/ tool.types[i - 1][1] \notin Pointer
=============================================================================
