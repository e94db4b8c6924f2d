------------------------------ MODULE Registry ------------------------------
(***************************************************************************)
(* Registry (tools/tools.go): the tools a program registers, the stub that *)
(* declares them and the options that run them.                            *)
(*                                                                         *)
(* A registration is the record of a tool that is not yet checked, with    *)
(* the shape of its Go function and a number of its own.  A result type    *)
(* << >> stands for none.  No struct here contains itself.                 *)
(***************************************************************************)
EXTENDS Tools, TLC

\* dicts: the struct types, with the name of the class each has in the stub.
New0 == [ tools |-> << >>, order |-> << >>, dicts |-> << >>, names |-> {}, panicked |-> FALSE ]

TypeName(T) == IF T[1] = "struct" THEN T[2] ELSE "TimeDelta"

\* The fields that the class of a struct has.
ShownFields(T) ==
  IF T[1] = "struct" THEN SelectSeq(T[3], LAMBDA f : f.exported /\ jsonName(f) # "")
  ELSE [i \in 1..3 |-> Member(<< "Days", "Seconds", "Microseconds" >>[i], "", << "int" >>)]

\* Mutant: types of different packages share a name.
numberedNot(names, name) == name

\* name, or name2, name3, ...: the first that is not in use.
numbered(names, name) ==
  LET Name(i) == IF i = 1 THEN name ELSE name \o ToString(i)
      n == CHOOSE i \in 1..(Cardinality(names) + 1) :
             Name(i) \notin names /\ \A j \in 1..(i - 1) : Name(j) \in names
  IN Name(n)

\* The types that get a class, in the order in which pyType comes upon them: a
\* struct before its fields are looked at.
structsGiven(of, T) ==
  CASE T[1] \in {"pointer", "slice", "array", "map"} -> of[T[2]]
    [] T[1] \in {"struct", "timedelta"} ->
         << T >> \o FlattenSeq([i \in DOMAIN ShownFields(T) |-> of[ShownFields(T)[i].type]])
    [] OTHER -> << >>

structs(T) ==
  LET of[U \in TypeParts(T)] == structsGiven(Restrict(of, TypeChildren(U)), U)
  IN structsGiven(Restrict(of, TypeChildren(T)), T)

\* A struct that has its class has those of its fields too.
typedDict(r, T) ==
  IF T \in DOMAIN r.dicts THEN r
  ELSE LET own == IF TypeName(T) # "" THEN TypeName(T)
                  ELSE "Record" \o ToString(Cardinality(DOMAIN r.dicts) + 1)
           name == numbered(r.names, own)
       IN [r EXCEPT !.names = @ \cup {name}, !.dicts = (T :> name) @@ @]

\* What pyType notes of a type.
registered(r, T) == FoldLeft(typedDict, r, structs(T))

(***************************************************************************)
(* Add, AddAsync                                                           *)
(***************************************************************************)

\* What makes add panic, before it changes anything.
Unfit(t) == t.fn \in {"notFunction", "variadic", "secondNoError", "threeResults"}
            \/ Len(t.named) > Len(t.types)

\* Names that are missing or empty are made up.
Params(t) ==
  [i \in DOMAIN t.types |-> IF i \in DOMAIN t.named /\ t.named[i] # "" THEN t.named[i]
                                                        ELSE "arg" \o ToString(i - 1)]

\* A name that is registered again keeps its place.
add(r, t) ==
  IF r.panicked \/ Unfit(t) THEN [r EXCEPT !.panicked = TRUE]
  ELSE LET shown == FoldLeft(registered, r, IF t.result = << >> THEN t.types
                                            ELSE Append(t.types, t.result))
           tool == [ params |-> Params(t), types |-> t.types, result |-> t.result,
                     async |-> t.async, id |-> t.id ]
       IN [shown EXCEPT !.tools = (t.name :> tool) @@ @,
                        !.order = IF t.name \in DOMAIN r.tools THEN @ ELSE Append(@, t.name)]

AddAll(r, ts) == FoldLeft(add, r, ts)
New(ts) == AddAll(New0, ts)

(***************************************************************************)
(* Options and stubs                                                       *)
(***************************************************************************)

Tools0(r, async) == { name \in DOMAIN r.tools : r.tools[name].async = async }
Functions(r) == [name \in Tools0(r, FALSE) |-> r.tools[name].id]
AsyncFunctions(r) == [name \in Tools0(r, TRUE) |-> r.tools[name].id]

\* The registry's functions over those that are there; nothing is taken out.
Options(r, opts) == [ sync |-> Functions(r) @@ opts.sync, async |-> AsyncFunctions(r) @@ opts.async ]

\* An annotation, with the name of the class for a struct.
annotationGiven(r, of, T) ==
  CASE T[1] = "pointer" -> << "optional", of[T[2]] >>
    [] T[1] \in {"slice", "array"} -> << "list", of[T[2]] >>
    [] T[1] = "map" -> << "dict", << "str" >>, of[T[2]] >>
    [] T[1] \in {"struct", "timedelta"} -> << "class", r.dicts[T] >>
    [] OTHER -> pyType(T)

annotation(r, T) ==
  LET of[U \in TypeParts(T)] == annotationGiven(r, Restrict(of, TypeChildren(U)), U)
  IN annotationGiven(r, Restrict(of, TypeChildren(T)), T)

Signature(r, name) ==
  LET t == r.tools[name]
  IN [ name |-> name, async |-> t.async, params |-> t.params,
       types |-> [i \in DOMAIN t.types |-> annotation(r, t.types[i])],
       optionalFrom |-> optionalFrom(t),
       result |-> IF t.result = << >> THEN << "None" >> ELSE annotation(r, t.result) ]

Class(r, T) ==
  [ name |-> r.dicts[T],
    fields |-> { << jsonName(f), annotation(r, f.type) >> :
                 f \in { ShownFields(T)[i] : i \in DOMAIN ShownFields(T) } } ]

Stubs(r) ==
  [ classes |-> { Class(r, T) : T \in DOMAIN r.dicts },
    defs |-> [i \in DOMAIN r.order |-> Signature(r, r.order[i])] ]
=============================================================================
