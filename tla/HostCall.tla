------------------------------ MODULE HostCall ------------------------------
(***************************************************************************)
(* A host call from end to end (session.go, tools/tools.go, oscall.go,     *)
(* fs.go, value.go): the sandbox calls a function, looks a name up, calls  *)
(* what it got, or asks the operating system; the driver finds who answers *)
(* and the answer is encoded.  When the driver may answer, and what the    *)
(* session makes of it, is in Session and Driver: here a behaviour is one  *)
(* call on its way, and the subject is what it says.                       *)
(***************************************************************************)
EXTENDS Registry, OSCalls

CONSTANTS
  Echoed,     \* wire values that a host function gives back
  Calls,      \* calls of tools: the tool, and wire values by position and by name
  Asks,       \* OS calls as the sandbox sends them
  GoErrors,   \* errors that a function or a filesystem gives back
  Registered  \* registrations of tools, and the functions the caller has besides

ASSUME SentAssumption ==
  /\ \A w \in Echoed : Sent(w)
  /\ \A c \in Calls :
       /\ c.tool.params \in Seq(STRING) /\ c.args \in Seq(Range(c.args))
       /\ \A i \in DOMAIN c.args : Sent(c.args[i])
       /\ \A k \in DOMAIN c.kwargs : Sent(c.kwargs[k])
       /\ \A i \in DOMAIN c.tool.params : IsType(c.tool.types[i])
  /\ \A c \in Asks : c.name = "getenv" => {"name", "key", "default"} \subseteq DOMAIN c /\ Sent(c.default)

VARIABLES
  arch,       \* the processor the host runs on
  event,      \* what the sandbox asks
  answer      \* what the driver answered; "none" before

vars == << arch, event, answer, osVars >>

\* Where RunOptions define a name, and what kind of value Values has for it.
Definition ==
  { [ sync |-> s, async |-> a, value |-> v ] : s \in BOOLEAN, a \in BOOLEAN,
      v \in {"none", "class", "abstract", "plain", "unsupported", "ref", "object", "callable"} }

\* What a call or a lookup on an object or a class may meet: nothing, if its
\* session was restored from a dump; a method or not; and, for an attribute, no
\* Lazy, or what Lazy does.
Receiver ==
  [ receiver : {"class", "abstract", "object", "gone"}, name : {"__call__", "_name", "name"},
    method : BOOLEAN, lazy : {"none", "undefined", "value", "error"} ]

\* What the child asks of the host: to call a function that gives its argument
\* back, a tool, a name, a method, to look up a name or an attribute; or to
\* raise an error, or to find the tools of a registry.
Requests ==
  { [ kind |-> "echo", value |-> w ] : w \in Echoed }
  \cup { [ kind |-> "tool", tool |-> c.tool, args |-> c.args, kwargs |-> c.kwargs ] : c \in Calls }
  \cup [ kind : {"call", "lookup"}, of : Definition ]
  \cup [ kind : {"method", "attribute"}, of : Receiver ]
  \cup [ kind : {"raise"}, error : GoErrors, by : {"function", "os", "fs"} ]
  \cup { [ kind |-> "registry", tools |-> r.tools, later |-> r.later, own |-> r.own ] : r \in Registered }
  \cup [ kind : {"os"}, asked : Asks ]

Init ==
  /\ arch \in {"amd64", "arm64"}
  /\ event \in Requests
  /\ answer = None
  /\ stage = "idle" /\ at = 1 /\ todo = {} /\ result = None /\ call = << >>
  /\ handlers \in (IF event.kind = "os" THEN Mounts ELSE { << >> })
  /\ before \in (IF event.kind = "os" THEN Stored ELSE { << >> })
  /\ files = before

Answers(kind, a) ==
  /\ event.kind = kind
  /\ answer = None
  /\ answer' = a
  /\ UNCHANGED << arch, event, osVars >>

(***************************************************************************)
(* Functions                                                               *)
(***************************************************************************)

\* An unsupported value is a TypeError at the call.
ret(v) == LET w == encode(v) IN IF IsError(w) THEN Raise("TypeError") ELSE Ret(w)

echo(w) == LET v == decode(w) IN IF IsError(v) THEN << "protocolError" >> ELSE ret(v)

AnswerEcho == Answers("echo", echo(event.value))

Decoded(f) == [i \in DOMAIN f |-> decode(f[i])]

\* An argument that cannot be decoded fails the run.
Undecoded(e) ==
  \/ \E i \in DOMAIN e.args : IsError(decode(e.args[i]))
  \/ \E k \in DOMAIN e.kwargs : IsError(decode(e.kwargs[k]))

\* Tool.Function: what the Go function gets, and the result if it gives back
\* the first of it.
Function(e, processor) ==
  LET in == bind(e.tool, Decoded(e.args), Decoded(e.kwargs), processor)
  IN IF IsError(in) THEN Raise("TypeError")
     ELSE << "return", in[2], IF in[2] = << >> THEN << "nil" >> ELSE encode(in[2][1]) >>

CallTool(e, processor) == IF Undecoded(e) THEN << "protocolError" >> ELSE Function(e, processor)

AnswerTool == Answers("tool", CallTool(event, arch))

(***************************************************************************)
(* Names                                                                   *)
(***************************************************************************)

\* Of a class, "__call__" is Init; a private name is not looked at.
resolveMethod(receiver, name, method) ==
  CASE name = "_name" -> Raise("AttributeError")
    [] name # "_name" /\ receiver = "gone" -> Raise("RuntimeError")
    [] receiver = "class" /\ name = "__call__" -> << "made" >>
    [] receiver = "abstract" /\ name = "__call__" -> Raise("TypeError")
    [] OTHER -> IF method THEN << "method" >> ELSE Raise("AttributeError")

\* Calls a value that was looked up: an object may have a method "__call__".
CallValue(value) ==
  resolveMethod(IF value = "callable" THEN "object" ELSE value, "__call__", value = "callable")

resolveCall(d) ==
  CASE d.sync -> << "sync" >>
    [] ~d.sync /\ d.async -> << "async" >>
    [] ~d.sync /\ ~d.async /\ d.value \in {"class", "abstract"} -> CallValue(d.value)
    [] ~d.sync /\ ~d.async /\ d.value \notin {"none", "class", "abstract"} -> Raise("TypeError")
    [] OTHER -> Raise("NameError")

\* Mutant: values before functions.
resolveLookupByValue(d) ==
  CASE d.value \notin {"none", "unsupported"} -> << "value", d.value >>
    [] d.value = "unsupported" -> Raise("TypeError")
    [] d.value = "none" /\ (d.sync \/ d.async) -> << "value", "own" >>
    [] OTHER -> Raise("NameError")

\* The value of a name; "own" is a FunctionRef of the same name.
resolveLookup(d) ==
  CASE d.sync \/ d.async -> << "value", "own" >>
    [] ~d.sync /\ ~d.async /\ d.value = "unsupported" -> Raise("TypeError")
    [] ~d.sync /\ ~d.async /\ d.value = "none" -> Raise("NameError")
    [] OTHER -> << "value", d.value >>

\* The value of an attribute.
resolveAttribute(r) ==
  CASE r.name # "name" \/ r.receiver # "object" \/ r.lazy \in {"none", "undefined"} ->
         Raise("AttributeError")
    [] r.name = "name" /\ r.receiver = "object" /\ r.lazy = "error" -> Raise("RuntimeError")
    [] OTHER -> << "lazy" >>

AnswerCall == Answers("call", resolveCall(event.of))

AnswerMethod == Answers("method", resolveMethod(event.of.receiver, event.of.name, event.of.method))

AnswerAttribute == Answers("attribute", resolveAttribute(event.of))

AnswerLookup ==
  /\ event.kind = "lookup"
  /\ answer = None
  /\ LET a == resolveLookup(event.of) IN
     /\ event' = [ kind |-> "apply", of |-> event.of, value |-> IF a[1] = "value" THEN a[2] ELSE "none" ]
     /\ answer' = IF a[1] = "value" THEN None ELSE a
  /\ UNCHANGED << arch, osVars >>

\* Code calls the value it got.  A function calls its name, a host class or
\* object its method "__call__"; the sandbox knows of the rest that it is not
\* callable.
Apply ==
  Answers("apply",
       CASE event.value = "own" -> resolveCall(event.of)
         [] event.value = "ref" -> << "other" >>
         [] event.value \in {"class", "abstract", "object", "callable"} -> CallValue(event.value)
         [] event.value = "plain" -> Raise("TypeError"))

(***************************************************************************)
(* The operating system                                                    *)
(***************************************************************************)

\* The default of getenv is decoded by a codec that has no store.
osCallFromProto(c) ==
  LET default == decodeBare(c.default)
  IN CASE c.name = "getenv" /\ ~IsError(default) -> << "call", [c EXCEPT !.default = default] >>
       [] c.name \in PathCalls \cup (Others \ {"getenv"}) -> << "call", c >>
       [] OTHER -> Error

ASSUME HostAssumption ==
  \A c \in Asks : IsError(osCallFromProto(c)) \/ osCallFromProto(c)[2] \in OSRequests

\* Its codec has no store either; no handler here answers with a host object.
\* A date for a time, a naive time if no zone is asked for, else the time there.
encodeOSResult(c, v) ==
  CASE c.name = "date_today" /\ v[1] = "time" -> << "date", v[2] \div (Day * Nanos) >>
    [] c.name = "datetime_now" /\ v[1] = "time" ->
         IF c.tz = << >> THEN << "datetime", v[2] \div Nanos, << >>, "" >>
         ELSE encodeTime(v[2] - v[3] * Micros * Nanos + c.tz[1] * Micros * Nanos, c.tz[1], "")
    [] v[1] = "paths" -> << "list", { << "path", p >> : p \in v[2] } >>
    [] OTHER -> encode(v)

\* A call that cannot be decoded fails the run; the others go to the handlers.
RefuseOS ==
  /\ event.kind = "os"
  /\ IsError(osCallFromProto(event.asked))
  /\ Answers("os", << "protocolError" >>)

TakeOS ==
  /\ event.kind = "os"
  /\ stage = "idle"
  /\ ~IsError(osCallFromProto(event.asked))
  /\ call' = osCallFromProto(event.asked)[2]
  /\ stage' = "asking"
  /\ UNCHANGED << arch, event, answer, handlers, at, before, files, todo, result >>

ServeOS == OSNext /\ UNCHANGED << arch, event, answer >>

AnswerOS ==
  /\ stage = "served"
  /\ Answers("os",
       IF result[1] # "return" THEN result
       ELSE LET w == encodeOSResult(call, result[2])
            IN IF IsError(w) THEN Raise("TypeError") ELSE Ret(w))

(***************************************************************************)
(* Errors                                                                  *)
(***************************************************************************)

\* The frames of the code that calls.
Frames == << "here" >>

\* A function fails, a handler, or a filesystem under one; what code sees, and
\* what Run gives back if code lets it pass.
callError(error, by) ==
  LET e == IF by = "fs" THEN fsError(error) ELSE error
      r == raisedFromError(e)
  IN IF by # "function" /\ Is(e, "ErrNotHandled") THEN NotHandled
     ELSE << "raised", r, exceptionFromProto(Uncaught(r, Frames)) >>

AnswerRaise == Answers("raise", callError(event.error, event.by))

(***************************************************************************)
(* Registries                                                              *)
(***************************************************************************)

\* The program asks for its options, adds tools and asks again; if it had made
\* the maps itself they are the same ones.  Then the stub, and who answers.
AnswerRegistry ==
  Answers("registry",
       LET first == New(event.tools)
           r == AddAll(first, event.later)
           opts == Options(r, IF event.own.made THEN Options(first, event.own) ELSE event.own)
       IN IF r.panicked THEN << "panic" >> ELSE
          << "stubs", Stubs(r),
             [name \in DOMAIN opts.sync \cup DOMAIN opts.async |->
                IF name \in DOMAIN opts.sync THEN << "sync", opts.sync[name] >>
                                             ELSE << "async", opts.async[name] >>] >>)

Next ==
  \/ AnswerEcho
  \/ AnswerTool
  \/ AnswerRaise
  \/ AnswerRegistry
  \/ AnswerMethod
  \/ AnswerAttribute
  \/ AnswerCall
  \/ AnswerLookup \/ Apply
  \/ RefuseOS \/ TakeOS \/ ServeOS \/ AnswerOS

Spec == Init /\ [][Next]_vars

(***************************************************************************)
(* Properties                                                              *)
(***************************************************************************)

Answered(kind) == event.kind = kind /\ answer # None

\* A value that passes through the host is the same value when it comes back,
\* unless it is one of those the codec is known to change; and it comes back
\* unless something in it has no Go form that may.
EchoFaithful ==
  Answered("echo") =>
    IF Opaque(Known, event.value) THEN answer[1] # "return"
    ELSE /\ answer[1] = "return"
         /\ Changed(event.value) \/ Meaning(answer[2]) = Meaning(event.value)

\* What a function raises arrives, and goes on to the caller of Run, as the
\* exception it is, with the frames of this run alone.  An error that is none,
\* or hides one, is a RuntimeError that ends as it does; but a filesystem's
\* error keeps an exception that it hides, and is an OSError if it hides none.
ExceptionsKept ==
  Answered("raise") /\ answer # NotHandled =>
    LET back == answer[3]
        kept == IF event.by = "fs" THEN As(event.error)
                ELSE {event.error} \cap As(event.error)
    IN /\ Text(back) = renderTraceback(Frames, back[2], back[3])
       /\ kept # {} => \A e \in kept : back[2] = e[2] /\ back[3] = e[3]
       /\ kept = {} /\ event.by # "fs" =>
            back[2] = "RuntimeError" /\ Last(back[3]) = Last(Text(event.error))
       /\ kept = {} /\ event.by = "fs" => back[2] \in Range(Errnos) \cup {"OSError"}

\* os.getenv gives its default back, a host's objects excepted.
DefaultKept ==
  Answered("os") /\ event.asked.name = "getenv" /\ answer # NotHandled =>
    LET d == event.asked.default
    IN \/ \E i \in DOMAIN handlers :
            handlers[i].kind = "env" /\ event.asked.key \in DOMAIN handlers[i].vars
       \/ IF Opaque({}, d) THEN answer[1] # "return"
          ELSE answer[1] = "return" /\ (Changed(d) \/ Meaning(answer[2]) = Meaning(d))

\* What crosses the boundary and comes back is what it was.
CrossingsFaithful == EchoFaithful /\ ExceptionsKept /\ DefaultKept

\* What the type checker lets through for an annotation; of[P, w] says it of the
\* annotations in this one and the values in this one, itself included.
AcceptsGiven(of, P, w) ==
  CASE P[1] = "Any" -> TRUE
    [] P[1] = "optional" -> w[1] = "nil" \/ of[P[2], w]
    [] P[1] = "int" -> w[1] \in {"int", "bigint", "bool"}
    [] P[1] = "float" -> w[1] \in {"float", "int", "bigint", "bool"}
    [] P[1] = "date" -> w[1] \in {"date", "datetime"}
    [] P[1] = "list" -> w[1] = "list" /\ \A i \in DOMAIN w[2] : of[P[2], w[2][i]]
    [] P[1] = "dict" -> /\ w[1] = "dict"
                        /\ \A i \in DOMAIN w[2] : of[P[2], w[2][i][1]] /\ of[P[3], w[2][i][2]]
    [] P[1] = "typed" -> /\ w[1] = "dict"
                         /\ { w[2][i][1] : i \in DOMAIN w[2] } = { << "str", f[1] >> : f \in P[2] }
                         /\ \A i \in DOMAIN w[2] : \A f \in P[2] :
                              w[2][i][1] = << "str", f[1] >> => of[f[2], w[2][i][2]]
    [] OTHER -> w[1] = P[1]

PyChildren(P) ==
  CASE P[1] \in {"optional", "list"} -> {P[2]}
    [] P[1] = "dict" -> {P[2], P[3]}
    [] P[1] = "typed" -> { f[2] : f \in P[2] }
    [] OTHER -> {}

Accepts(P, w) ==
  LET Below(x) == PyChildren(x[1]) \X ({x[2]} \cup Children(x[2]))
      of[x \in Descendants(PyChildren, P) \X Parts(w)] == AcceptsGiven(Restrict(of, Below(x)), x[1], x[2])
  IN AcceptsGiven(Restrict(of, Below(<< P, w >>)), P, w)

\* Where the stub says more than convert keeps: integers have a width, uint and
\* float take no bool, *big.Int no integer that fits an int64, Dict no dict
\* whose keys are all strings, Date no datetime, Duration no timedelta that is
\* too long for one.
RefusedGiven(of, T, v) ==
  CASE T[1] \in {"int", "int8"} -> v[1] = "bigInt" \/ (v[1] = "int" /\ ~Fits(v[2], T))
    [] T[1] \in {"uint8", "uint64"} -> v[1] = "bool" \/ ~Fits(v[2], T)
    [] T[1] \in {"float", "float32"} -> v[1] = "bool"
    [] T[1] = "bigInt" -> v[1] # "bigInt"
    [] T[1] = "dict" -> v[1] = "map"
    [] T[1] = "date" -> v[1] = "time"
    [] T[1] = "duration" -> v[1] = "timedelta"
    [] T[1] = "pointer" -> v[1] # "nil" /\ of[T[2], v]
    [] T[1] = "slice" -> \E i \in DOMAIN v[2] : of[T[2], v[2][i]]
    [] T[1] = "array" -> Len(v[2]) # T[3] \/ (\E i \in DOMAIN v[2] : of[T[2], v[2][i]])
    [] T[1] = "map" -> \E k \in DOMAIN v[2] : of[T[2], v[2][k]]
    [] T[1] = "timedelta" -> \E k \in DOMAIN v[2] : of[<< "int" >>, v[2][k]]
    [] T[1] = "struct" -> \E i \in DOMAIN T[3] :
         /\ T[3][i].exported /\ jsonName(T[3][i]) # ""
         /\ of[T[3][i].type, v[2][jsonName(T[3][i])]]
    [] OTHER -> FALSE

Refused(T, v) ==
  LET Below(x) == TypeChildren(x[1]) \X ({x[2]} \cup Children(x[2]))
      of[x \in TypeParts(T) \X Parts(v)] == RefusedGiven(Restrict(of, Below(x)), x[1], x[2])
  IN RefusedGiven(Restrict(of, Below(<< T, v >>)), T, v)

\* The value Python binds to a parameter; the default counts as None.
Bound(e, i) ==
  IF i \in DOMAIN e.args THEN e.args[i]
  ELSE IF e.tool.params[i] \in DOMAIN e.kwargs THEN e.kwargs[e.tool.params[i]]
  ELSE << "nil" >>

\* Python's rules for a call, against the signature the stub shows.
StubAllows(e) ==
  LET params == e.tool.params
      Given(i) == i \in DOMAIN e.args \/ params[i] \in DOMAIN e.kwargs
  IN /\ Len(e.args) <= Len(params)
     /\ \A k \in DOMAIN e.kwargs : \E i \in DOMAIN params : params[i] = k
     /\ \A i \in DOMAIN params : ~(i \in DOMAIN e.args /\ params[i] \in DOMAIN e.kwargs)
     /\ \A i \in DOMAIN params : IF Given(i) THEN Accepts(pyType(e.tool.types[i]), Bound(e, i))
                                             ELSE i >= optionalFrom(e.tool)

\* "the sandbox type checker ... sees the exact contract": a call that the stub
\* allows reaches the Go function, with every argument where Python puts it,
\* apart from the values above.
StubAccepted ==
  Answered("tool") /\ StubAllows(event) /\ ~Undecoded(event) =>
    LET v == [i \in DOMAIN event.tool.params |-> decode(Bound(event, i))]
        T == event.tool.types
    IN \/ \E i \in DOMAIN v : v[i][1] # "nil" /\ Refused(T[i], v[i])
       \/ /\ answer[1] = "return"
          /\ \A i \in DOMAIN v : answer[2][i] = convert(v[i], T[i], arch)

\* An annotation with the classes of the stub looked up.
ClassFields(stub, name) == (CHOOSE c \in stub.classes : c.name = name).fields

MeantGiven(stub, of, a) ==
  CASE a[1] \in {"optional", "list"} -> << a[1], of[a[2]] >>
    [] a[1] = "dict" -> << "dict", a[2], of[a[3]] >>
    [] a[1] = "class" -> << "typed", { << f[1], of[f[2]] >> : f \in ClassFields(stub, a[2]) } >>
    [] OTHER -> a

Meant(stub, a) ==
  LET Below(b) == IF b[1] = "class" THEN { f[2] : f \in ClassFields(stub, b[2]) } ELSE PyChildren(b)
      of[b \in Descendants(Below, a)] == MeantGiven(stub, Restrict(of, Below(b)), b)
  IN MeantGiven(stub, Restrict(of, Below(a)), a)

\* The stub declares every tool once, as it was last registered, with the types
\* that a call is checked against in StubAccepted, whatever structs share a
\* name; and a name is answered by that tool, at once or awaited as the stub
\* says.  Not so where a function of the same name is left in the maps from
\* before: it is found first.
StubsAgree ==
  Answered("registry") /\ answer[1] = "stubs" =>
    LET stub == answer[2]
        tools == event.tools \o event.later
        Last0(i) == \A j \in DOMAIN tools : j > i => tools[j].name # tools[i].name
        Left(n) == event.own.made /\ ( \/ n \in DOMAIN event.own.sync
                                      \/ \E i \in DOMAIN event.tools :
                                           event.tools[i].name = n /\ ~event.tools[i].async )
    IN /\ \A c, d \in stub.classes : c.name = d.name => c = d
       /\ \A i \in { j \in DOMAIN tools : Last0(j) } :
            LET t == tools[i]
                mine == { k \in DOMAIN stub.defs : stub.defs[k].name = t.name }
            IN /\ Cardinality(mine) = 1
               /\ \A k \in mine : LET d == stub.defs[k] IN
                    /\ [j \in DOMAIN t.types |-> Meant(stub, d.types[j])]
                         = [j \in DOMAIN t.types |-> pyType(t.types[j])]
                    /\ Meant(stub, d.result) = IF t.result = << >> THEN << "None" >>
                                                                   ELSE pyType(t.result)
                    /\ \/ d.async /\ Left(t.name)
                       \/ answer[3][t.name] = << IF d.async THEN "async" ELSE "sync", t.id >>

\* The Go function gets what code passed, or the call fails: integers and
\* timedeltas are the same ones, floats the nearest their type has, apart from
\* what Kept names.
ArgumentKept ==
  Answered("tool") /\ answer[1] = "return" =>
    \A i \in DOMAIN event.tool.params :
      Kept(decode(Bound(event, i)), event.tool.types[i], answer[2][i])

\* Results that do not have the type their stub declares, or that a parameter
\* of the same type refuses.
MisfitGiven(of, T, g) ==
  CASE T[1] \in {"timedelta", "frozenset"} -> TRUE
    [] T[1] = "bigInt" -> g[1] = "nil" \/ IsInt64(g[2])
    [] T[1] = "dict" -> \A i \in DOMAIN g[2] : g[2][i][1][1] = "str"
    [] T[1] = "duration" -> g[2] % Nanos # 0
    [] T[1] = "pointer" -> g[1] = "pointer" /\ of[T[2], g[2]]
    [] T[1] \in {"slice", "array"} -> \E i \in DOMAIN g[2] : of[T[2], g[2][i]]
    [] T[1] = "map" -> \E k \in DOMAIN g[2] : of[T[2], g[2][k]]
    [] T[1] = "struct" -> \E i \in DOMAIN T[3] :
         LET f == g[2][i] IN
         \/ f.embedded /\ f.tag = ""
         \/ f.exported /\ fieldName(f) # "" /\ f.omitEmpty /\ f.zero
         \/ f.exported /\ fieldName(f) # "" /\ of[T[3][i].type, f.value]
    [] OTHER -> FALSE

Misfit(T, g) ==
  LET Below(x) == TypeChildren(x[1]) \X Children(x[2])
      of[x \in TypeParts(T) \X Parts(g)] == MisfitGiven(Restrict(of, Below(x)), x[1], x[2])
  IN MisfitGiven(Restrict(of, Below(<< T, g >>)), T, g)

\* What a tool returns may be passed to a parameter of the same type: the stub
\* allows it and it arrives as it was.
ResultFits ==
  Answered("tool") /\ answer[1] = "return" /\ event.tool.params # << >> =>
    LET T == event.tool.types[1] IN
    \/ IsError(answer[3])
    \/ Misfit(T, answer[2][1])
    \/ /\ Accepts(pyType(T), answer[3])
       /\ convert(decode(answer[3]), T, arch) = answer[2][1]

\* Code that calls a name gets what it gets when it takes the value of the name
\* first and calls that, except for a FunctionRef or an object among the values.
CallLikeLookup ==
  Answered("apply") =>
    answer = resolveCall(event.of) \/ event.value \in {"ref", "object", "callable"}
=============================================================================
