--------------------------- MODULE ObjectsProofs ---------------------------
(***************************************************************************)
(* Safety of the host objects, for any number of sessions, classes,        *)
(* objects and ids.  The invariant says what an id stands for: own gives   *)
(* it once and for all, so that two sessions that race for the id of one   *)
(* thing leave two ids of that thing, and never one id of two.             *)
(***************************************************************************)
EXTENDS Objects, TLAPS

\* The field of a thing holds an id that was made for it.
Named == \A x \in Thing : id[x] # NoId => own[id[x]] = x

\* A store has nothing under an id but the thing the id was made for.
Entered ==
  \A s \in Session, i \in Id :
    /\ objects[s][i] \in {own[i], None}
    /\ classes[s][i] \in {own[i], None}

\* Nor does a request or a sandbox.
Paired ==
  \A s \in Session : \A g \in out[s] \cup given[s] : own[g[1]] = g[2]

\* What each step of the encoding has behind it.
Placed ==
  \A s \in Session :
    /\ mod[s] # "live" => pc[s] = "idle"
    /\ pc[s] = "idle" => out[s] = {} /\ outAttrs[s] = {}
    /\ pc[s] \in {"class", "name", "wire", "attrs", "mark"} => cur[s] \in Thing
    /\ pc[s] \in {"object", "nameObject", "wireObject"} =>
         cur[s] \in Object /\ id[ClassOf[cur[s]]] # NoId
    /\ pc[s] \in {"name", "nameObject"} => naming[s] \in Thing
    /\ pc[s] \in {"wire", "attrs", "mark"} => id[ClassFor(cur[s])] # NoId
    /\ pc[s] = "wireObject" => id[cur[s]] # NoId

\* The store finds the thing again.
Finds(s, i, x) ==
  IF x \in Object THEN objects[s][i] = x ELSE classes[s][i] = x

\* What the sandbox has, and what is on its way to it, is in the store.
Findable ==
  \A s \in Session :
    /\ \A g \in given[s] : g[1] \in foreign[s] \/ g[2] \in raced \/ Finds(s, g[1], g[2])
    /\ \A g \in out[s] : g[2] \in raced \/ Finds(s, g[1], g[2])
    /\ pc[s] = "wire" =>
         ClassFor(cur[s]) \in raced \/ classes[s][id[ClassFor(cur[s])]] = ClassFor(cur[s])
    /\ pc[s] = "wireObject" => cur[s] \in raced \/ objects[s][id[cur[s]]] = cur[s]

\* Attributes that were noted as sent are with the sandbox, on their way, or
\* in a request that was given up.
Noted ==
  \A s \in Session :
    /\ pc[s] \in {"attrs", "mark"} =>
         /\ wire[s] \in Id
         /\ own[wire[s]] = ClassFor(cur[s])
         /\ ClassFor(cur[s]) \in raced \/ wire[s] = id[ClassFor(cur[s])]
    /\ pc[s] = "mark" => wire[s] \in outAttrs[s]
    /\ \A i \in sent[s] : i \in has[s] \cup lost[s] \cup outAttrs[s] \/ own[i] \in raced

IInv == TypeOK /\ Named /\ Entered /\ Paired /\ Placed /\ Findable /\ Noted

\* The runtime's part: before it is ready there is nothing to leak.
Booted ==
  /\ boot \in {"cache", "wasi", "host", "compile", "probe", "versions", "ready", "failed"}
  /\ boot = "cache" => engine = "none"
  /\ boot \in {"cache", "wasi", "host", "compile", "probe"} => probe = "none"
  /\ closed => boot = "ready"

RInv == mod \in [Session -> Instance \cup {"looked"}] /\ Booted /\ NothingLeaks

LEMMA EncodeInv ==
  ASSUME IInv, NEW s \in Session, NEW x \in Thing, Encode(s, x) PROVE IInv'
<1> USE ObjectsAssumption DEF IInv, Thing, runtimeVars, host, registry, request, sandbox, coding
<1>1. TypeOK'
  BY DEF TypeOK, Placed, Encoding, Encode, GoTo, Alive
<1>2. Named'
  BY DEF TypeOK, Named, Placed, Encode, GoTo, Alive
<1>3. Entered'
  BY DEF TypeOK, Entered, Named, Placed, Encode, GoTo, Alive
<1>4. Paired'
  BY DEF TypeOK, Paired, Placed, Named, Encode, GoTo, Alive
<1>5. Placed'
  BY DEF TypeOK, Placed, Encode, GoTo, Alive
<1>6. Findable'
  BY DEF TypeOK, Entered, Paired, Placed, Findable, Finds, Named, Encode, GoTo, Alive
<1>7. Noted'
  BY DEF TypeOK, Noted, Placed, Named, Entered, Encode, GoTo, Alive
<1> QED BY <1>1, <1>2, <1>3, <1>4, <1>5, <1>6, <1>7

LEMMA RegisterClassInv ==
  ASSUME IInv, NEW s \in Session, RegisterClass(s) PROVE IInv'
<1> USE ObjectsAssumption DEF IInv, Thing, runtimeVars, host, registry, request, sandbox, coding
<1> DEFINE c == ClassFor(cur[s])
<1>a. cur[s] \in Thing /\ c \in Class
  BY DEF Placed, RegisterClass, At, ClassFor
<1> HIDE DEF c
<1>b. CASE LooksUnnamed(s, c, "name")
  <2> USE <1>a, <1>b DEF RegisterClass, LooksUnnamed, At, GoTo, c
  <2>1. TypeOK'
    BY DEF TypeOK, Encoding
  <2>2. Named' /\ Entered' /\ Paired'
    BY DEF TypeOK, Named, Entered, Paired
  <2>3. Placed'
    BY DEF TypeOK, Placed
  <2>4. Findable'
    BY DEF TypeOK, Findable, Finds, ClassFor
  <2>5. Noted'
    BY DEF TypeOK, Noted, ClassFor
  <2> QED BY <2>1, <2>2, <2>3, <2>4, <2>5
<1>c. CASE /\ id[c] # NoId
           /\ classes' = [classes EXCEPT ![s][id[c]] = c]
           /\ GoTo(s, "wire")
           /\ UNCHANGED << objects, sent, naming, wire >>
  <2>0. id[c] \in Id /\ own[id[c]] = c
    BY <1>a, <1>c DEF TypeOK, Named
  <2>a. \A t \in Session, i \in Id :
          classes'[t][i] = IF t = s /\ i = id[c] THEN c ELSE classes[t][i]
    BY <1>c, <2>0 DEF TypeOK
  <2>b. classes' \in [Session -> [Id -> Class \cup {None}]]
    BY <1>a, <1>c, <2>0 DEF TypeOK
  <2>c. UNCHANGED << mod, id, own, raced, cur, naming, wire, objects, sent,
                     out, outAttrs, given, has, foreign, lost >>
    BY <1>c DEF RegisterClass
  <2>d. pc' = [pc EXCEPT ![s] = "wire"] /\ pc[s] = "class" /\ mod[s] = "live"
    BY <1>c DEF GoTo, RegisterClass, At, Alive
  <2>1. TypeOK'
    BY <2>b, <2>c, <2>d DEF TypeOK, Encoding
  <2>2. Named' /\ Paired'
    BY <2>c DEF Named, Paired
  <2>3. Entered'
    BY <2>0, <2>a, <2>c DEF Entered
  <2>4. Placed'
    BY <1>a, <1>c, <2>c, <2>d DEF TypeOK, Placed, c, ClassFor
  <2>5. Findable'
    <3>1. ASSUME NEW t \in Session, NEW g \in given[t] \cup out[t], Finds(t, g[1], g[2])
          PROVE  Finds(t, g[1], g[2])'
      <4>1. g[1] \in Id /\ own[g[1]] = g[2]
        BY DEF TypeOK, Paired
      <4> QED BY <2>0, <2>a, <2>c, <3>1, <4>1 DEF Finds
    <3>2. classes'[s][id[c]] = c
      BY <2>0, <2>a
    <3> QED BY <2>0, <2>a, <2>c, <2>d, <3>1, <3>2 DEF TypeOK, Findable, Placed, c, ClassFor
  <2>6. Noted'
    BY <2>c, <2>d DEF TypeOK, Noted, ClassFor
  <2> QED BY <2>1, <2>2, <2>3, <2>4, <2>5, <2>6
<1> QED BY <1>b, <1>c DEF RegisterClass, c

LEMMA NameInv ==
  ASSUME IInv, NEW s \in Session, Name(s) PROVE IInv'
<1> USE ObjectsAssumption DEF IInv, Thing, runtimeVars, host, registry, request, sandbox, coding
<1>1. TypeOK'
  BY DEF TypeOK, Placed, Encoding, Name, At, GoTo, Alive, ClassFor
<1>2. Named'
  BY DEF TypeOK, Named, Placed, Name, At, GoTo, Alive, ClassFor
<1>3. Entered'
  BY DEF TypeOK, Entered, Named, Placed, Name, At, GoTo, Alive, ClassFor
<1>4. Paired'
  BY DEF TypeOK, Paired, Placed, Named, Name, At, GoTo, Alive, ClassFor
<1>5. Placed'
  BY DEF TypeOK, Placed, Name, At, GoTo, Alive, ClassFor
<1>6. Findable'
  BY DEF TypeOK, Entered, Paired, Placed, Findable, Finds, Named, Name, At, GoTo, Alive, ClassFor
<1>7. Noted'
  BY DEF TypeOK, Noted, Placed, Named, Entered, Name, At, GoTo, Alive, ClassFor
<1> QED BY <1>1, <1>2, <1>3, <1>4, <1>5, <1>6, <1>7

LEMMA WireClassInv ==
  ASSUME IInv, NEW s \in Session, WireClass(s) PROVE IInv'
<1> USE ObjectsAssumption DEF IInv, Thing, runtimeVars, host, registry, request, sandbox, coding
<1>1. TypeOK'
  BY DEF TypeOK, Placed, Encoding, WireClass, At, GoTo, Alive, ClassFor
<1>2. Named'
  BY DEF TypeOK, Named, Placed, WireClass, At, GoTo, Alive, ClassFor
<1>3. Entered'
  BY DEF TypeOK, Entered, Named, Placed, WireClass, At, GoTo, Alive, ClassFor
<1>4. Paired'
  BY DEF TypeOK, Paired, Placed, Named, WireClass, At, GoTo, Alive, ClassFor
<1>5. Placed'
  BY DEF TypeOK, Placed, WireClass, At, GoTo, Alive, ClassFor
<1>6. Findable'
  BY DEF TypeOK, Entered, Paired, Placed, Findable, Finds, Named, WireClass, At, GoTo, Alive, ClassFor
<1>7. Noted'
  BY DEF TypeOK, Noted, Placed, Named, Entered, WireClass, At, GoTo, Alive, ClassFor
<1> QED BY <1>1, <1>2, <1>3, <1>4, <1>5, <1>6, <1>7

LEMMA ClassAttrsInv ==
  ASSUME IInv, NEW s \in Session, ClassAttrs(s) PROVE IInv'
<1> USE ObjectsAssumption DEF IInv, Thing, runtimeVars, host, registry, request, sandbox, coding
<1>0. /\ cur[s] \in Thing
      /\ wire[s] \in Id
  BY DEF Placed, Noted, ClassAttrs, At
<1>1. TypeOK'
  <2>1. CASE SendsAttrs(s)
    <3>1. outAttrs' \in [Session -> SUBSET Id]
      <4>1. /\ outAttrs' = [outAttrs EXCEPT ![s] = @ \cup {wire[s]}]
            /\ outAttrs \in [Session -> SUBSET Id]
        BY <2>1 DEF TypeOK, ClassAttrs
      <4>2. outAttrs[s] \cup {wire[s]} \in SUBSET Id
        BY <1>0, <4>1
      <4> QED BY <4>1, <4>2
    <3> QED BY <2>1, <3>1 DEF TypeOK, Encoding, ClassAttrs, GoTo
  <2>2. CASE ~SendsAttrs(s)
    BY <1>0, <2>2 DEF TypeOK, Encoding, ClassAttrs, Classed, Done, GoTo
  <2> QED BY <2>1, <2>2
<1>2. Named'
  BY DEF TypeOK, Named, Placed, ClassAttrs, Classed, Done, At, GoTo, Alive, ClassFor
<1>3. Entered'
  BY DEF TypeOK, Entered, Named, Placed, ClassAttrs, Classed, Done, At, GoTo, Alive, ClassFor
<1>4. Paired'
  BY DEF TypeOK, Paired, Placed, Named, ClassAttrs, Classed, Done, At, GoTo, Alive, ClassFor
<1>5. Placed'
  BY DEF TypeOK, Placed, ClassAttrs, Classed, Done, At, GoTo, Alive, ClassFor
<1>6. Findable'
  BY DEF TypeOK, Entered, Paired, Placed, Findable, Finds, Named, ClassAttrs, Classed, Done, At, GoTo, Alive, ClassFor
<1>7. Noted'
  <2>1. CASE SendsAttrs(s)
    BY <1>0, <2>1 DEF TypeOK, Noted, Placed, ClassAttrs, At, GoTo, ClassFor
  <2>2. CASE ~SendsAttrs(s)
    <3>1. UNCHANGED << id, own, raced, sent, has, lost, outAttrs >>
      BY <2>2 DEF ClassAttrs
    <3>2. CASE cur[s] \in Class /\ Done(s)
      BY <2>2, <3>1, <3>2 DEF TypeOK, Noted, ClassAttrs, Classed, Done, GoTo, ClassFor
    <3>3. CASE GoTo(s, "object") /\ UNCHANGED cur
      BY <2>2, <3>1, <3>3 DEF TypeOK, Noted, ClassAttrs, Classed, GoTo, ClassFor
    <3> QED BY <2>2, <3>2, <3>3 DEF ClassAttrs, Classed
  <2> QED BY <2>1, <2>2
<1> QED BY <1>1, <1>2, <1>3, <1>4, <1>5, <1>6, <1>7

LEMMA MarkSentInv ==
  ASSUME IInv, NEW s \in Session, MarkSent(s) PROVE IInv'
<1> USE ObjectsAssumption DEF IInv, Thing, runtimeVars, host, registry, request, sandbox, coding
<1>0. /\ cur[s] \in Thing
      /\ id[ClassFor(cur[s])] \in Id
  BY DEF TypeOK, Placed, MarkSent, At, ClassFor
<1>1. TypeOK'
  <2>1. sent' \in [Session -> SUBSET Id]
    BY <1>0 DEF TypeOK, MarkSent
  <2> QED BY <1>0, <2>1 DEF TypeOK, Encoding, MarkSent, Classed, Done, GoTo
<1>2. Named'
  BY DEF TypeOK, Named, Placed, MarkSent, Classed, Done, At, GoTo, Alive, ClassFor
<1>3. Entered'
  BY DEF TypeOK, Entered, Named, Placed, MarkSent, Classed, Done, At, GoTo, Alive, ClassFor
<1>4. Paired'
  BY DEF TypeOK, Paired, Placed, Named, MarkSent, Classed, Done, At, GoTo, Alive, ClassFor
<1>5. Placed'
  BY DEF TypeOK, Placed, MarkSent, Classed, Done, At, GoTo, Alive, ClassFor
<1>6. Findable'
  BY DEF TypeOK, Entered, Paired, Placed, Findable, Finds, Named, MarkSent, Classed, Done, At, GoTo, Alive, ClassFor
<1>7. Noted'
  BY DEF TypeOK, Noted, Placed, Named, Entered, MarkSent, Classed, Done, At, GoTo, Alive, ClassFor
<1> QED BY <1>1, <1>2, <1>3, <1>4, <1>5, <1>6, <1>7

LEMMA RegisterObjectInv ==
  ASSUME IInv, NEW s \in Session, RegisterObject(s) PROVE IInv'
<1> USE ObjectsAssumption DEF IInv, Thing, runtimeVars, host, registry, request, sandbox, coding
<1> DEFINE o == cur[s]
           c == ClassOf[o]
<1>a. o \in Object /\ c \in Class /\ id[c] # NoId
  BY DEF Placed, RegisterObject, At
<1> HIDE DEF o, c
<1>b. CASE LooksUnnamed(s, o, "nameObject")
  <2> USE <1>a, <1>b DEF RegisterObject, LooksUnnamed, At, GoTo, o, c
  <2>1. TypeOK'
    BY DEF TypeOK, Encoding
  <2>2. Named' /\ Entered' /\ Paired'
    BY DEF TypeOK, Named, Entered, Paired
  <2>3. Placed'
    BY DEF TypeOK, Placed
  <2>4. Findable'
    BY DEF TypeOK, Findable, Finds, ClassFor
  <2>5. Noted'
    BY DEF TypeOK, Noted, ClassFor
  <2> QED BY <2>1, <2>2, <2>3, <2>4, <2>5
<1>c. CASE /\ id[o] # NoId
           /\ objects' = [objects EXCEPT ![s][id[o]] = o]
           /\ classes' = [classes EXCEPT ![s][id[c]] = c]
           /\ GoTo(s, "wireObject")
           /\ UNCHANGED << sent, naming, wire >>
  <2>0. /\ id[c] \in Id /\ own[id[c]] = c
        /\ id[o] \in Id /\ own[id[o]] = o
    BY <1>a, <1>c DEF TypeOK, Named
  <2>a. \A t \in Session, i \in Id :
          /\ classes'[t][i] = IF t = s /\ i = id[c] THEN c ELSE classes[t][i]
          /\ objects'[t][i] = IF t = s /\ i = id[o] THEN o ELSE objects[t][i]
    BY <1>c, <2>0 DEF TypeOK
  <2>b. /\ classes' \in [Session -> [Id -> Class \cup {None}]]
        /\ objects' \in [Session -> [Id -> Object \cup {None}]]
    BY <1>a, <1>c, <2>0 DEF TypeOK
  <2>c. UNCHANGED << mod, id, own, raced, cur, naming, wire, sent,
                     out, outAttrs, given, has, foreign, lost >>
    BY <1>c DEF RegisterObject
  <2>d. pc' = [pc EXCEPT ![s] = "wireObject"] /\ pc[s] = "object" /\ mod[s] = "live"
    BY <1>c DEF GoTo, RegisterObject, At, Alive
  <2>1. TypeOK'
    BY <2>b, <2>c, <2>d DEF TypeOK, Encoding
  <2>2. Named' /\ Paired'
    BY <2>c DEF Named, Paired
  <2>3. Entered'
    BY <2>0, <2>a, <2>c DEF Entered
  <2>4. Placed'
    BY <1>a, <1>c, <2>c, <2>d DEF TypeOK, Placed, c, o, ClassFor
  <2>5. Findable'
    <3>1. ASSUME NEW t \in Session, NEW g \in given[t] \cup out[t], Finds(t, g[1], g[2])
          PROVE  Finds(t, g[1], g[2])'
      <4>1. g[1] \in Id /\ own[g[1]] = g[2]
        BY DEF TypeOK, Paired
      <4> QED BY <1>a, <2>0, <2>a, <3>1, <4>1 DEF Finds
    <3>2. objects'[s][id[o]] = o
      BY <2>0, <2>a
    <3>3. ASSUME NEW t \in Session, t # s
          PROVE  classes'[t] = classes[t] /\ objects'[t] = objects[t] /\ pc'[t] = pc[t]
      BY <1>c, <2>d, <3>3 DEF TypeOK
    <3> QED BY <2>0, <2>c, <2>d, <3>1, <3>2, <3>3 DEF TypeOK, Findable, o, ClassFor
  <2>6. Noted'
    BY <2>c, <2>d DEF TypeOK, Noted, ClassFor
  <2> QED BY <2>1, <2>2, <2>3, <2>4, <2>5, <2>6
<1> QED BY <1>b, <1>c DEF RegisterObject, o, c

LEMMA WireObjectInv ==
  ASSUME IInv, NEW s \in Session, WireObject(s) PROVE IInv'
<1> USE ObjectsAssumption DEF IInv, Thing, runtimeVars, host, registry, request, sandbox, coding
<1>1. TypeOK'
  BY DEF TypeOK, Placed, Encoding, WireObject, Done, At, GoTo, Alive, ClassFor
<1>2. Named'
  BY DEF TypeOK, Named, Placed, WireObject, Done, At, GoTo, Alive, ClassFor
<1>3. Entered'
  BY DEF TypeOK, Entered, Named, Placed, WireObject, Done, At, GoTo, Alive, ClassFor
<1>4. Paired'
  BY DEF TypeOK, Paired, Placed, Named, WireObject, Done, At, GoTo, Alive, ClassFor
<1>5. Placed'
  BY DEF TypeOK, Placed, WireObject, Done, At, GoTo, Alive, ClassFor
<1>6. Findable'
  BY DEF TypeOK, Entered, Paired, Placed, Findable, Finds, Named, WireObject, Done, At, GoTo, Alive, ClassFor
<1>7. Noted'
  BY DEF TypeOK, Noted, Placed, Named, Entered, WireObject, Done, At, GoTo, Alive, ClassFor
<1> QED BY <1>1, <1>2, <1>3, <1>4, <1>5, <1>6, <1>7

LEMMA SendInv ==
  ASSUME IInv, NEW s \in Session, Send(s) PROVE IInv'
<1> USE ObjectsAssumption DEF IInv, Thing, runtimeVars, host, registry, request, sandbox, coding
<1>1. TypeOK'
  BY DEF TypeOK, Placed, Encoding, Send, Rested, At, GoTo, Alive, ClassFor
<1>2. Named'
  BY DEF TypeOK, Named, Placed, Send, Rested, At, GoTo, Alive, ClassFor
<1>3. Entered'
  BY DEF TypeOK, Entered, Named, Placed, Send, Rested, At, GoTo, Alive, ClassFor
<1>4. Paired'
  BY DEF TypeOK, Paired, Placed, Named, Send, Rested, At, GoTo, Alive, ClassFor
<1>5. Placed'
  BY DEF TypeOK, Placed, Send, Rested, At, GoTo, Alive, ClassFor
<1>6. Findable'
  BY DEF TypeOK, Entered, Paired, Placed, Findable, Finds, Named, Send, Rested, At, GoTo, Alive, ClassFor
<1>7. Noted'
  BY DEF TypeOK, Noted, Placed, Named, Entered, Send, Rested, At, GoTo, Alive, ClassFor
<1> QED BY <1>1, <1>2, <1>3, <1>4, <1>5, <1>6, <1>7

LEMMA GiveUpInv ==
  ASSUME IInv, NEW s \in Session, GiveUp(s) PROVE IInv'
<1> USE ObjectsAssumption DEF IInv, Thing, runtimeVars, host, registry, request, sandbox, coding
<1>1. TypeOK'
  BY DEF TypeOK, Placed, Encoding, GiveUp, Rested, At, GoTo, Alive, ClassFor
<1>2. Named'
  BY DEF TypeOK, Named, Placed, GiveUp, Rested, At, GoTo, Alive, ClassFor
<1>3. Entered'
  BY DEF TypeOK, Entered, Named, Placed, GiveUp, Rested, At, GoTo, Alive, ClassFor
<1>4. Paired'
  BY DEF TypeOK, Paired, Placed, Named, GiveUp, Rested, At, GoTo, Alive, ClassFor
<1>5. Placed'
  BY DEF TypeOK, Placed, GiveUp, Rested, At, GoTo, Alive, ClassFor
<1>6. Findable'
  BY DEF TypeOK, Entered, Paired, Placed, Findable, Finds, Named, GiveUp, Rested, At, GoTo, Alive, ClassFor
<1>7. Noted'
  BY DEF TypeOK, Noted, Placed, Named, Entered, GiveUp, Rested, At, GoTo, Alive, ClassFor
<1> QED BY <1>1, <1>2, <1>3, <1>4, <1>5, <1>6, <1>7

LEMMA LooksInv ==
  ASSUME IInv, NEW s \in Session, Looks(s) PROVE IInv'
<1> USE ObjectsAssumption DEF IInv, Thing, runtimeVars, host, registry, request, sandbox, coding
<1>1. TypeOK'
  BY DEF TypeOK, Placed, Encoding, Looks, NewWorkerLooks, ClassFor, Instance
<1>2. Named'
  BY DEF TypeOK, Named, Placed, Looks, NewWorkerLooks, ClassFor, Instance
<1>3. Entered'
  BY DEF TypeOK, Entered, Named, Placed, Looks, NewWorkerLooks, ClassFor, Instance
<1>4. Paired'
  BY DEF TypeOK, Paired, Placed, Named, Looks, NewWorkerLooks, ClassFor, Instance
<1>5. Placed'
  BY DEF TypeOK, Placed, Looks, NewWorkerLooks, ClassFor, Instance
<1>6. Findable'
  BY DEF TypeOK, Entered, Paired, Placed, Findable, Finds, Named, Looks, NewWorkerLooks, ClassFor, Instance
<1>7. Noted'
  BY DEF TypeOK, Noted, Placed, Named, Entered, Looks, NewWorkerLooks, ClassFor, Instance
<1> QED BY <1>1, <1>2, <1>3, <1>4, <1>5, <1>6, <1>7

LEMMA NewSessionInv ==
  ASSUME IInv, NEW s \in Session, NewSession(s) PROVE IInv'
<1> USE ObjectsAssumption DEF IInv, Thing, runtimeVars, host, registry, request, sandbox, coding
<1>1. TypeOK'
  BY DEF TypeOK, Placed, Encoding, NewSession, NewWorkerMakes, NewStore, Emptied, NoEntry, ClassFor, Instance
<1>2. Named'
  BY DEF TypeOK, Named, Placed, NewSession, NewWorkerMakes, NewStore, Emptied, NoEntry, ClassFor, Instance
<1>3. Entered'
  BY DEF TypeOK, Entered, Named, Placed, NewSession, NewWorkerMakes, NewStore, Emptied, NoEntry, ClassFor, Instance
<1>4. Paired'
  BY DEF TypeOK, Paired, Placed, Named, NewSession, NewWorkerMakes, NewStore, Emptied, NoEntry, ClassFor, Instance
<1>5. Placed'
  BY DEF TypeOK, Placed, NewSession, NewWorkerMakes, NewStore, Emptied, NoEntry, ClassFor, Instance
<1>6. Findable'
  <2>0. pc[s] = "idle" /\ out[s] = {}
    BY DEF Placed, NewSession, NewWorkerMakes
  <2>1. given'[s] = {}
    BY DEF TypeOK, NewSession, Emptied
  <2>2. ASSUME NEW t \in Session, t # s
        PROVE  /\ objects'[t] = objects[t] /\ classes'[t] = classes[t]
               /\ given'[t] = given[t] /\ foreign'[t] = foreign[t]
    BY <2>2 DEF TypeOK, NewSession, NewStore, Emptied
  <2> QED BY <2>0, <2>1, <2>2 DEF Findable, Finds, NewSession, ClassFor
<1>7. Noted'
  BY DEF TypeOK, Noted, Placed, Named, Entered, NewSession, NewWorkerMakes, NewStore, Emptied, NoEntry, ClassFor, Instance
<1> QED BY <1>1, <1>2, <1>3, <1>4, <1>5, <1>6, <1>7

LEMMA ResetInv ==
  ASSUME IInv, NEW s \in Session, Reset(s) PROVE IInv'
<1> USE ObjectsAssumption DEF IInv, Thing, runtimeVars, host, registry, request, sandbox, coding
<1>1. TypeOK'
  BY DEF TypeOK, Placed, Encoding, Reset, NewStore, Emptied, NoEntry, Alive, ClassFor
<1>2. Named'
  BY DEF TypeOK, Named, Placed, Reset, NewStore, Emptied, NoEntry, Alive, ClassFor
<1>3. Entered'
  BY DEF TypeOK, Entered, Named, Placed, Reset, NewStore, Emptied, NoEntry, Alive, ClassFor
<1>4. Paired'
  BY DEF TypeOK, Paired, Placed, Named, Reset, NewStore, Emptied, NoEntry, Alive, ClassFor
<1>5. Placed'
  BY DEF TypeOK, Placed, Reset, NewStore, Emptied, NoEntry, Alive, ClassFor
<1>6. Findable'
  BY DEF TypeOK, Entered, Paired, Placed, Findable, Finds, Named, Reset, NewStore, Emptied, NoEntry, Alive, ClassFor
<1>7. Noted'
  BY DEF TypeOK, Noted, Placed, Named, Entered, Reset, NewStore, Emptied, NoEntry, Alive, ClassFor
<1> QED BY <1>1, <1>2, <1>3, <1>4, <1>5, <1>6, <1>7

LEMMA RestoreInv ==
  ASSUME IInv, NEW s \in Session, Restore(s) PROVE IInv'
<1> USE ObjectsAssumption DEF IInv, Thing, runtimeVars, host, registry, request, sandbox, coding
<1>1. TypeOK'
  BY DEF TypeOK, Placed, Encoding, Restore, NewStore, NoEntry, Alive, ClassFor
<1>2. Named'
  BY DEF TypeOK, Named, Placed, Restore, NewStore, NoEntry, Alive, ClassFor
<1>3. Entered'
  BY DEF TypeOK, Entered, Named, Placed, Restore, NewStore, NoEntry, Alive, ClassFor
<1>4. Paired'
  BY DEF TypeOK, Paired, Placed, Named, Restore, NewStore, NoEntry, Alive, ClassFor
<1>5. Placed'
  BY DEF TypeOK, Placed, Restore, NewStore, NoEntry, Alive, ClassFor
<1>6. Findable'
  BY DEF TypeOK, Entered, Paired, Placed, Findable, Finds, Named, Restore, NewStore, NoEntry, Alive, ClassFor
<1>7. Noted'
  BY DEF TypeOK, Noted, Placed, Named, Entered, Restore, NewStore, NoEntry, Alive, ClassFor
<1> QED BY <1>1, <1>2, <1>3, <1>4, <1>5, <1>6, <1>7

LEMMA EndsInv ==
  ASSUME IInv, NEW s \in Session, Ends(s) PROVE IInv'
<1> USE ObjectsAssumption DEF IInv, Thing, runtimeVars, host, registry, request, sandbox, coding
<1>1. TypeOK'
  BY DEF TypeOK, Placed, Encoding, Ends, WorkerClose, NewStore, Emptied, Rested, GoTo, NoEntry, ClassFor, Instance
<1>2. Named'
  BY DEF TypeOK, Named, Placed, Ends, WorkerClose, NewStore, Emptied, Rested, GoTo, NoEntry, ClassFor, Instance
<1>3. Entered'
  BY DEF TypeOK, Entered, Named, Placed, Ends, WorkerClose, NewStore, Emptied, Rested, GoTo, NoEntry, ClassFor, Instance
<1>4. Paired'
  BY DEF TypeOK, Paired, Placed, Named, Ends, WorkerClose, NewStore, Emptied, Rested, GoTo, NoEntry, ClassFor, Instance
<1>5. Placed'
  BY DEF TypeOK, Placed, Ends, WorkerClose, NewStore, Emptied, Rested, GoTo, NoEntry, ClassFor, Instance
<1>6. Findable'
  BY DEF TypeOK, Entered, Paired, Placed, Findable, Finds, Named, Ends, WorkerClose, NewStore, Emptied, Rested, GoTo, NoEntry, ClassFor, Instance
<1>7. Noted'
  BY DEF TypeOK, Noted, Placed, Named, Entered, Ends, WorkerClose, NewStore, Emptied, Rested, GoTo, NoEntry, ClassFor, Instance
<1> QED BY <1>1, <1>2, <1>3, <1>4, <1>5, <1>6, <1>7

LEMMA ClosesInv ==
  ASSUME IInv, Closes PROVE IInv'
<1> USE ObjectsAssumption DEF Thing, runtimeVars, host, registry, request, sandbox, coding
<1>1. TypeOK'
  BY DEF IInv, TypeOK, Closes, RuntimeClose, Each, NoEntry, Instance
<1>2. Named' /\ Entered' /\ Paired'
  BY DEF IInv, TypeOK, Named, Entered, Paired, Closes, Each, NoEntry
<1>3. Placed' /\ Findable' /\ Noted'
  BY DEF IInv, TypeOK, Placed, Findable, Noted, Closes, Each, NoEntry
<1> QED BY <1>1, <1>2, <1>3 DEF IInv

\* Nothing of the invariant looks at the runtime but at the instances.
LEMMA RestInv ==
  ASSUME IInv, UNCHANGED << mod, host, registry, request, sandbox, coding, lost >>
  PROVE  IInv'
<1> USE DEF IInv, host, registry, request, sandbox, coding
<1>1. TypeOK'
  BY DEF TypeOK
<1>2. Named' /\ Entered' /\ Paired'
  BY DEF Named, Entered, Paired
<1>3. Placed' /\ Findable' /\ Noted'
  BY DEF Placed, Findable, Finds, Noted
<1> QED BY <1>1, <1>2, <1>3

LEMMA InitInv == Init => IInv
<1> SUFFICES ASSUME Init PROVE IInv
  OBVIOUS
<1> USE ObjectsAssumption DEF Thing
<1>1. TypeOK
  BY DEF TypeOK, Init, RuntimeInit, Each, NoEntry, Instance
<1>2. Named /\ Entered /\ Paired
  BY DEF Init, Named, Entered, Paired, Each, NoEntry
<1>3. Placed /\ Findable /\ Noted
  BY DEF Init, Placed, Findable, Noted, Each, NoEntry
<1> QED BY <1>1, <1>2, <1>3 DEF IInv

LEMMA NextInv == IInv /\ [Next]_vars => IInv'
<1> SUFFICES ASSUME IInv, [Next]_vars PROVE IInv'
  OBVIOUS
<1>1. ASSUME NewRuntime, UNCHANGED << host, registry, request, sandbox, coding, lost >>
      PROVE  IInv'
  <2>1. UNCHANGED mod
    BY <1>1 DEF NewRuntime, BootCache, BootModules, BootProbe, BootVersions
  <2> QED BY <1>1, <2>1, RestInv
<1>2. ASSUME NEW s \in Session, NEW x \in Thing, Encode(s, x)
      PROVE  IInv'
  BY <1>2, EncodeInv
<1>3. ASSUME NEW s \in Session,
             RegisterClass(s) \/ Name(s) \/ WireClass(s) \/ ClassAttrs(s) \/ MarkSent(s)
      PROVE  IInv'
  BY <1>3, RegisterClassInv, NameInv, WireClassInv, ClassAttrsInv, MarkSentInv
<1>4. ASSUME NEW s \in Session,
             RegisterObject(s) \/ WireObject(s) \/ Send(s) \/ GiveUp(s)
      PROVE  IInv'
  BY <1>4, RegisterObjectInv, WireObjectInv, SendInv, GiveUpInv
<1>5. ASSUME NEW s \in Session,
             Looks(s) \/ NewSession(s) \/ Ends(s) \/ Reset(s) \/ Restore(s)
      PROVE  IInv'
  BY <1>5, LooksInv, NewSessionInv, EndsInv, ResetInv, RestoreInv
<1>6. CASE UNCHANGED vars
  BY <1>6, RestInv DEF vars, runtimeVars
<1> QED BY <1>1, <1>2, <1>3, <1>4, <1>5, <1>6, ClosesInv DEF Next

\* The invariant holds in every reachable state.
THEOREM Safe == Spec => []IInv
<1> QED BY InitInv, NextInv, PTL DEF Spec

(***************************************************************************)
(* The theorems                                                            *)
(***************************************************************************)

\* Every step of the encoding, of a session's life and of the runtime's leaves
\* every variable in its type.
THEOREM TypeCorrect == Spec => []TypeOK
<1>1. IInv => TypeOK
  BY DEF IInv
<1> QED BY <1>1, Safe, PTL

\* However many sessions share however many classes and objects, race for their
\* ids, reset, restore and close: an id the sandbox was given reaches the thing
\* it stands for or nothing.
THEOREM Routed == Spec => []NeverMisrouted
<1>1. IInv => NeverMisrouted
  BY DEF IInv, Entered, Paired, TypeOK, NeverMisrouted, resolve
<1> QED BY <1>1, Safe, PTL

\* It reaches the thing itself, except after a restore or a race.
THEOREM Reached == Spec => []ReachesHost
<1>1. IInv => ReachesHost
  BY ObjectsAssumption
  DEF IInv, TypeOK, Findable, Finds, Entered, Paired, ReachesHost, resolve, Thing
<1> QED BY <1>1, Safe, PTL

\* Between runs the store's note of the classes sent is right.
THEOREM AttrsAgree == Spec => []AttrsArrive
<1>1. IInv => AttrsArrive
  BY DEF IInv, Placed, Noted, AttrsArrive
<1> QED BY <1>1, Safe, PTL

(***************************************************************************)
(* The runtime                                                             *)
(***************************************************************************)

LEMMA RuntimeInitInv == Init => RInv
BY DEF Init, RuntimeInit, RInv, Booted, NothingLeaks, Instance

LEMMA RuntimeNextInv == RInv /\ [Next]_vars => RInv'
<1> SUFFICES ASSUME RInv, [Next]_vars PROVE RInv'
  OBVIOUS
<1> USE DEF RInv, Booted, NothingLeaks
<1>1. CASE NewRuntime
  BY <1>1 DEF NewRuntime, BootCache, BootModules, BootProbe, BootVersions, After
<1>2. CASE RuntimeClose
  BY <1>2 DEF RuntimeClose, Instance
<1>3. ASSUME NEW s \in Session, NewWorkerLooks(s) PROVE RInv'
  BY <1>3 DEF NewWorkerLooks
<1>4. ASSUME NEW s \in Session, NewWorkerMakes(s) PROVE RInv'
  BY <1>4 DEF NewWorkerMakes, Instance
<1>5. ASSUME NEW s \in Session, WorkerClose(s) PROVE RInv'
  BY <1>5 DEF WorkerClose, Instance
<1>6. CASE UNCHANGED runtimeVars
  BY <1>6 DEF runtimeVars
<1>7. ASSUME Next
      PROVE  \/ NewRuntime \/ RuntimeClose
             \/ \E s \in Session : NewWorkerLooks(s) \/ NewWorkerMakes(s) \/ WorkerClose(s)
             \/ UNCHANGED runtimeVars
  BY <1>7 DEF Next, Closes, Looks, NewSession, Ends, Encode, RegisterClass, Name,
     WireClass, ClassAttrs, MarkSent, RegisterObject, WireObject, Send, GiveUp,
     Reset, Restore
<1> QED BY <1>1, <1>2, <1>3, <1>4, <1>5, <1>6, <1>7 DEF vars

\* Close closes the engine and every instance, also one that newWorker makes
\* after it looked at closed; a NewRuntime that fails leaves nothing open, and
\* none leaves its probe.
THEOREM ClosedIsClosed == Spec => []NothingLeaks
<1>1. RInv => NothingLeaks
  BY DEF RInv
<1> QED BY <1>1, RuntimeInitInv, RuntimeNextInv, PTL DEF Spec
=============================================================================
