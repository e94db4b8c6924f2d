------------------------------- MODULE Objects -------------------------------
(***************************************************************************)
(* Host objects and classes (objects.go, value.go, session.go): Go values  *)
(* that a session passes into its sandbox by identity.  The session's      *)
(* objectStore finds them again when code calls a method, and remembers    *)
(* which classes went in with their attributes.                            *)
(*                                                                         *)
(* A session encodes under its own lock, but classes and objects belong to *)
(* the caller, who may pass them to sessions in several goroutines.  Their *)
(* id is assigned at first use, without a lock: encoding takes one step    *)
(* per use of the id.                                                      *)
(***************************************************************************)
EXTENDS Runtime, FiniteSets

CONSTANTS
  Class,        \* HostClasses
  Object,       \* HostObjects
  ClassOf,      \* HostObject.Class
  WithAttrs,    \* classes that have Attrs
  Id,           \* what newUUID may return
  NoId,         \* the id that is not assigned yet
  None,
  MaxOut        \* bound: a request that has this many ids is full

Thing == Class \cup Object

ASSUME ObjectsAssumption ==
  /\ ClassOf \in [Object -> Class]
  /\ Class \cap Object = {}
  /\ WithAttrs \subseteq Class
  /\ NoId \notin Id
  /\ None \notin Thing

VARIABLES
  id,         \* HostClass.id, HostObject.id
  own,        \* the thing an id was made for; newUUID never repeats itself
  pc,         \* what the session's goroutine does next
  cur,        \* the thing it encodes
  naming,     \* the thing whose id it is about to assign
  wire,       \* the id in the pb.Type it builds
  objects,    \* objectStore.objects, per session
  classes,    \* objectStore.classes
  sent,       \* objectStore.sentClasses
  out,        \* ids in the request so far, with what they stand for
  outAttrs,   \* classes whose attributes are in it
  given,      \* ids the sandbox was given, with what they stand for
  has,        \* classes whose attributes it was given
  lost,       \* history: classes whose attributes were in a request not sent
  foreign,    \* history: ids the sandbox knows from a dump
  raced       \* history: things that were given an id twice

host == << id, own, raced >>
registry == << objects, classes, sent >>
request == << out, outAttrs >>
sandbox == << given, has, foreign >>
coding == << pc, cur, naming, wire >>

vars == << runtimeVars, host, registry, request, sandbox, coding, lost >>

Encoding == {"class", "name", "wire", "attrs", "mark", "object", "nameObject", "wireObject"}

ClassFor(x) == IF x \in Class THEN x ELSE ClassOf[x]

Alive(s) == mod[s] = "live"

NoEntry == [i \in Id |-> None]

Each(value) == [s \in Session |-> value]

Init ==
  /\ RuntimeInit
  /\ id = [x \in Thing |-> NoId]
  /\ own = NoEntry
  /\ raced = {}
  /\ pc = Each("idle") /\ cur = Each(None) /\ naming = Each(None) /\ wire = Each(NoId)
  /\ objects = Each(NoEntry) /\ classes = Each(NoEntry) /\ sent = Each({})
  /\ out = Each({}) /\ outAttrs = Each({})
  /\ given = Each({}) /\ has = Each({}) /\ foreign = Each({})
  /\ lost = Each({})

(***************************************************************************)
(* Encoding                                                                *)
(***************************************************************************)

At(s, p) == pc[s] = p /\ Alive(s)
GoTo(s, p) == pc' = [pc EXCEPT ![s] = p]

\* A value to encode: an input of a feed, an attribute, a result.
Encode(s, x) ==
  /\ pc[s] \in {"idle", "item"}
  /\ Alive(s)
  /\ Cardinality(out[s]) < MaxOut
  /\ GoTo(s, "class")
  /\ cur' = [cur EXCEPT ![s] = x]
  /\ UNCHANGED << runtimeVars, host, registry, request, sandbox, naming, wire, lost >>

\* ID when it finds no id, up to the point where it makes one.
LooksUnnamed(s, x, p) ==
  /\ id[x] = NoId
  /\ GoTo(s, p)
  /\ naming' = [naming EXCEPT ![s] = x]
  /\ UNCHANGED << registry, wire >>

\* encodeClass begins with registerClass, which asks for the id.
RegisterClass(s) ==
  /\ At(s, "class")
  /\ LET c == ClassFor(cur[s]) IN
     \/ LooksUnnamed(s, c, "name")
     \/ /\ id[c] # NoId
        /\ classes' = [classes EXCEPT ![s][id[c]] = c]
        /\ GoTo(s, "wire")
        /\ UNCHANGED << objects, sent, naming, wire >>
  /\ UNCHANGED << runtimeVars, host, request, sandbox, cur, lost >>

\* ID assigns a new uuid, and then reads the field again to return it.
Name(s) ==
  /\ At(s, "name") \/ At(s, "nameObject")
  /\ \E i \in { j \in Id : own[j] = None } :
       /\ id' = [id EXCEPT ![naming[s]] = i]
       /\ own' = [own EXCEPT ![i] = naming[s]]
  /\ raced' = IF id[naming[s]] = NoId THEN raced ELSE raced \cup {naming[s]}
  /\ GoTo(s, IF pc[s] = "name" THEN "class" ELSE "object")
  /\ naming' = [naming EXCEPT ![s] = None]
  /\ UNCHANGED << runtimeVars, registry, request, sandbox, cur, wire, lost >>

\* The pb.Type gets the id.
WireClass(s) ==
  /\ At(s, "wire")
  /\ LET c == ClassFor(cur[s]) IN
     /\ wire' = [wire EXCEPT ![s] = id[c]]
     /\ out' = [out EXCEPT ![s] = @ \cup {<< id[c], c >>}]
  /\ GoTo(s, "attrs")
  /\ UNCHANGED << runtimeVars, host, registry, outAttrs, sandbox, cur, naming, lost >>

\* The value is done; the next one of the request, or the request itself.
Done(s) == GoTo(s, "item") /\ cur' = [cur EXCEPT ![s] = None]

Classed(s) ==
  /\ wire' = [wire EXCEPT ![s] = NoId]
  /\ \/ cur[s] \in Class /\ Done(s)
     \/ cur[s] \in Object /\ GoTo(s, "object") /\ UNCHANGED cur

\* Attrs go in unless the session sent them before.
SendsAttrs(s) == ClassFor(cur[s]) \in WithAttrs /\ id[ClassFor(cur[s])] \notin sent[s]

ClassAttrs(s) ==
  /\ At(s, "attrs")
  /\ \/ /\ SendsAttrs(s)
        /\ outAttrs' = [outAttrs EXCEPT ![s] = @ \cup {wire[s]}]
        /\ GoTo(s, "mark")
        /\ UNCHANGED << cur, wire >>
     \/ /\ ~SendsAttrs(s)
        /\ Classed(s)
        /\ UNCHANGED outAttrs
  /\ UNCHANGED << runtimeVars, host, registry, out, sandbox, naming, lost >>

MarkSent(s) ==
  /\ At(s, "mark")
  /\ sent' = [sent EXCEPT ![s] = @ \cup {id[ClassFor(cur[s])]}]
  /\ Classed(s)
  /\ UNCHANGED << runtimeVars, host, objects, classes, request, sandbox,
                  naming, lost >>

\* Mutant: the object is not registered, only its class was.
RegisterObjectNot(s) ==
  /\ At(s, "object")
  /\ LET o == cur[s] IN
     \/ LooksUnnamed(s, o, "nameObject")
     \/ /\ id[o] # NoId
        /\ GoTo(s, "wireObject")
        /\ UNCHANGED << registry, naming, wire >>
  /\ UNCHANGED << runtimeVars, host, request, sandbox, cur, lost >>

\* Mutant: the object is registered under the id of its class.
RegisterObjectAsClass(s) ==
  /\ At(s, "object")
  /\ LET o == cur[s] IN
     \/ LooksUnnamed(s, o, "nameObject")
     \/ /\ id[o] # NoId
        /\ objects' = [objects EXCEPT ![s][id[ClassOf[o]]] = o]
        /\ GoTo(s, "wireObject")
        /\ UNCHANGED << classes, sent, naming, wire >>
  /\ UNCHANGED << runtimeVars, host, request, sandbox, cur, lost >>

\* registerObject registers the class once more, under the id it has by now.
RegisterObject(s) ==
  /\ At(s, "object")
  /\ LET o == cur[s] IN
     \/ LooksUnnamed(s, o, "nameObject")
     \/ /\ id[o] # NoId
        /\ objects' = [objects EXCEPT ![s][id[o]] = o]
        /\ classes' = [classes EXCEPT ![s][id[ClassOf[o]]] = ClassOf[o]]
        /\ GoTo(s, "wireObject")
        /\ UNCHANGED << sent, naming, wire >>
  /\ UNCHANGED << runtimeVars, host, request, sandbox, cur, lost >>

WireObject(s) ==
  /\ At(s, "wireObject")
  /\ out' = [out EXCEPT ![s] = @ \cup {<< id[cur[s]], cur[s] >>}]
  /\ Done(s)
  /\ UNCHANGED << runtimeVars, host, registry, outAttrs, sandbox, naming, wire, lost >>

(***************************************************************************)
(* The request goes out, or not                                            *)
(***************************************************************************)

Rested(s) ==
  /\ GoTo(s, "idle")
  /\ cur' = [cur EXCEPT ![s] = None]
  /\ wire' = [wire EXCEPT ![s] = NoId]
  /\ out' = [out EXCEPT ![s] = {}]
  /\ outAttrs' = [outAttrs EXCEPT ![s] = {}]
  /\ UNCHANGED naming

Send(s) ==
  /\ At(s, "item")
  /\ given' = [given EXCEPT ![s] = @ \cup out[s]]
  /\ has' = [has EXCEPT ![s] = @ \cup outAttrs[s]]
  /\ foreign' = [foreign EXCEPT ![s] = @ \ { g[1] : g \in out[s] }]
  /\ Rested(s)
  /\ UNCHANGED << runtimeVars, host, registry, lost >>

\* Another input, or an attribute, does not encode, or the request is over the
\* frame limit: nothing is sent, but the store keeps what it noted.
GiveUp(s) ==
  /\ At(s, "item") \/ At(s, "attrs") \/ At(s, "wireObject")
  /\ lost' = [lost EXCEPT ![s] = @ \cup outAttrs[s]]
  /\ Rested(s)
  /\ UNCHANGED << runtimeVars, host, registry, sandbox >>

(***************************************************************************)
(* Sessions begin and end                                                  *)
(***************************************************************************)

NewStore(s) ==
  /\ objects' = [objects EXCEPT ![s] = NoEntry]
  /\ classes' = [classes EXCEPT ![s] = NoEntry]
  /\ sent' = [sent EXCEPT ![s] = {}]
  /\ lost' = [lost EXCEPT ![s] = {}]

Emptied(s) ==
  /\ given' = [given EXCEPT ![s] = {}]
  /\ has' = [has EXCEPT ![s] = {}]
  /\ foreign' = [foreign EXCEPT ![s] = {}]

Looks(s) ==
  /\ NewWorkerLooks(s)
  /\ UNCHANGED << host, registry, request, sandbox, coding, lost >>

\* NewSession: a worker, a store, an empty sandbox.
NewSession(s) ==
  /\ NewWorkerMakes(s)
  /\ NewStore(s)
  /\ Emptied(s)
  /\ UNCHANGED << host, request, coding >>

\* Mutant: Reset keeps the note of the classes sent.
ResetKeeps(s) ==
  /\ pc[s] = "idle"
  /\ Alive(s)
  /\ Emptied(s)
  /\ UNCHANGED << runtimeVars, host, registry, request, coding, lost >>

\* Reset, and the release of a pooled worker, drop the store with the sandbox.
Reset(s) ==
  /\ pc[s] = "idle"
  /\ Alive(s)
  /\ NewStore(s)
  /\ Emptied(s)
  /\ UNCHANGED << runtimeVars, host, request, coding >>

\* Dump and Restore: the sandbox keeps what it was given, the new session has
\* no store for it.
Restore(s) ==
  /\ pc[s] = "idle"
  /\ Alive(s)
  /\ NewStore(s)
  /\ foreign' = [foreign EXCEPT ![s] = @ \cup { g[1] : g \in given[s] }]
  /\ UNCHANGED << runtimeVars, host, request, given, has, coding >>

\* Close; a worker that dies in its turn ends the session the same way.
Ends(s) ==
  /\ pc[s] \in {"idle", "item"}
  /\ WorkerClose(s)
  /\ NewStore(s)
  /\ Emptied(s)
  /\ Rested(s)
  /\ UNCHANGED host

\* Runtime.Close while sessions encode: their turn finds the worker dead.
Closes ==
  /\ RuntimeClose
  /\ pc' = Each("idle") /\ cur' = Each(None) /\ naming' = Each(None) /\ wire' = Each(NoId)
  /\ objects' = Each(NoEntry) /\ classes' = Each(NoEntry) /\ sent' = Each({})
  /\ out' = Each({}) /\ outAttrs' = Each({})
  /\ given' = Each({}) /\ has' = Each({}) /\ foreign' = Each({})
  /\ lost' = Each({})
  /\ UNCHANGED host

Next ==
  \/ NewRuntime /\ UNCHANGED << host, registry, request, sandbox, coding, lost >>
  \/ Closes
  \/ \E s \in Session :
       \/ Looks(s) \/ NewSession(s) \/ Ends(s)
       \/ \E x \in Thing : Encode(s, x)
       \/ RegisterClass(s) \/ Name(s) \/ WireClass(s) \/ ClassAttrs(s) \/ MarkSent(s)
       \/ RegisterObject(s) \/ WireObject(s)
       \/ Send(s) \/ GiveUp(s)
       \/ Reset(s) \/ Restore(s)

Spec == Init /\ [][Next]_vars

(***************************************************************************)
(* Properties                                                              *)
(***************************************************************************)

\* The type invariant.
TypeOK ==
  /\ mod \in [Session -> Instance \cup {"looked"}]
  /\ id \in [Thing -> Id \cup {NoId}]
  /\ own \in [Id -> Thing \cup {None}]
  /\ pc \in [Session -> Encoding \cup {"idle", "item"}]
  /\ cur \in [Session -> Thing \cup {None}]
  /\ naming \in [Session -> Thing \cup {None}]
  /\ wire \in [Session -> Id \cup {NoId}]
  /\ objects \in [Session -> [Id -> Object \cup {None}]]
  /\ classes \in [Session -> [Id -> Class \cup {None}]]
  /\ out \in [Session -> SUBSET (Id \X Thing)]
  /\ given \in [Session -> SUBSET (Id \X Thing)]
  /\ outAttrs \in [Session -> SUBSET Id]
  /\ has \in [Session -> SUBSET Id]
  /\ sent \in [Session -> SUBSET Id]
  /\ lost \in [Session -> SUBSET Id]
  /\ foreign \in [Session -> SUBSET Id]
  /\ raced \subseteq Thing

\* resolveReceiver: what a call that names the id reaches, and what decode
\* makes of a value that carries it.
resolve(s, i) == IF objects[s][i] # None THEN objects[s][i] ELSE classes[s][i]

\* A call that sandbox code makes on a host object, or a host object it hands
\* back, reaches that very object or nothing, however sessions share objects,
\* race for their ids, reset and restore.
NeverMisrouted ==
  \A s \in Session : Alive(s) =>
    \A g \in given[s] : resolve(s, g[1]) \in {g[2], None}

\* It does reach it, unless the sandbox knows the object from a dump only, or
\* two goroutines were the first to use the object at the same time.
ReachesHost ==
  \A s \in Session : Alive(s) =>
    \A g \in given[s] :
      g[1] \in foreign[s] \/ g[2] \in raced \/ resolve(s, g[1]) = g[2]

\* Between runs, a class noted as sent is one whose attributes the sandbox
\* has, unless the request that carried them was never sent, or the class has
\* two ids.
AttrsArrive ==
  \A s \in Session : Alive(s) /\ pc[s] = "idle" =>
    \A i \in sent[s] : i \in has[s] \cup lost[s] \/ own[i] \in raced
=============================================================================
