------------------------------ MODULE OSCalls ------------------------------
(***************************************************************************)
(* OS calls of the sandbox (oscall.go, fs.go): the handlers are asked one  *)
(* after the other, a path means to each what it is below its mount, and   *)
(* the first that answers has the call.  What a mounted filesystem does    *)
(* with its files is in Mount; here it is a MemFS of which only Rename     *)
(* matters, a range over a map that it changes as it goes.                 *)
(*                                                                         *)
(* A path is the sequence of its elements, "" for a doubled slash.  Names  *)
(* are spelt, because prefixes of strings are compared.                    *)
(***************************************************************************)
EXTENDS Errors, SequencesExt

CONSTANTS
  Spelling,   \* the letters of every name
  MaxDepth,   \* bound: a name Rename made is found by its own loop up to this depth
  Mounts,     \* sequences of handlers
  OSRequests, \* calls, decoded
  Stored      \* what the mounts may hold: files of a map, by the name of the map

VARIABLES
  stage,      \* "idle", "asking", "ranging", "served"
  handlers,   \* of Handlers
  call,       \* the OSCall
  at,         \* the handler that is asked
  before,     \* what the mounts held when the call came
  files,      \* what they hold
  todo,       \* the names that the range of Rename will still produce
  result      \* of the handlers

osVars == << stage, handlers, call, at, before, files, todo, result >>

Names == DOMAIN Spelling
Element == Names \cup {"", ".", ".."}

\* A name is spelt without a slash, and like no other name.
ASSUME SpellingAssumption ==
  /\ Names \cap {"", ".", ".."} = {}
  /\ \A n \in Names : /\ Spelling[n] \in Seq({ Spelling[n][i] : i \in DOMAIN Spelling[n] })
                      /\ \A i \in DOMAIN Spelling[n] : Spelling[n][i] # "/"
  /\ \A n, o \in Names : Spelling[n] = Spelling[o] => n = o

PathCalls == {"stat", "iterdir", "resolve", "rename"}
Others == {"getenv", "get_environ", "date_today", "datetime_now"}

IsHandler(h) ==
  /\ h.kind \in {"nil", "fs", "env", "clock"}
  /\ h.kind = "fs" => h.mount \in Seq(Element) /\ \A f \in Stored : h.files \in DOMAIN f

\* MapFS holds its files by names without "." or "..", none is the mount itself.
ASSUME OSAssumption ==
  /\ \A hs \in Mounts : /\ hs \in Seq({ hs[i] : i \in DOMAIN hs })
                        /\ \A i \in DOMAIN hs : IsHandler(hs[i])
  /\ \A c \in OSRequests :
       c.name \in PathCalls \cup Others /\ c.path \in Seq(Element) /\ c.dest \in Seq(Element)
  /\ \A s \in Stored :
       /\ s = [f \in DOMAIN s |-> s[f]]
       /\ \A f \in DOMAIN s : /\ s[f] = [p \in DOMAIN s[f] |-> s[f][p]]
                              /\ DOMAIN s[f] \subseteq Seq(Names) \ {<< >>}

None == << "none" >>
NotHandled == << "notHandled" >>
Ret(v) == << "return", v >>
Raise(type) == << "raise", type >>

(***************************************************************************)
(* FS: paths of the sandbox and names inside the mount                     *)
(***************************************************************************)

\* path.Clean of "/" and the path.
Clean(p) ==
  LET q[i \in 0..Len(p)] ==
        IF i = 0 THEN << >>
        ELSE CASE p[i] \in {"", "."} -> q[i - 1]
               [] p[i] = ".." -> IF q[i - 1] = << >> THEN << >> ELSE Front(q[i - 1])
               [] OTHER -> Append(q[i - 1], p[i])
  IN q[Len(p)]

Spelt(p) == FlattenSeq([i \in DOMAIN p |-> << "/" >> \o Spelling[p[i]]])

NotBelow == << "" >>

\* Mutant: "/database" taken for a name inside "/data".
relativeByLetters(mount, p) ==
  IF IsPrefix(Spelt(Clean(mount)), Spelt(Clean(p)))
  THEN SubSeq(Clean(p), Len(Clean(mount)) + 1, Len(Clean(p)))
  ELSE NotBelow

relative(mount, p) ==
  LET m == Clean(mount)
      c == Clean(p)
  IN CASE m = << >> -> c
       [] c = m /\ m # << >> -> << >>
       [] c # m /\ m # << >> /\ IsPrefix(Spelt(m) \o << "/" >>, Spelt(c)) ->
            SubSeq(c, Len(m) + 1, Len(c))
       [] OTHER -> NotBelow

virtual(mount, name) == Clean(mount) \o Clean(name)

(***************************************************************************)
(* Handlers                                                                *)
(***************************************************************************)

Within(p, q) == IsPrefix(q, p)

\* MapFS knows a directory by the entries below it.
Found(m, p) == p = << >> \/ \E q \in DOMAIN m : Within(q, p)

Directory(m, p) == Found(m, p) /\ (p \in DOMAIN m => m[p] = "dir")

\* StatResult; of the ten fields the mode.
StatResult(isDir) ==
  << "namedTuple", "os.stat_result", << "st_mode" >>, << << "int", IF isDir THEN 40 ELSE 10 >> >> >>

Failed(e) == LET x == fsError(e) IN IF x[1] = "exception" THEN Raise(x[2]) ELSE NotHandled

\* MemFS.Rename has looked and ranges over its map now.
Ranges == << "ranges" >>

\* Up to the range.
Rename(m, old, new) ==
  CASE ~Found(m, old) -> Failed(Sentinel("ENOENT"))
    [] Found(m, old) /\ new = << >> -> Failed(Sentinel("ErrInvalid"))
    [] Found(m, old) /\ new # << >> -> Ranges

\* MapFS does not list a file, with an error that nothing compares with.
Listing(h, m, name) ==
  CASE Directory(m, name) ->
         Ret(<< "paths", { virtual(h.mount, SubSeq(q, 1, Len(name) + 1)) :
                           q \in { r \in DOMAIN m : Within(r, name) /\ r # name } } >>)
    [] Found(m, name) /\ ~Directory(m, name) -> Failed(Plainly("not implemented"))
    [] ~Found(m, name) -> Failed(Sentinel("ENOENT"))

\* FS.HandleOSCall.
HandleOSCall(h, c, m) ==
  LET name == relative(h.mount, c.path)
      dest == relative(h.mount, c.dest)
  IN CASE c.name \in Others \/ name = NotBelow -> NotHandled
       [] c.name = "resolve" /\ name # NotBelow -> Ret(<< "path", virtual(h.mount, name) >>)
       [] c.name = "iterdir" /\ name # NotBelow -> Listing(h, m, name)
       [] c.name = "stat" /\ name # NotBelow ->
            IF Found(m, name) THEN Ret(StatResult(Directory(m, name))) ELSE Failed(Sentinel("ENOENT"))
       [] c.name = "rename" /\ name # NotBelow ->
            IF dest = NotBelow THEN Raise("PermissionError") ELSE Rename(m, name, dest)

Env(h, c) ==
  CASE c.name = "getenv" ->
         IF c.key \in DOMAIN h.vars THEN Ret(<< "str", h.vars[c.key] >>) ELSE Ret(c.default)
    [] c.name = "get_environ" -> Ret(<< "map", [k \in DOMAIN h.vars |-> << "str", h.vars[k] >>] >>)
    [] OTHER -> NotHandled

Clock(h, c) ==
  IF c.name \in {"date_today", "datetime_now"} THEN Ret(h.now) ELSE NotHandled

\* nil is passed over.
Asked(h) ==
  CASE h.kind = "nil" -> NotHandled
    [] h.kind = "fs" -> HandleOSCall(h, call, files[h.files])
    [] h.kind = "env" -> Env(h, call)
    [] h.kind = "clock" -> Clock(h, call)

(***************************************************************************)
(* The call on its way                                                     *)
(***************************************************************************)

Serving == << handlers, call, before >>

Asking == stage = "asking" /\ at \in DOMAIN handlers

Serve(r) == stage' = "served" /\ result' = r

\* Handlers: the next one is asked.
PassOver ==
  /\ Asking
  /\ Asked(handlers[at]) = NotHandled
  /\ at' = at + 1
  /\ UNCHANGED << stage, files, todo, result, Serving >>

\* The first answer that is not ErrNotHandled.
Answer ==
  /\ Asking
  /\ Asked(handlers[at]) \notin {NotHandled, Ranges}
  /\ Serve(Asked(handlers[at]))
  /\ UNCHANGED << at, files, todo, Serving >>

Exhausted ==
  /\ stage = "asking"
  /\ at \notin DOMAIN handlers
  /\ Serve(NotHandled)
  /\ UNCHANGED << at, files, todo, Serving >>

\* What the rename is about, in the words of the mount that has it.
Source == relative(handlers[at].mount, call.path)
Target == relative(handlers[at].mount, call.dest)
Held == files[handlers[at].files]

\* The mount itself is "." in the code, and no name begins with "./".
BeginRange ==
  /\ Asking
  /\ Asked(handlers[at]) = Ranges
  /\ stage' = "ranging"
  /\ todo' = { p \in DOMAIN Held : Source # << >> /\ Within(p, Source) }
  /\ UNCHANGED << at, files, result, Serving >>

\* Mutant: the entries below keep their full name.
MovedWhole(p, old, new) == IF p = old THEN new ELSE new \o p

Moved(p, old, new) == new \o SubSeq(p, Len(old) + 1, Len(p))

\* The range produces a name, which is moved.  The name it is moved to, if it
\* was not in the map, may or may not be one that the range produces.
Visit ==
  /\ stage = "ranging"
  /\ \E p \in todo :
       LET to == Moved(p, Source, Target)
           kept == DOMAIN Held \ {p}
           made == { q \in {to} : q \notin kept \cup {p} /\ Within(q, Source) /\ Len(q) <= MaxDepth }
       IN /\ files' = [files EXCEPT ![handlers[at].files] =
                         [n \in kept \cup {to} |-> IF n = to THEN Held[p] ELSE Held[n]]]
          /\ \E seen \in SUBSET made : todo' = (todo \ {p}) \cup seen
  /\ UNCHANGED << stage, at, result, Serving >>

EndRange ==
  /\ stage = "ranging"
  /\ todo = {}
  /\ Serve(Ret(<< "nil" >>))
  /\ UNCHANGED << at, files, todo, Serving >>

OSInit ==
  /\ stage = "asking"
  /\ handlers \in Mounts
  /\ call \in OSRequests
  /\ at = 1
  /\ before \in Stored
  /\ files = before
  /\ todo = {}
  /\ result = None

OSNext ==
  \/ PassOver
  \/ Answer
  \/ Exhausted
  \/ BeginRange
  \/ Visit
  \/ EndRange

OSSpec == OSInit /\ [][OSNext]_osVars

(***************************************************************************)
(* Properties                                                              *)
(***************************************************************************)

\* The mounts that a path lies in, by its elements, and the first in order.
Owners(hs, p) == { i \in DOMAIN hs : hs[i].kind = "fs" /\ IsPrefix(Clean(hs[i].mount), Clean(p)) }
FirstOf(S) == CHOOSE i \in S : \A j \in S : i <= j
Owner == handlers[FirstOf(Owners(handlers, call.path))]

\* A call about a path is answered by the first mount the path lies in, which
\* speaks of it by that path, and by no other; no other mount changes, and this
\* one only if it is told to (FS.relative, Handlers).
RoutingAgrees ==
  stage = "served" /\ call.name \in PathCalls =>
    LET p == Clean(call.path) IN
    IF Owners(handlers, call.path) = {} THEN result = NotHandled /\ files = before
    ELSE /\ result # NotHandled
         /\ \A f \in DOMAIN before : f # Owner.files \/ call.name # "rename" => files[f] = before[f]
         /\ call.name = "resolve" => result = Ret(<< "path", p >>)
         /\ call.name = "iterdir" /\ result[1] = "return" =>
              \A q \in result[2][2] : Len(q) = Len(p) + 1 /\ IsPrefix(p, q)

\* Rename takes all that was at a name to the other name and touches nothing
\* else, in whatever order the map is ranged over (MemFS.Rename).  If one of the
\* names lies below the other then the order decides what is below the two, but
\* still nothing else is touched.
RenameMoves ==
  stage = "served" /\ call.name = "rename" /\ result = Ret(<< "nil" >>) =>
    LET old == relative(Owner.mount, call.path)
        new == relative(Owner.mount, call.dest)
        was == before[Owner.files]
        is == files[Owner.files]
    IN /\ \A p \in DOMAIN was :
            Within(p, old) \/ Within(p, new) \/ (p \in DOMAIN is /\ is[p] = was[p])
       /\ \A p \in DOMAIN is : p \in DOMAIN was \/ Within(p, new)
       /\ Within(old, new) \/ Within(new, old) \/
          \A p \in DOMAIN was :
            IF Within(p, old)
            THEN /\ p \notin DOMAIN is
                 /\ LET q == new \o SubSeq(p, Len(old) + 1, Len(p))
                    IN q \in DOMAIN is /\ is[q] = was[p]
            ELSE p \in DOMAIN is
=============================================================================
