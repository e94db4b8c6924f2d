------------------------------- MODULE Worker -------------------------------
(***************************************************************************)
(* One protocol turn between the host and its worker: what worker.send     *)
(* (worker.go) may return for each request, given the state of the Monty   *)
(* protocol child that lives inside the worker's wasm instance.            *)
(*                                                                         *)
(* The child is code of the upstream interpreter, outside this repository; *)
(* it is modelled from the requests the host sends it, from the events     *)
(* session.go classifies and from the protocol file monty.proto.           *)
(*                                                                         *)
(* A worker is a record                                                    *)
(*   dead   the host will not call the instance again (worker.dead)        *)
(*   child  the state of the protocol child                                *)
(*   torn   the session in the child received a request that its state     *)
(*          does not allow: history that no code reads                     *)
(***************************************************************************)
EXTENDS Integers

CONSTANTS
  MaxExec,        \* bound: execution time up to which turns are told apart
  MalformedCalls  \* may the child suspend with a payload Go cannot decode?

ASSUME WorkerAssumption ==
  /\ MaxExec \in Nat
  /\ MalformedCalls \in BOOLEAN

(***************************************************************************)
(* The child                                                               *)
(***************************************************************************)

\* The events that end a turn with the interpreter waiting for the host.
Kinds == {"Call", "Lookup", "OS", "Futures"}

\* The suspensions that are counted and numbered: all but Futures, which
\* only reports that every task waits for calls that were deferred.
Counted == Kinds \ {"Futures"}

\*   st        no session, a session between feeds, or a feed that waits
\*   kind      the suspension it waits at, or "-"
\*   bad       the payload of that suspension does not decode to Go values
\*   calls     counted suspensions in the session's life; names the last one
\*   deferred  the calls answered with a future that is not settled
\*   exec      execution time consumed by the session
\*   max       the suspension limit the session was configured with
ChildState ==
  [ st : {"none", "idle", "paused"}, kind : Kinds \cup {"-"}, bad : BOOLEAN,
    calls : Nat, deferred : SUBSET Nat, exec : 0..MaxExec, max : Nat ]

NoSession ==
  [ st |-> "none", kind |-> "-", bad |-> FALSE,
    calls |-> 0, deferred |-> {}, exec |-> 0, max |-> 0 ]

WorkerState == [ dead : BOOLEAN, child : ChildState, torn : BOOLEAN ]

\* A freshly instantiated worker.
Fresh == [ dead |-> FALSE, child |-> NoSession, torn |-> FALSE ]

Waits(w, kinds) == w.child.st = "paused" /\ w.child.kind \in kinds

(***************************************************************************)
(* Replies: the event that ends the turn and the child after it.           *)
(***************************************************************************)

Reply(k, c) == [ k |-> k, child |-> c ]

\* Interpreting bytecode takes time; MaxExec stands for all times from there on.
Later(c) == IF c.exec < MaxExec THEN c.exec + 1 ELSE c.exec

Between(c, x) ==
  [ st |-> "idle", kind |-> "-", bad |-> FALSE,
    calls |-> c.calls, deferred |-> {}, exec |-> x, max |-> c.max ]

At(c, k, b, deferred, x) ==
  [ st |-> "paused", kind |-> k, bad |-> b,
    calls |-> IF k \in Counted THEN c.calls + 1 ELSE c.calls,
    deferred |-> deferred, exec |-> x, max |-> c.max ]

\* The feed is over. Whether the value of Complete decodes changes no state.
Ends(c, ks) == { Reply(k, Between(c, Later(c))) : k \in ks }

\* What may stop the feed: it waits for futures only if it has some.
Stops(deferred) ==
  { p \in Kinds \X BOOLEAN :
      /\ p[1] = "Futures" => deferred # {}
      /\ p[2] => MalformedCalls /\ p[1] \in {"Call", "OS"} }

Pauses(c, deferred) ==
  { Reply(p[1], At(c, p[1], p[2], deferred, Later(c))) : p \in Stops(deferred) }

\* The interpreter runs on with these calls deferred: room bounds the
\* suspensions of a behaviour.
Runs(c, deferred, room) ==
  Ends(c, {"Complete", "Error"}) \cup (IF room THEN Pauses(c, deferred) ELSE {})

(***************************************************************************)
(* worker.send                                                             *)
(***************************************************************************)

\* What a turn hands back: an error of send, or the event that ended it.
Outcome(err, k, w) == [ err |-> err, k |-> k, w |-> w ]

Unsendable(w) == { Outcome("unsendable", "-", w) }

Lost(w) == [ dead |-> TRUE, child |-> w.child, torn |-> w.torn ]

\* The instance trapped, ran out of memory, or its context was cancelled.
Died(w) == { Outcome("died", "-", Lost(w)) }

\* The host cannot read an event that the child streams: the rest of the turn
\* is not collected.  Or nothing but prints came.
Unread(w) == { Outcome("died", "-", Lost(w)) }

\* The child reports an unrecoverable error and stops.
Fatal(w) == { Outcome("none", "FatalError", Lost(w)) }

Replied(w, replies) ==
  { Outcome("none", r.k, [ dead |-> FALSE, child |-> r.child, torn |-> w.torn ]) :
      r \in replies }

\* A request the child cannot serve now: it says so and stays where it is.
Refused(w) ==
  { Outcome("none", "Error", [ dead |-> FALSE, child |-> w.child,
                               torn |-> w.torn \/ w.child.st # "none" ]) }

\* One turn: a dead worker is not called; a request with caller data may be
\* over the frame limit or not marshal, which leaves the worker as it was.
send(w, payload, allowed, replies) ==
  IF w.dead
  THEN { Outcome("closed", "-", w) }
  ELSE (IF payload THEN Unsendable(w) ELSE {})
       \cup Died(w) \cup Unread(w) \cup Fatal(w)
       \cup (IF allowed THEN Replied(w, replies) ELSE Refused(w))

(***************************************************************************)
(* The requests of the host, one operator each.                            *)
(***************************************************************************)

Configured(max) ==
  [ st |-> "idle", kind |-> "-", bad |-> FALSE,
    calls |-> 0, deferred |-> {}, exec |-> 0, max |-> max ]

SendConfigure(w, max) ==
  send(w, TRUE, w.child.st = "none",
       { Reply("Ok", Configured(max)),
         Reply("Error", w.child) })

\* Load re-emits the suspension of a session that was dumped while paused.
SendLoad(w, state) ==
  send(w, TRUE, w.child.st = "none",
       { Reply(IF state.st = "paused" THEN state.kind ELSE "Ok", state),
         Reply("Error", w.child) })

SendFeed(w, room) ==
  send(w, TRUE, w.child.st = "idle",
       Runs(w.child, w.child.deferred, room) \cup { Reply("TypingError", w.child) })

\* Answers the call with its result, or with a future.
SendResumeCall(w, call, future, room) ==
  send(w, TRUE, Waits(w, {"Call", "OS"}) /\ w.child.calls = call,
       Runs(w.child, w.child.deferred \cup (IF future THEN {call} ELSE {}), room))

SendResumeNameLookup(w, room) ==
  send(w, TRUE, Waits(w, {"Lookup"}), Runs(w.child, w.child.deferred, room))

SendResumeFutures(w, ids, room) ==
  send(w, TRUE, Waits(w, {"Futures"}) /\ ids \subseteq w.child.deferred,
       Runs(w.child, w.child.deferred \ ids, room))

\* Raises at the suspension, uncatchably: the feed is over.
SendAbortFeed(w, payload) ==
  send(w, payload, w.child.st = "paused", Ends(w.child, {"Error"}))

SendDump(w) ==
  send(w, FALSE, w.child.st # "none", { Reply("DumpResult", w.child) })

SendReset(w) ==
  send([w EXCEPT !.torn = FALSE], FALSE, TRUE, { Reply("Ok", NoSession) })
=============================================================================
