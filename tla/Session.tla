------------------------------ MODULE Session -------------------------------
(***************************************************************************)
(* A Session (session.go): a Python REPL on one worker, and the            *)
(* Suspensions it hands to its caller when the code waits for the host.    *)
(*                                                                         *)
(* Every method holds Session.mu from its first line to its last, so each  *)
(* is one action.  Run and Continue hold the lock while callbacks of the   *)
(* caller answer one suspension after the other: they are several actions, *)
(* and while they last (running) no other method can act.                  *)
(*                                                                         *)
(* A method that fails a check and returns changes nothing; it is the      *)
(* stuttering step.                                                        *)
(***************************************************************************)
EXTENDS Worker, Sequences

CONSTANTS
  Limits,          \* values callers give to Limits.MaxSuspensions; 0 is unset
  DefaultMax,      \* defaultMaxSuspensions
  MaxSuspended     \* bound: suspensions that one Session emits

ASSUME SessionAssumption ==
  /\ Limits \subseteq Nat
  /\ DefaultMax \in Nat \ {0}
  /\ MaxSuspended \in Nat

VARIABLES
  w,               \* the worker
  sus,             \* every Suspension of this Session, in order of creation
  pending,         \* the one the session is paused at, or None
  suspensions,     \* how many counted ones since the start or the last Reset
  maxSuspensions,
  executionTime,
  closed,
  running,         \* Run or Continue holds the lock
  dump             \* the bytes of the last Dump, which the caller kept

vars == << w, sus, pending, suspensions, maxSuspensions, executionTime,
           closed, running, dump >>

None == 0

\* ids: the PendingCallIDs of a Futures suspension
Suspension ==
  [ kind : Kinds, callID : Nat, ids : SUBSET Nat, done : BOOLEAN ]

NewSuspension(c, done) ==
  [ kind |-> c.kind, callID |-> IF c.kind \in {"Call", "OS"} THEN c.calls ELSE 0,
    ids |-> IF c.kind = "Futures" THEN c.deferred ELSE {}, done |-> done ]

\* Mutant: done is not set.
SpentNot(su) == su

Spent(su) ==
  [ kind |-> su.kind, callID |-> su.callID, ids |-> su.ids, done |-> TRUE ]

Room == Len(sus) < MaxSuspended /\ w.child.calls < MaxSuspended

\* The limit a caller's options stand for.
Effective(limit) == IF limit > 0 THEN limit ELSE DefaultMax

(***************************************************************************)
(* Reading the event that ended a turn                                     *)
(***************************************************************************)

\* Mutant: the clock of the event is not read.
ClockKept(o) == executionTime

\* noteBudget: an absent limit and a zero clock are not looked at.
Budget(o)  == IF o.w.child.max > 0 THEN o.w.child.max ELSE maxSuspensions
Clock(o)   == IF o.w.child.exec > 0 THEN o.w.child.exec ELSE executionTime

noteBudget(o) ==
  /\ maxSuspensions' = Budget(o)
  /\ executionTime' = Clock(o)

\* Progress with a Suspension: the event is one and its payload decodes.
Suspends(o) == o.k \in Kinds /\ ~o.w.child.bad

CountWith(o) == suspensions + (IF o.w.child.kind = "Futures" THEN 0 ELSE 1)

OverLimit(o) ==
  /\ o.w.child.kind # "Futures"
  /\ maxSuspensions' > 0
  /\ CountWith(o) > maxSuspensions'

\* progress: q is the suspensions so far, o the turn that just ended.
progress(q, o) ==
  /\ maxSuspensions' = Budget(o)
  /\ \/ /\ ~Suspends(o)          \* the feed is over, or protocolError
        /\ sus' = q
        /\ pending' = None
        /\ w' = o.w
        /\ executionTime' = Clock(o)
        /\ UNCHANGED suspensions
     \/ /\ Suspends(o)
        /\ ~OverLimit(o)
        /\ sus' = Append(q, NewSuspension(o.w.child, FALSE))
        /\ pending' = Len(q) + 1
        /\ w' = o.w
        /\ executionTime' = Clock(o)
        /\ suspensions' = CountWith(o)
     \/ /\ Suspends(o)           \* over the limit: the feed is aborted
        /\ OverLimit(o)
        /\ sus' = Append(q, NewSuspension(o.w.child, TRUE))
        /\ pending' = None
        /\ suspensions' = CountWith(o)
        /\ \E a \in SendAbortFeed(o.w, FALSE) :
             /\ w' = a.w
             /\ executionTime' = Clock(a)

\* The turn had no event: the worker is lost.
lost(q, o) ==
  /\ sus' = q
  /\ pending' = None
  /\ w' = o.w
  /\ UNCHANGED << suspensions, maxSuspensions, executionTime >>

classify(q, o) == IF o.err = "none" THEN progress(q, o) ELSE lost(q, o)

(***************************************************************************)
(* Opening a session                                                       *)
(***************************************************************************)

\* configure: v is the worker before the turn, exec the clock so far.  The
\* caller's limit is taken at once, and again from what the child echoes.
configure(v, limit, exec) ==
  \E o \in SendConfigure(v, Effective(limit)) :
    /\ w' = o.w
    /\ maxSuspensions' = IF o.err = "none" /\ o.w.child.max > 0
                         THEN o.w.child.max ELSE Effective(limit)
    /\ executionTime' = IF o.err = "none" /\ o.w.child.exec > 0
                        THEN o.w.child.exec ELSE exec
    /\ closed' = (closed /\ o.k # "Ok")    \* NewSession closes what fails

\* NewSession: instantiate and configure; on failure the caller has nothing.
NewSession(limit) ==
  /\ closed
  /\ configure(Fresh, limit, 0)
  /\ ~closed'
  /\ sus' = << >>
  /\ pending' = None
  /\ suspensions' = 0
  /\ UNCHANGED << running, dump >>

\* Mutant: the budget of an idle session is not read from the reply.
RestoreForgets ==
  /\ closed
  /\ dump.st # "none"
  /\ \E o \in SendLoad(Fresh, dump) :
       /\ o.k = "Ok"
       /\ w' = o.w
       /\ maxSuspensions' = DefaultMax
       /\ executionTime' = 0
  /\ sus' = << >> /\ pending' = None /\ suspensions' = 0
  /\ closed' = FALSE
  /\ UNCHANGED << running, dump >>

\* Restore: load a dump; a session that was paused emits its suspension anew.
\* An error, or a suspension that does not decode, leaves no session.
Restore ==
  /\ closed
  /\ dump.st # "none"
  /\ \E o \in SendLoad(Fresh, dump) :
       /\ o.k = "Ok" \/ Suspends(o)
       /\ w' = o.w
       /\ maxSuspensions' = o.w.child.max
       /\ executionTime' = o.w.child.exec
       /\ IF o.k = "Ok" THEN sus' = << >>
                        ELSE sus' = << NewSuspension(o.w.child, FALSE) >>
       /\ pending' = Len(sus')
       /\ suspensions' = IF o.k \in Counted THEN 1 ELSE 0
  /\ closed' = FALSE
  /\ UNCHANGED << running, dump >>

(***************************************************************************)
(* Running code                                                            *)
(***************************************************************************)

\* start: feed a snippet.  Run keeps the lock if the code suspends.
start(run) ==
  /\ ~closed
  /\ ~running
  /\ pending = None
  /\ \E o \in SendFeed(w, Room) :
       IF o.err = "unsendable" THEN UNCHANGED << w, sus, pending, suspensions,
                                                 maxSuspensions, executionTime >>
                               ELSE classify(sus, o)
  /\ running' = (run /\ pending' # None)
  /\ UNCHANGED << closed, dump >>

Start == start(FALSE)
Run   == start(TRUE)

\* Continue takes the lock to answer the pending suspension from callbacks.
Continue ==
  /\ ~closed
  /\ ~running
  /\ pending # None
  /\ running' = TRUE
  /\ UNCHANGED << w, sus, pending, suspensions, maxSuspensions, executionTime,
                  closed, dump >>

(***************************************************************************)
(* Answering a suspension                                                  *)
(***************************************************************************)

\* Mutant: any paused session will do.
checkPaused(i) == ~closed /\ pending # None

\* Suspension.check
check(i) == ~closed /\ ~sus[i].done /\ pending = i

\* Mutant: an answer that cannot be sent is given up.
answerGivesUp(i, turns) ==
  \E o \in turns : classify([sus EXCEPT ![i] = Spent(sus[i])], o)

\* answer: turns is what the reply may bring.  A reply that cannot be sent is
\* replaced by an abort, so that the child is not left waiting.
answer(i, turns) ==
  LET q == [sus EXCEPT ![i] = Spent(sus[i])] IN
  \E o \in turns :
    IF o.err = "unsendable" THEN \E a \in SendAbortFeed(w, FALSE) : classify(q, a)
                            ELSE classify(q, o)

\* The turns of an answer, by kind: a value, an exception or nothing look
\* alike to the host, and a value that does not encode becomes an exception.
Resume(i) ==
  IF sus[i].kind = "Lookup" THEN SendResumeNameLookup(w, Room)
                            ELSE SendResumeCall(w, sus[i].callID, FALSE, Room)

Return(i) ==
  /\ sus[i].kind # "Futures"
  /\ answer(i, Resume(i))

Decline(i) == Return(i)

\* The error cannot be attributed to one of several futures: the feed ends.
Raise(i) ==
  IF sus[i].kind = "Futures" THEN answer(i, SendAbortFeed(w, TRUE))
                             ELSE answer(i, Resume(i))

Defer(i) ==
  /\ sus[i].kind \in {"Call", "OS"}
  /\ answer(i, SendResumeCall(w, sus[i].callID, TRUE, Room))

\* Outcomes for some or all of the awaited calls: Settle trusts its caller to
\* name no other.
Settle(i) ==
  /\ sus[i].kind = "Futures"
  /\ \E ids \in (SUBSET sus[i].ids) \ {{}} :
       answer(i, SendResumeFutures(w, ids, Room))

Respond(i) == Return(i) \/ Raise(i) \/ Decline(i) \/ Defer(i) \/ Settle(i)

\* The caller answers any suspension it still holds, once.  Resolve is one of
\* these answers, chosen by the caller's callbacks.
Answer(i) ==
  /\ ~running
  /\ check(i)
  /\ Respond(i)
  /\ UNCHANGED << closed, running, dump >>

\* drive: callbacks answer until the run is over or fails.
Drive ==
  /\ running
  /\ Respond(pending)
  /\ running' = (pending' # None)
  /\ UNCHANGED << closed, dump >>

\* Mutant: the panic leaves drive at once.
CallbackPanicsThrough ==
  /\ running
  /\ running' = FALSE
  /\ UNCHANGED << w, sus, pending, suspensions, maxSuspensions, executionTime, closed, dump >>

\* A callback panics: the feed is aborted before the panic leaves drive.
CallbackPanics ==
  /\ running
  /\ IF w.dead THEN UNCHANGED << w, sus, pending, suspensions, maxSuspensions,
                                 executionTime >>
               ELSE answer(pending, SendAbortFeed(w, TRUE))
  /\ running' = FALSE
  /\ UNCHANGED << closed, dump >>

(***************************************************************************)
(* Dump, Reset, Close                                                      *)
(***************************************************************************)

Dump ==
  /\ ~closed
  /\ ~running
  /\ \E o \in SendDump(w) :
       /\ w' = o.w
       /\ dump' = IF o.k = "DumpResult" THEN o.w.child ELSE dump
       /\ IF o.err = "none" /\ o.k # "DumpResult"
          THEN noteBudget(o) ELSE UNCHANGED << maxSuspensions, executionTime >>
  /\ UNCHANGED << sus, pending, suspensions, closed, running >>

\* Reset, then configure anew.  If either fails the session stays open as the
\* failed step left it.
Reset(limit) ==
  /\ ~closed
  /\ ~running
  /\ sus' = [i \in DOMAIN sus |->
               IF i = pending THEN Spent(sus[i]) ELSE sus[i]]
  /\ pending' = None
  /\ suspensions' = 0
  /\ \E r \in SendReset(w) :
       IF r.k # "Ok"
       THEN /\ w' = r.w
            /\ IF r.err = "none" THEN noteBudget(r)
                                 ELSE UNCHANGED << maxSuspensions, executionTime >>
            /\ UNCHANGED closed
       ELSE configure(r.w, limit, executionTime)
  /\ UNCHANGED << running, dump >>

\* Close outside a pool: the instance is gone for good.
Close ==
  /\ ~closed
  /\ ~running
  /\ closed' = TRUE
  /\ w' = Lost(w)
  /\ UNCHANGED << sus, pending, suspensions, maxSuspensions, executionTime,
                  running, dump >>

(***************************************************************************)
(* The specification                                                       *)
(***************************************************************************)

\* Nothing is open yet, and the caller has no dump.
Init ==
  /\ w = Lost(Fresh)
  /\ sus = << >>
  /\ pending = None
  /\ suspensions = 0
  /\ maxSuspensions = DefaultMax
  /\ executionTime = 0
  /\ closed = TRUE
  /\ running = FALSE
  /\ dump = NoSession

Next ==
  \/ \E limit \in Limits : NewSession(limit) \/ Reset(limit)
  \/ Restore
  \/ Start
  \/ Run
  \/ Continue
  \/ \E i \in DOMAIN sus : Answer(i)
  \/ Drive
  \/ CallbackPanics
  \/ Dump
  \/ Close

Spec == Init /\ [][Next]_vars

(***************************************************************************)
(* Properties                                                              *)
(***************************************************************************)

\* The type invariant.
TypeOK ==
  /\ w \in WorkerState
  /\ sus \in Seq(Suspension)
  /\ pending \in 0..Len(sus)
  /\ suspensions \in Nat
  /\ maxSuspensions \in Nat \ {0}
  /\ executionTime \in 0..MaxExec
  /\ closed \in BOOLEAN
  /\ running \in BOOLEAN
  /\ dump \in ChildState

Alive == ~closed /\ ~w.dead

\* Whenever a method has returned, host and child agree on whether a feed is
\* paused and at which suspension: however the feed got there (limit, answer
\* that could not be sent, panic, Reset, Restore), nobody waits for an answer
\* the other side has forgotten.  Only a child that waits at a payload which
\* does not decode is forgotten, see ProtocolKept.
HostChildAgree ==
  Alive =>
    IF w.child.st = "paused" /\ ~w.child.bad
    THEN /\ pending # None
         /\ sus[pending] = NewSuspension(w.child, FALSE)
    ELSE pending = None

\* No sequence of calls makes the host send a request that the child, in a
\* session, cannot serve at that point (a Feed to a paused child, an answer of
\* the wrong kind or for another call), unless a payload did not decode.
OnlyMalformedTears == w.torn => w.child.bad

\* A Suspension can be answered exactly while the session is paused at it:
\* every other one the caller may still hold is spent.
OnlyPendingOpen ==
  \A i \in DOMAIN sus : ~sus[i].done <=> i = pending

\* The child leaves a pause only because its own suspension was answered, or
\* because the session was dropped: a stale Suspension, whose call id a later
\* session of the same worker uses again, never resumes a feed.
OwnAnswerResumes ==
  [][ Alive /\ w.child.st = "paused" /\ ~w.child.bad /\ w'.child # w.child /\ ~closed'
      => /\ pending # None
         /\ ~sus[pending].done
         /\ sus'[pending].done
         /\ \A i \in DOMAIN sus \ {pending} : sus'[i] = sus[i] ]_vars

\* A host call is shown to the caller only within the limit in force.
LimitHeld ==
  pending # None /\ sus[pending].kind # "Futures" => suspensions <= maxSuspensions

\* The limit the host enforces is the one the session was configured with,
\* also when it came out of the bytes of a dump.
LimitAgrees ==
  Alive /\ w.child.st # "none" => maxSuspensions = w.child.max

\* What ExecutionTime reports is the clock of the session, once it has run.
ClockAgrees ==
  Alive /\ w.child.exec > 0 => executionTime = w.child.exec

\* Run and Continue never return with a feed still paused in a worker that
\* lives, whatever the callbacks did, unless a payload did not decode.
RunSettles ==
  [][ running /\ ~running' =>
        w'.dead \/ w'.child.bad \/ w'.child.st # "paused" ]_vars

(***************************************************************************)
(* What the documentation says and the code does not do                    *)
(***************************************************************************)

\* "The child is paused with a payload the host cannot interpret, so the feed
\* is aborted" (protocolError): the next request is one the child can serve.
ProtocolKept == ~w.torn
=============================================================================
