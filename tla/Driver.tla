------------------------------- MODULE Driver -------------------------------
(***************************************************************************)
(* The driver (session.go): how Run, Continue and Resolve answer the       *)
(* suspensions of a session from the callbacks in RunOptions.  A function  *)
(* of AsyncFunctions runs in a goroutine of its own while the sandbox goes *)
(* on; its call is answered with a future, and when the sandbox has        *)
(* nothing left to do but wait for futures, the driver waits for the       *)
(* goroutines.                                                             *)
(*                                                                         *)
(* Each method makes a driver and closes it before it returns.  Module     *)
(* Session has the turns themselves and the ways they fail; here a turn    *)
(* takes the child to its next suspension or to the end of the feed.       *)
(***************************************************************************)
EXTENDS Integers, FiniteSets

CONSTANTS
  MaxCalls,    \* bound: host calls of a behaviour
  MaxDrivers   \* bound: method calls that make a driver

ASSUME DriverAssumption == MaxCalls \in Nat /\ MaxDrivers \in Nat

CallID == 1..MaxCalls
Drivers == 1..MaxDrivers
Nobody == 0

VARIABLES
  child,      \* "idle", at a "call", waiting for "futures", or "dead"
  calls,      \* calls the child made so far; at a call, the number of it
  awaits,     \* the PendingCallIDs of a futures suspension
  deferred,   \* the child's calls that were answered with a future
  cur,        \* the driver at work; its method holds Session.mu
  mode,       \* it was made by "run" (Run, Continue) or by "resolve"
  made,       \* drivers made so far
  pc,         \* the driver answers a call, waits in select, or returns
  pending,    \* driver.pending: calls whose goroutine has not reported
  settled,    \* driver.settled: outcomes the child has not asked for
  done,       \* drivers whose done channel is closed
  owner,      \* per call: the driver that started its goroutine
  gor         \* per call: no goroutine, in the function, at its send, or ended

vars == << child, calls, awaits, deferred, cur, mode, made, pc, pending, settled,
           done, owner, gor >>

drivers == << cur, mode, made, done >>
routines == << owner, gor >>

(***************************************************************************)
(* The child                                                               *)
(***************************************************************************)

\* It runs on with these calls outstanding: to the end of the feed, to a call,
\* or to a point where all its tasks wait for some of the outstanding calls.
Resumes(outstanding) ==
  \/ /\ child' = "idle"
     /\ deferred' = {}
     /\ awaits' = {}
     /\ UNCHANGED calls
  \/ /\ calls < MaxCalls
     /\ calls' = calls + 1
     /\ child' = "call"
     /\ deferred' = outstanding
     /\ awaits' = {}
  \/ /\ outstanding # {}
     /\ child' = "futures"
     /\ deferred' = outstanding
     /\ awaits' \in (SUBSET outstanding) \ {{}}
     /\ UNCHANGED calls

\* AbortFeed
Aborted ==
  /\ child' = "idle"
  /\ deferred' = {}
  /\ awaits' = {}
  /\ UNCHANGED calls

Dies ==
  /\ child' = "dead"
  /\ UNCHANGED << calls, awaits, deferred >>

(***************************************************************************)
(* The methods                                                             *)
(***************************************************************************)

Locked == cur # Nobody

NewDriver(m) ==
  /\ made < MaxDrivers
  /\ made' = made + 1
  /\ cur' = made + 1
  /\ mode' = m
  /\ pc' = "resolve"
  /\ UNCHANGED << pending, settled, done, routines >>

\* Start: the caller answers by hand or with Resolve.
Start ==
  /\ ~Locked
  /\ child = "idle"
  /\ Resumes({})
  /\ UNCHANGED << drivers, pc, pending, settled, routines >>

\* Run: start has fed the code.
Run ==
  /\ ~Locked
  /\ child = "idle"
  /\ Resumes({})
  /\ NewDriver("run")

Paused == child \in {"call", "futures"}

Continue ==
  /\ ~Locked
  /\ Paused
  /\ NewDriver("run")
  /\ UNCHANGED << child, calls, awaits, deferred >>

Resolve ==
  /\ ~Locked
  /\ Paused
  /\ NewDriver("resolve")
  /\ UNCHANGED << child, calls, awaits, deferred >>

\* The caller answers a call itself with Defer, or anything else.
AnswerByHand ==
  /\ ~Locked
  /\ child = "call"
  /\ \E out \in { deferred, deferred \cup {calls} } : Resumes(out)
  /\ UNCHANGED << drivers, pc, pending, settled, routines >>

\* The loop of drive ends with the run; Resolve takes one step.  Either way
\* the driver is closed before the lock is given up.
Return ==
  /\ Locked
  /\ \/ pc = "return"
     \/ pc = "resolve" /\ ~Paused
  /\ done' = done \cup {cur}
  /\ cur' = Nobody
  /\ UNCHANGED << child, calls, awaits, deferred, mode, made, pc, pending, settled,
                  routines >>

\* Where the driver goes on after an answer.
NextStep == pc' = IF mode = "run" /\ child' \in {"call", "futures"} THEN "resolve"
                                                                     ELSE "return"

(***************************************************************************)
(* resolveCall, resolveLookup, the OS handler                              *)
(***************************************************************************)

\* A callback of the caller answers in the goroutine of the method.
CallSync ==
  /\ Locked /\ pc = "resolve"
  /\ child = "call"
  /\ Resumes(deferred) /\ NextStep
  /\ UNCHANGED << drivers, pending, settled, routines >>

\* The callback panics: drive aborts the feed, Resolve leaves it as it is.
CallPanics ==
  /\ Locked /\ pc = "resolve"
  /\ child = "call"
  /\ IF mode = "run" THEN Aborted ELSE UNCHANGED << child, calls, awaits, deferred >>
  /\ pc' = "return"
  /\ UNCHANGED << drivers, pending, settled, routines >>

\* Mutant: the goroutine is started, but the driver takes no note of it.
CallAsyncUnnoted ==
  /\ Locked /\ pc = "resolve"
  /\ child = "call"
  /\ owner' = [owner EXCEPT ![calls] = cur]
  /\ gor' = [gor EXCEPT ![calls] = "fn"]
  /\ Resumes(deferred \cup {calls}) /\ NextStep
  /\ UNCHANGED << drivers, pending, settled >>

\* A function of AsyncFunctions: noted, started, and answered with a future.
CallAsync ==
  /\ Locked /\ pc = "resolve"
  /\ child = "call"
  /\ pending' = [pending EXCEPT ![cur] = @ \cup {calls}]
  /\ owner' = [owner EXCEPT ![calls] = cur]
  /\ gor' = [gor EXCEPT ![calls] = "fn"]
  /\ Resumes(deferred \cup {calls}) /\ NextStep
  /\ UNCHANGED << drivers, settled >>

(***************************************************************************)
(* resolveFutures                                                          *)
(***************************************************************************)

\* settle: the outcomes of these calls go to the child.
Settle(ids) == Resumes(deferred \ ids) /\ NextStep

AtFutures == Locked /\ pc = "resolve" /\ child = "futures"

\* Mutant: the outcomes stay in the map.
FuturesKnownKept ==
  LET known == settled[cur] \cap awaits IN
  /\ AtFutures
  /\ known # {}
  /\ Settle(known)
  /\ UNCHANGED << drivers, pending, settled, routines >>

\* Outcomes that came in while the child waited for others.
FuturesKnown ==
  LET known == settled[cur] \cap awaits IN
  /\ AtFutures
  /\ known # {}
  /\ settled' = [settled EXCEPT ![cur] = @ \ known]
  /\ Settle(known)
  /\ UNCHANGED << drivers, pending, routines >>

\* None of the awaited calls is this driver's: the feed is aborted.
FuturesForeign ==
  /\ AtFutures
  /\ settled[cur] \cap awaits = {}
  /\ pending[cur] \cap awaits = {}
  /\ Aborted /\ NextStep
  /\ UNCHANGED << drivers, pending, settled, routines >>

\* Mutant: it waits without asking whether somebody will report.
FuturesWaitAlways ==
  /\ AtFutures
  /\ settled[cur] \cap awaits = {}
  /\ pc' = "select"
  /\ UNCHANGED << child, calls, awaits, deferred, drivers, pending, settled, routines >>

FuturesWait ==
  /\ AtFutures
  /\ settled[cur] \cap awaits = {}
  /\ pending[cur] \cap awaits # {}
  /\ pc' = "select"
  /\ UNCHANGED << child, calls, awaits, deferred, drivers, pending, settled, routines >>

\* Mutant: an outcome nobody waits for yet is dropped.
ReceiveDrops(id) ==
  /\ Locked /\ pc = "select"
  /\ gor[id] = "send" /\ owner[id] = cur
  /\ gor' = [gor EXCEPT ![id] = "end"]
  /\ pending' = [pending EXCEPT ![cur] = @ \ {id}]
  /\ IF id \in awaits THEN Settle({id})
                      ELSE UNCHANGED << child, calls, awaits, deferred, pc >>
  /\ UNCHANGED << drivers, settled, owner >>

\* The rendezvous on the results channel.  An outcome that is not awaited is
\* kept, and the driver goes on waiting.
Receive(id) ==
  /\ Locked /\ pc = "select"
  /\ gor[id] = "send" /\ owner[id] = cur
  /\ gor' = [gor EXCEPT ![id] = "end"]
  /\ pending' = [pending EXCEPT ![cur] = @ \ {id}]
  /\ IF id \in awaits
     THEN /\ Settle({id})
          /\ UNCHANGED settled
     ELSE /\ settled' = [settled EXCEPT ![cur] = @ \cup {id}]
          /\ UNCHANGED << child, calls, awaits, deferred, pc >>
  /\ UNCHANGED << drivers, owner >>

\* The context is done: the abort is sent under that context, which kills the
\* worker.
Cancelled ==
  /\ Locked /\ pc = "select"
  /\ Dies
  /\ pc' = "return"
  /\ UNCHANGED << drivers, pending, settled, routines >>

(***************************************************************************)
(* The goroutines                                                          *)
(***************************************************************************)

FunctionReturns(id) ==
  /\ gor[id] = "fn"
  /\ gor' = [gor EXCEPT ![id] = "send"]
  /\ UNCHANGED << child, calls, awaits, deferred, drivers, pc, pending, settled, owner >>

\* Mutant: a plain send, which nobody may ever receive.
AbandonNot(id) == gor[id] = "send" /\ FALSE

\* The driver is closed: the outcome is dropped.
Abandon(id) ==
  /\ gor[id] = "send"
  /\ owner[id] \in done
  /\ gor' = [gor EXCEPT ![id] = "end"]
  /\ UNCHANGED << child, calls, awaits, deferred, drivers, pc, pending, settled, owner >>

(***************************************************************************)
(* The specification                                                       *)
(***************************************************************************)

Init ==
  /\ child = "idle"
  /\ calls = 0
  /\ awaits = {}
  /\ deferred = {}
  /\ cur = Nobody
  /\ mode = "run"
  /\ made = 0
  /\ pc = "return"
  /\ pending = [d \in Drivers |-> {}]
  /\ settled = [d \in Drivers |-> {}]
  /\ done = {}
  /\ owner = [id \in CallID |-> Nobody]
  /\ gor = [id \in CallID |-> "none"]

\* What a method does on its own once it was called.
DriverStep ==
  \/ Return
  \/ CallSync \/ CallPanics \/ CallAsync
  \/ FuturesKnown \/ FuturesForeign \/ FuturesWait
  \/ \E id \in CallID : Receive(id)

Next ==
  \/ Start \/ Run \/ Continue \/ Resolve \/ AnswerByHand
  \/ DriverStep
  \/ Cancelled
  \/ \E id \in CallID : FunctionReturns(id) \/ Abandon(id)

Spec == Init /\ [][Next]_vars

\* Goroutines are scheduled, the callbacks of the caller return, and nobody is
\* obliged to cancel or to call a method.
Fairness ==
  /\ WF_vars(DriverStep)
  /\ \A id \in CallID : WF_vars(FunctionReturns(id)) /\ WF_vars(Abandon(id))

FairSpec == Spec /\ Fairness

(***************************************************************************)
(* Properties                                                              *)
(***************************************************************************)

\* The type invariant.
TypeOK ==
  /\ child \in {"idle", "call", "futures", "dead"}
  /\ calls \in 0..MaxCalls
  /\ awaits \in SUBSET CallID
  /\ deferred \in SUBSET CallID
  /\ cur \in Drivers \cup {Nobody}
  /\ mode \in {"run", "resolve"}
  /\ made \in 0..MaxDrivers
  /\ pc \in {"resolve", "select", "return"}
  /\ pending \in [Drivers -> SUBSET CallID]
  /\ settled \in [Drivers -> SUBSET CallID]
  /\ done \in SUBSET Drivers
  /\ owner \in [CallID -> Drivers \cup {Nobody}]
  /\ gor \in [CallID -> {"none", "fn", "send", "end"}]

\* The driver's books agree with its goroutines: it waits for exactly those
\* that will still report to it, and an outcome it keeps is one it was given.
\* So select never waits for a goroutine that is gone.
BooksAgree ==
  Locked =>
    /\ pending[cur] = { id \in CallID : owner[id] = cur /\ gor[id] \in {"fn", "send"} }
    /\ \A id \in settled[cur] : owner[id] = cur /\ gor[id] = "end"

\* The outcome of an asynchronous call reaches the child at most once, and only
\* while the child still waits for it.
SettledOnce ==
  Locked => \A id \in settled[cur] : child \in {"call", "futures"} /\ pc # "return"
                                     => id \in deferred

\* The outcome of a call that a Run started is not lost: as long as the child
\* waits for it, the driver has it or will get it.
OutcomeKept ==
  Locked /\ child \in {"call", "futures"} =>
    \A id \in deferred : owner[id] = cur => id \in pending[cur] \cup settled[cur]

\* Every method returns, if the callbacks do.
MethodReturns == Locked ~> ~Locked

\* No goroutine outlives the run it was started in, if its function returns.
GoroutinesEnd ==
  \A id \in CallID : gor[id] = "fn" ~> gor[id] = "end"

(***************************************************************************)
(* What the documentation says and the code does not do                    *)
(***************************************************************************)

\* "Resolve answers this suspension from opts the way Run would" (session.go):
\* a feed that waits only for functions that were started from the options is
\* not aborted.
ResolvesLikeRun ==
  [][ AtFutures /\ mode = "resolve" /\ pc' = "return"
        /\ (\A id \in awaits : owner[id] # Nobody)
      => \E id \in awaits : id \in settled[cur] \cup pending[cur] ]_vars
=============================================================================
