-------------------------------- MODULE Pool --------------------------------
(***************************************************************************)
(* The Pool (pool.go): warm workers for sessions.  Callers check sessions  *)
(* out and close them, a background filler tops the idle set up, and Close *)
(* may come at any time.  Each goroutine takes Pool.mu for a few lines     *)
(* only, so its methods are cut into one action per critical section and   *)
(* one per call between them; everything else interleaves.                 *)
(*                                                                         *)
(* A worker here is its instance, and of the child only whose session      *)
(* state it holds: module Session has the rest.  What a Session does with  *)
(* its worker is RunCode.                                                  *)
(***************************************************************************)
EXTENDS Integers, Sequences, FiniteSets

CONSTANTS
  Client,         \* goroutines that check sessions out
  Worker,         \* instances; one that was closed may be built again
  Idle,           \* PoolOptions.Idle, after its default
  MaxRunsOption,  \* PoolOptions.MaxRuns as the caller gave it
  DefaultMaxRuns, \* what MaxRuns is when the option is 0 (100 in the code)
  BuildsFail,     \* may instantiating a worker, or warming it, fail?
  NoClient, NoWorker

ASSUME PoolAssumption ==
  /\ Idle \in Nat \ {0}
  /\ MaxRunsOption \in Nat
  /\ DefaultMaxRuns \in Nat \ {0}
  /\ BuildsFail \in BOOLEAN
  /\ NoClient \notin Client
  /\ NoWorker \notin Worker

VARIABLES
  idle,      \* Pool.idle
  closed,    \* Pool.closed; Pool.fill is closed in the same critical section
  token,     \* Pool.fill, a channel of capacity one, holds a kick
  inst,      \* per worker: no instance, one that works, or one that is dead
  runs,      \* per worker: sessions it was configured for (worker.runs)
  big,       \* per worker: its linear memory grew past MaxMemory
  user,      \* per worker: whose session state its child holds, or NoClient
  pc, held,  \* per client: where it is, and the worker in its hands
  fpc, fheld,\* the same for the filler
  batch,     \* workers Close took out of the idle set and has yet to close
  starved,   \* the filler gave up since the last kick it read (history)
  crashed    \* a goroutine sent on the closed channel: the process is gone

worker == << inst, runs, big, user >>

vars == << idle, closed, token, inst, runs, big, user, pc, held, fpc, fheld,
           batch, starved, crashed >>

\* NewPool replaces an option of 0 by the default.
MaxRuns == IF MaxRunsOption = 0 THEN DefaultMaxRuns ELSE MaxRunsOption

\* A goroutine runs on from where it stands, unless the process is gone.
at(c, label)    == ~crashed /\ pc[c] = label
fillerAt(label) == ~crashed /\ fpc = label

InIdle(x) == \E i \in DOMAIN idle : idle[i] = x

(***************************************************************************)
(* Steps several goroutines take                                           *)
(***************************************************************************)

\* kick: a buffered kick is enough; a send on the closed channel panics.
kick ==
  IF closed THEN crashed' = TRUE /\ UNCHANGED token
            ELSE token' = TRUE /\ UNCHANGED crashed

become(x, state) ==
  /\ inst' = [inst EXCEPT ![x] = state]
  /\ runs' = [runs EXCEPT ![x] = 0]
  /\ big'  = [big  EXCEPT ![x] = FALSE]
  /\ user' = [user EXCEPT ![x] = NoClient]

\* Runtime.newWorker
newWorker(x) == inst[x] = "absent" /\ become(x, "live")

\* worker.close
close(x) == become(x, "absent")

\* A trap, a cancelled context or a fatal error: worker.dead.
die(x) == inst' = [inst EXCEPT ![x] = "dead"] /\ UNCHANGED << runs, big, user >>

(***************************************************************************)
(* Checkout                                                                *)
(***************************************************************************)

\* Mutant: the worker that is handed out stays in the idle set.
CheckoutPopKeeps(c) ==
  /\ at(c, "rest")
  /\ ~closed
  /\ held' = [held EXCEPT ![c] = IF idle = << >> THEN NoWorker ELSE idle[Len(idle)]]
  /\ pc' = [pc EXCEPT ![c] = "popped"]
  /\ UNCHANGED << idle, closed, token, worker, fpc, fheld, batch, starved, crashed >>

\* First critical section: the last idle worker, or none.
CheckoutPop(c) ==
  /\ at(c, "rest")
  /\ ~closed
  /\ IF idle = << >>
     THEN /\ held' = [held EXCEPT ![c] = NoWorker]
          /\ UNCHANGED idle
     ELSE /\ held' = [held EXCEPT ![c] = idle[Len(idle)]]
          /\ idle' = SubSeq(idle, 1, Len(idle) - 1)
  /\ pc' = [pc EXCEPT ![c] = "popped"]
  /\ UNCHANGED << closed, token, worker, fpc, fheld, batch, starved, crashed >>

\* Mutant: Checkout asks for no replacement.
CheckoutKickNot(c) ==
  /\ at(c, "popped")
  /\ pc' = [pc EXCEPT ![c] = IF held[c] = NoWorker THEN "build" ELSE "configure"]
  /\ UNCHANGED << idle, closed, token, worker, held, fpc, fheld, batch, starved, crashed >>

CheckoutKick(c) ==
  /\ at(c, "popped")
  /\ kick
  /\ pc' = [pc EXCEPT ![c] = IF held[c] = NoWorker THEN "build" ELSE "configure"]
  /\ UNCHANGED << idle, closed, worker, held, fpc, fheld, batch, starved >>

CheckoutBuild(c) ==
  /\ at(c, "build")
  /\ \/ \E x \in Worker :
          /\ newWorker(x)
          /\ held' = [held EXCEPT ![c] = x]
          /\ pc' = [pc EXCEPT ![c] = "configure"]
     \/ /\ BuildsFail
        /\ pc' = [pc EXCEPT ![c] = "rest"]
        /\ UNCHANGED << worker, held >>
  /\ UNCHANGED << idle, closed, token, fpc, fheld, batch, starved, crashed >>

\* Mutant: a worker that was not configured is forgotten, not closed.
CheckoutConfigureDrops(c) ==
  LET x == held[c] IN
  /\ at(c, "configure")
  /\ \/ /\ user[x] = NoClient
        /\ runs' = [runs EXCEPT ![x] = @ + 1]
        /\ user' = [user EXCEPT ![x] = c]
        /\ pc' = [pc EXCEPT ![c] = "using"]
        /\ UNCHANGED held
     \/ /\ pc' = [pc EXCEPT ![c] = "rest"]
        /\ held' = [held EXCEPT ![c] = NoWorker]
        /\ UNCHANGED << runs, user >>
  /\ UNCHANGED << idle, closed, token, inst, big, fpc, fheld, batch, starved, crashed >>

\* Mutant: the error of configure is ignored.
CheckoutConfigureAnyway(c) ==
  LET x == held[c] IN
  /\ at(c, "configure")
  /\ runs' = [runs EXCEPT ![x] = @ + 1]
  /\ user' \in { user, [user EXCEPT ![x] = c] }
  /\ pc' = [pc EXCEPT ![c] = "using"]
  /\ UNCHANGED << idle, closed, token, inst, big, held, fpc, fheld, batch, starved, crashed >>

\* sessionFor counts the run; the child accepts Configure only if it holds no
\* session.  A worker that was not configured is closed, without a kick.
CheckoutConfigure(c) ==
  LET x == held[c] IN
  /\ at(c, "configure")
  /\ \/ /\ user[x] = NoClient
        /\ runs' = [runs EXCEPT ![x] = @ + 1]
        /\ user' = [user EXCEPT ![x] = c]
        /\ UNCHANGED << inst, big >>
        /\ pc' = [pc EXCEPT ![c] = "using"]
        /\ UNCHANGED held
     \/ /\ close(x)
        /\ pc' = [pc EXCEPT ![c] = "rest"]
        /\ held' = [held EXCEPT ![c] = NoWorker]
  /\ UNCHANGED << idle, closed, token, fpc, fheld, batch, starved, crashed >>

\* The session runs code, which may grow the memory or kill the instance.
RunCode(c) ==
  LET x == held[c] IN
  /\ at(c, "using")
  /\ inst[x] = "live"
  /\ \/ die(x)
     \/ big' = [big EXCEPT ![x] = TRUE] /\ UNCHANGED << inst, runs, user >>
  /\ UNCHANGED << idle, closed, token, pc, held, fpc, fheld, batch, starved,
                  crashed >>

(***************************************************************************)
(* release, which Session.Close calls                                      *)
(***************************************************************************)

healthy(x) == inst[x] = "live" /\ runs[x] < MaxRuns /\ ~big[x]

\* Mutant: a healthy worker is parked without the Reset turn.
ReleaseResetNot(c) ==
  /\ at(c, "using")
  /\ pc' = [pc EXCEPT ![c] = IF healthy(held[c]) THEN "park" ELSE "discard"]
  /\ UNCHANGED << idle, closed, token, worker, held, fpc, fheld, batch, starved, crashed >>

\* The health check and, for a worker worth keeping, the Reset turn.
ReleaseReset(c) ==
  LET x == held[c] IN
  /\ at(c, "using")
  /\ \/ /\ healthy(x)
        /\ user' = [user EXCEPT ![x] = NoClient]
        /\ UNCHANGED << inst, runs, big >>
        /\ pc' = [pc EXCEPT ![c] = "park"]
     \/ /\ healthy(x)                        \* the turn failed
        /\ die(x)
        /\ pc' = [pc EXCEPT ![c] = "discard"]
     \/ /\ ~healthy(x)
        /\ pc' = [pc EXCEPT ![c] = "discard"]
        /\ UNCHANGED worker
  /\ UNCHANGED << idle, closed, token, held, fpc, fheld, batch, starved, crashed >>

\* Mutant: the size of the idle set is not looked at.
ReleaseParkAlways(c) ==
  /\ at(c, "park")
  /\ ~closed
  /\ idle' = Append(idle, held[c])
  /\ held' = [held EXCEPT ![c] = NoWorker]
  /\ pc' = [pc EXCEPT ![c] = "rest"]
  /\ UNCHANGED << closed, token, worker, fpc, fheld, batch, starved, crashed >>

ReleasePark(c) ==
  /\ at(c, "park")
  /\ IF ~closed /\ Len(idle) < Idle
     THEN /\ idle' = Append(idle, held[c])
          /\ held' = [held EXCEPT ![c] = NoWorker]
          /\ pc' = [pc EXCEPT ![c] = "rest"]
     ELSE /\ pc' = [pc EXCEPT ![c] = "discard"]
          /\ UNCHANGED << idle, held >>
  /\ UNCHANGED << closed, token, worker, fpc, fheld, batch, starved, crashed >>

ReleaseDiscard(c) ==
  /\ at(c, "discard")
  /\ close(held[c])
  /\ held' = [held EXCEPT ![c] = NoWorker]
  /\ pc' = [pc EXCEPT ![c] = "kick"]
  /\ UNCHANGED << idle, closed, token, fpc, fheld, batch, starved, crashed >>

ReleaseKick(c) ==
  /\ at(c, "kick")
  /\ kick
  /\ pc' = [pc EXCEPT ![c] = "rest"]
  /\ UNCHANGED << idle, closed, worker, held, fpc, fheld, batch, starved >>

(***************************************************************************)
(* The filler                                                              *)
(***************************************************************************)

FillerWake ==
  /\ fillerAt("wait")
  /\ token
  /\ token' = FALSE
  /\ starved' = FALSE
  /\ fpc' = "check"
  /\ UNCHANGED << idle, closed, worker, pc, held, fheld, batch, crashed >>

\* Mutant: a plain receive, which a closed channel answers for ever.
FillerExitNot ==
  /\ fillerAt("wait")
  /\ closed
  /\ ~token
  /\ fpc' = "check"
  /\ UNCHANGED << idle, closed, token, worker, pc, held, fheld, batch, starved, crashed >>

\* The range over Pool.fill ends once the channel is closed and drained.
FillerExit ==
  /\ fillerAt("wait")
  /\ closed
  /\ ~token
  /\ fpc' = "done"
  /\ UNCHANGED << idle, closed, token, worker, pc, held, fheld, batch, starved,
                  crashed >>

FillerCheck ==
  /\ fillerAt("check")
  /\ fpc' = IF ~closed /\ Len(idle) < Idle THEN "build" ELSE "wait"
  /\ UNCHANGED << idle, closed, token, worker, pc, held, fheld, batch, starved,
                  crashed >>

FillerBuild ==
  /\ fillerAt("build")
  /\ \/ \E x \in Worker :
          /\ newWorker(x)
          /\ fheld' = x
          /\ fpc' = "warm"
          /\ UNCHANGED starved
     \/ /\ BuildsFail
        /\ starved' = TRUE
        /\ fpc' = "wait"
        /\ UNCHANGED << worker, fheld >>
  /\ UNCHANGED << idle, closed, token, pc, held, batch, crashed >>

\* Mutant: no break after the worker that did not warm was closed.
FillerWarmAnyway ==
  /\ fillerAt("warm")
  /\ fpc' = "park"
  /\ UNCHANGED worker \/ (BuildsFail /\ close(fheld))
  /\ UNCHANGED << idle, closed, token, pc, held, fheld, batch, starved, crashed >>

\* warm: a Reset turn, so that the child builds its interpreter now.
FillerWarm ==
  /\ fillerAt("warm")
  /\ \/ /\ fpc' = "park"
        /\ UNCHANGED << worker, fheld, starved >>
     \/ /\ BuildsFail
        /\ close(fheld)
        /\ fheld' = NoWorker
        /\ starved' = TRUE
        /\ fpc' = "wait"
  /\ UNCHANGED << idle, closed, token, pc, held, batch, crashed >>

\* Mutant: one worker for one kick.
FillerParkOnce ==
  /\ fillerAt("park")
  /\ IF closed THEN close(fheld) /\ UNCHANGED idle
               ELSE idle' = Append(idle, fheld) /\ UNCHANGED worker
  /\ fpc' = "wait"
  /\ fheld' = NoWorker
  /\ UNCHANGED << closed, token, pc, held, batch, starved, crashed >>

\* The idle set is not measured again: it may have grown since FillerCheck.
FillerPark ==
  /\ fillerAt("park")
  /\ IF closed
     THEN /\ close(fheld)
          /\ fpc' = "wait"
          /\ UNCHANGED idle
     ELSE /\ idle' = Append(idle, fheld)
          /\ fpc' = "check"
          /\ UNCHANGED worker
  /\ fheld' = NoWorker
  /\ UNCHANGED << closed, token, pc, held, batch, starved, crashed >>

(***************************************************************************)
(* Close                                                                   *)
(***************************************************************************)

Close ==
  /\ ~crashed
  /\ ~closed
  /\ closed' = TRUE
  /\ batch' = { idle[i] : i \in DOMAIN idle }
  /\ idle' = << >>
  /\ UNCHANGED << token, worker, pc, held, fpc, fheld, starved, crashed >>

CloseWorker ==
  /\ ~crashed
  /\ \E x \in batch :
       /\ close(x)
       /\ batch' = batch \ {x}
  /\ UNCHANGED << idle, closed, token, pc, held, fpc, fheld, starved, crashed >>

(***************************************************************************)
(* The specification                                                       *)
(***************************************************************************)

\* NewPool has started the filler and kicked it.
Init ==
  /\ idle = << >>
  /\ closed = FALSE
  /\ token = TRUE
  /\ inst = [x \in Worker |-> "absent"]
  /\ runs = [x \in Worker |-> 0]
  /\ big = [x \in Worker |-> FALSE]
  /\ user = [x \in Worker |-> NoClient]
  /\ pc = [c \in Client |-> "rest"]
  /\ held = [c \in Client |-> NoWorker]
  /\ fpc = "wait"
  /\ fheld = NoWorker
  /\ batch = {}
  /\ starved = FALSE
  /\ crashed = FALSE

\* What a client does on its own once its caller has called a method.
ClientStep(c) ==
  \/ CheckoutKick(c) \/ CheckoutBuild(c) \/ CheckoutConfigure(c)
  \/ ReleasePark(c) \/ ReleaseDiscard(c) \/ ReleaseKick(c)

FillerStep ==
  \/ FillerWake \/ FillerExit \/ FillerCheck
  \/ FillerBuild \/ FillerWarm \/ FillerPark

Next ==
  \/ \E c \in Client : \/ CheckoutPop(c) \/ RunCode(c) \/ ReleaseReset(c)
                       \/ ClientStep(c)
  \/ FillerStep
  \/ Close
  \/ CloseWorker

Spec == Init /\ [][Next]_vars

\* Goroutines are scheduled; callers need not call anything.
Fairness ==
  /\ WF_vars(FillerStep)
  /\ WF_vars(CloseWorker)
  /\ \A c \in Client : WF_vars(ClientStep(c))

FairSpec == Spec /\ Fairness

(***************************************************************************)
(* Properties                                                              *)
(***************************************************************************)

\* The type invariant.
TypeOK ==
  /\ idle \in Seq(Worker)
  /\ closed \in BOOLEAN
  /\ token \in BOOLEAN
  /\ inst \in [Worker -> {"absent", "live", "dead"}]
  /\ runs \in [Worker -> Nat]
  /\ big \in [Worker -> BOOLEAN]
  /\ user \in [Worker -> Client \cup {NoClient}]
  /\ pc \in [Client -> {"rest", "popped", "build", "configure", "using", "park",
                        "discard", "kick"}]
  /\ held \in [Client -> Worker \cup {NoWorker}]
  /\ fpc \in {"wait", "check", "build", "warm", "park", "done"}
  /\ fheld \in Worker \cup {NoWorker}
  /\ batch \in SUBSET Worker
  /\ starved \in BOOLEAN
  /\ crashed \in BOOLEAN

\* A worker is in one place only: no two sessions, and no session and the idle
\* set, ever share an instance, whichever way checkouts, closes, the filler
\* and Pool.Close interleave.
Exclusive ==
  /\ \A i, j \in DOMAIN idle : idle[i] = idle[j] => i = j
  /\ \A c \in Client : held[c] # NoWorker =>
       /\ ~InIdle(held[c])
       /\ held[c] # fheld
       /\ held[c] \notin batch
       /\ \A d \in Client : held[d] = held[c] => d = c
  /\ fheld # NoWorker => ~InIdle(fheld) /\ fheld \notin batch
  /\ \A i \in DOMAIN idle : idle[i] \notin batch

\* No instance is lost: one that was built and not closed is in the idle set
\* or in the hands of a goroutine that will put it somewhere.
NoOrphan ==
  \A x \in Worker : inst[x] # "absent" =>
    \/ InIdle(x)
    \/ \E c \in Client : held[c] = x
    \/ fheld = x
    \/ x \in batch

\* No instance is used after it was closed.
HeldExist ==
  /\ \A i \in DOMAIN idle : inst[idle[i]] # "absent"
  /\ \A c \in Client : held[c] # NoWorker => inst[held[c]] # "absent"
  /\ fheld # NoWorker => inst[fheld] # "absent"
  /\ \A x \in batch : inst[x] # "absent"

\* An idle worker serves the next session: it lives, holds nothing of an
\* earlier session, and is neither aged nor bloated.
IdleClean ==
  \A i \in DOMAIN idle :
    /\ healthy(idle[i])
    /\ user[idle[i]] = NoClient

\* No worker serves more sessions than the pool allows.
RunsBounded == \A x \in Worker : runs[x] <= MaxRuns

\* A session runs on a worker that holds its own state and no other's.
OwnState ==
  \A c \in Client : pc[c] = "using" => user[held[c]] = c

\* The idle set overshoots its size by at most the one worker the filler was
\* building while a session was closed.
IdleBound == Len(idle) <= Idle + 1

\* No wakeup is lost: while the idle set is short, the filler is at work, or a
\* kick is in the channel, or a checkout is about to send one, unless the
\* filler gave up on a worker that could not be built.
NoLostKick ==
  ~closed /\ Len(idle) < Idle =>
    token \/ fpc # "wait" \/ starved \/ \E c \in Client : pc[c] = "popped"

\* A short idle set is topped up, unless a checkout takes another worker, if
\* workers can be built.
Refilled ==
  (~closed /\ Len(idle) < Idle) ~>
    (closed \/ Len(idle) >= Idle \/ \E c \in Client : pc[c] = "popped")

\* After Close every idle instance is closed and the filler ends.
CloseCompletes ==
  closed ~> crashed \/ (batch = {} /\ fpc = "done")

\* The worker each open session runs on, and the workers whose child holds the
\* state of a session.
sessionOn == [c \in Client |-> IF pc[c] = "using" THEN held[c] ELSE NoWorker]
holding   == { x \in Worker : user[x] # NoClient }

\* The pool implements Lease: whatever happens between Checkout and release, a
\* session starts on a worker that is nobody else's and holds nothing, and
\* nobody touches that worker before the session is closed.
Promise == INSTANCE Lease WITH lease <- sessionOn, dirty <- holding

ImplementsLease == Promise!LeaseSpec

(***************************************************************************)
(* What the documentation says and the code does not do                    *)
(***************************************************************************)

\* "Sessions still checked out keep working and are closed for good when they
\* are closed" (pool.go, Close): closing one does not panic.
SessionCloseSurvives ==
  [][ \A c \in Client : pc[c] = "kick" /\ pc'[c] = "rest" => ~crashed' ]_vars
=============================================================================
