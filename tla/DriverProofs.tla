---------------------------- MODULE DriverProofs ----------------------------
(***************************************************************************)
(* What the driver guarantees for every number of calls and of drivers:    *)
(* its books agree with its goroutines, so that it neither waits for one   *)
(* that is gone nor loses an outcome the child still waits for.            *)
(***************************************************************************)
EXTENDS Driver, TLAPS

(***************************************************************************)
(* The inductive invariant                                                 *)
(***************************************************************************)

\* A call has a goroutine exactly if a driver started one, and only a call that
\* was made and a driver that was made can be involved.
Started ==
  \A id \in CallID :
    /\ gor[id] = "none" <=> owner[id] = Nobody
    /\ id > calls => owner[id] = Nobody
    /\ owner[id] <= made

\* The child waits for calls it made; the one it is at is nobody's yet.
ChildCalls ==
  /\ awaits \subseteq deferred
  /\ \A id \in deferred : id <= calls
  /\ child = "call" => calls \in CallID /\ owner[calls] = Nobody /\ calls \notin deferred
  /\ child = "futures" => awaits # {}
  /\ child = "idle" => deferred = {}

\* A driver that was not made yet has no books and is not closed, nor is the
\* one at work.
Unmade ==
  /\ cur <= made
  /\ cur \notin done
  /\ \A d \in done : d <= made
  /\ \A d \in Drivers : d > made => pending[d] = {} /\ settled[d] = {}

\* While a run is on, the child waits for all the goroutines of its driver.
PendingDeferred ==
  Locked /\ Paused /\ pc # "return" => pending[cur] \subseteq deferred

\* The driver waits only where the child does.
SelectsAtFutures == pc = "select" => Locked /\ child = "futures"

IInv ==
  /\ TypeOK
  /\ Started
  /\ ChildCalls
  /\ Unmade
  /\ PendingDeferred
  /\ SelectsAtFutures
  /\ BooksAgree
  /\ SettledOnce
  /\ OutcomeKept

\* What a turn does to the child: it makes at most one more call, which is
\* nobody's yet, and otherwise waits for what is outstanding.
Turned(outstanding) ==
  /\ child' \in {"idle", "call", "futures"}
  /\ calls' \in calls..MaxCalls
  /\ deferred' \in {{}, outstanding}
  /\ child' # "idle" => deferred' = outstanding
  /\ child' = "idle" => deferred' = {}
  /\ awaits' \subseteq deferred'
  /\ child' = "futures" => awaits' # {}
  /\ child' = "call" => calls' = calls + 1

LEMMA ResumesTurns ==
  ASSUME TypeOK, NEW outstanding \in SUBSET CallID, Resumes(outstanding)
  PROVE  Turned(outstanding)
<1>1. calls \in 0..MaxCalls
  BY DEF TypeOK
<1>2. CASE child' = "idle" /\ deferred' = {} /\ awaits' = {} /\ calls' = calls
  BY <1>1, <1>2, DriverAssumption DEF Turned
<1>3. CASE /\ calls < MaxCalls /\ calls' = calls + 1
           /\ child' = "call" /\ deferred' = outstanding /\ awaits' = {}
  BY <1>1, <1>3, DriverAssumption DEF Turned
<1>4. CASE /\ child' = "futures" /\ deferred' = outstanding
           /\ awaits' \in (SUBSET outstanding) \ {{}} /\ calls' = calls
  BY <1>1, <1>4, DriverAssumption DEF Turned
<1>5. QED BY <1>2, <1>3, <1>4 DEF Resumes

LEMMA AbortedTurns ==
  ASSUME TypeOK, Aborted, NEW outstanding \in SUBSET CallID
  PROVE  Turned(outstanding)
  BY DriverAssumption DEF TypeOK, Aborted, Turned

\* The call the child is at after a turn has no goroutine.
LEMMA TurnedChild ==
  ASSUME IInv, NEW outstanding \in SUBSET CallID, Turned(outstanding),
         \A id \in outstanding : id <= calls,
         owner' \in [CallID -> Drivers \cup {Nobody}],
         \A id \in CallID : id > calls => owner'[id] = owner[id]
  PROVE  /\ ChildCalls'
         /\ \A id \in CallID : id > calls' => owner'[id] = Nobody
         /\ deferred' \in SUBSET CallID /\ awaits' \in SUBSET CallID
         /\ calls' \in 0..MaxCalls
<1> USE DriverAssumption
<1>1. calls \in 0..MaxCalls /\ calls' \in calls..MaxCalls /\ calls' \in 0..MaxCalls
  BY DEF IInv, TypeOK, Turned
<1>2. \A id \in CallID : id > calls => owner'[id] = Nobody
  BY DEF IInv, Started
<1>3. \A id \in CallID : id > calls' => owner'[id] = Nobody
  BY <1>1, <1>2 DEF CallID
<1>4. child' = "call" => calls' \in CallID /\ owner'[calls'] = Nobody /\ calls' \notin deferred'
  BY <1>1, <1>2 DEF CallID, Turned
<1>5. \A id \in deferred' : id <= calls'
  <2>1. deferred' \subseteq outstanding
    BY DEF Turned
  <2>2. \A id \in outstanding : id \in Nat
    BY DEF CallID
  <2>3. QED BY <1>1, <2>1, <2>2
<1>6. QED BY <1>1, <1>3, <1>4, <1>5 DEF Turned, ChildCalls

(***************************************************************************)
(* Steps that leave the books as they are                                  *)
(***************************************************************************)

\* A turn of the child without news for any driver.
LEMMA TurnKeeps ==
  ASSUME IInv, NEW outstanding \in SUBSET CallID, Turned(outstanding),
         \A id \in outstanding : id <= calls,
         UNCHANGED << drivers, pending, settled, routines >>,
         Locked => outstanding = deferred /\ Paused /\ pc = "resolve"
                   /\ pc' \in {"resolve", "return"},
         ~Locked => pc' = pc
  PROVE  IInv'
<1>1. UNCHANGED << cur, mode, made, done, pending, settled, owner, gor >>
  BY DEF drivers, routines
<1>2. TypeOK /\ Started /\ Unmade
  BY DEF IInv
<1>3. /\ ChildCalls'
      /\ \A id \in CallID : id > calls' => owner'[id] = Nobody
      /\ deferred' \in SUBSET CallID /\ awaits' \in SUBSET CallID
      /\ calls' \in 0..MaxCalls
  BY <1>1, <1>2, TurnedChild DEF TypeOK
<1>4. child' \in {"idle", "call", "futures"} /\ pc' \in {"resolve", "select", "return"}
  BY <1>2 DEF Turned, TypeOK
<1>5. TypeOK'
  BY <1>1, <1>2, <1>3, <1>4 DEF TypeOK
<1>6. Started'
  BY <1>1, <1>2, <1>3 DEF Started
<1>7. Unmade'
  BY <1>1, <1>2 DEF Unmade
<1>8. SelectsAtFutures'
  BY <1>1 DEF IInv, SelectsAtFutures, Locked
<1>9. BooksAgree'
  BY <1>1 DEF IInv, BooksAgree, Locked
<1>10. Paused' => deferred' = outstanding
  BY <1>4 DEF Turned, Paused
<1>11. PendingDeferred' /\ SettledOnce' /\ OutcomeKept'
  <2>1. CASE ~Locked
    BY <1>1, <2>1 DEF Locked, PendingDeferred, SettledOnce, OutcomeKept
  <2>2. CASE Locked
    <3>1. /\ pending[cur] \subseteq deferred
          /\ \A id \in settled[cur] : id \in deferred
          /\ \A id \in deferred : owner[id] = cur => id \in pending[cur] \cup settled[cur]
      BY <2>2 DEF IInv, PendingDeferred, SettledOnce, OutcomeKept, Paused
    <3>2. QED
      BY <1>1, <1>10, <2>2, <3>1
         DEF Locked, PendingDeferred, SettledOnce, OutcomeKept, Paused
  <2>3. QED BY <2>1, <2>2
<1>12. QED BY <1>3, <1>5, <1>6, <1>7, <1>8, <1>9, <1>11 DEF IInv

LEMMA StepStart ==
  ASSUME IInv, Start
  PROVE  IInv'
<1>1. /\ ~Locked /\ Resumes({})
      /\ UNCHANGED << drivers, pc, pending, settled, routines >>
  BY DEF Start
<1>2. Turned({})
  BY <1>1, ResumesTurns DEF IInv
<1>3. QED BY <1>1, <1>2, TurnKeeps

LEMMA StepAnswerByHand ==
  ASSUME IInv, AnswerByHand
  PROVE  IInv'
<1>1. PICK out \in { deferred, deferred \cup {calls} } : Resumes(out)
  BY DEF AnswerByHand
<1>2. /\ ~Locked /\ child = "call"
      /\ UNCHANGED << drivers, pc, pending, settled, routines >>
  BY DEF AnswerByHand
<1>3. out \in SUBSET CallID /\ \A id \in out : id <= calls
  <2>1. deferred \in SUBSET CallID /\ calls \in CallID /\ calls <= calls
    BY <1>2 DEF IInv, TypeOK, ChildCalls, CallID
  <2>2. \A id \in deferred : id <= calls
    BY DEF IInv, ChildCalls
  <2>3. QED BY <1>1, <2>1, <2>2
<1>4. Turned(out)
  BY <1>1, <1>3, ResumesTurns DEF IInv
<1>5. QED BY <1>2, <1>3, <1>4, TurnKeeps

\* What TurnKeeps asks of a turn that a driver takes.
LEMMA DeferredKnown ==
  ASSUME IInv
  PROVE  deferred \in SUBSET CallID /\ \A id \in deferred : id <= calls
  BY DEF IInv, TypeOK, ChildCalls

LEMMA StepCallSync ==
  ASSUME IInv, CallSync
  PROVE  IInv'
<1>1. /\ Locked /\ pc = "resolve" /\ Paused /\ Resumes(deferred)
      /\ pc' \in {"resolve", "return"}
      /\ UNCHANGED << drivers, pending, settled, routines >>
  BY DEF CallSync, NextStep, Paused
<1>2. Turned(deferred)
  BY <1>1, DeferredKnown, ResumesTurns DEF IInv
<1>3. QED BY <1>1, <1>2, DeferredKnown, TurnKeeps

LEMMA StepFuturesForeign ==
  ASSUME IInv, FuturesForeign
  PROVE  IInv'
<1>1. /\ Locked /\ pc = "resolve" /\ Paused /\ Aborted
      /\ pc' \in {"resolve", "return"}
      /\ UNCHANGED << drivers, pending, settled, routines >>
  BY DEF FuturesForeign, AtFutures, NextStep, Paused
<1>2. Turned(deferred)
  BY <1>1, DeferredKnown, AbortedTurns DEF IInv
<1>3. QED BY <1>1, <1>2, DeferredKnown, TurnKeeps

\* The child stays where it is, or dies.
LEMMA PauseKeeps ==
  ASSUME IInv, Locked, UNCHANGED << calls, awaits, deferred >>,
         UNCHANGED << drivers, pending, settled, routines >>,
         child' \in {child, "dead"},
         pc' = "return" \/ (pc' = "select" /\ child' = "futures" /\ pc = "resolve")
  PROVE  IInv'
<1>1. UNCHANGED << cur, mode, made, done, pending, settled, owner, gor >>
  BY DEF drivers, routines
<1>2. TypeOK'
  BY <1>1 DEF IInv, TypeOK
<1>3. Started' /\ Unmade' /\ BooksAgree'
  BY <1>1 DEF IInv, Started, Unmade, BooksAgree, Locked
<1>4. ChildCalls'
  BY <1>1 DEF IInv, ChildCalls
<1>5. PendingDeferred' /\ SelectsAtFutures'
  BY <1>1 DEF IInv, PendingDeferred, SelectsAtFutures, Locked, Paused
<1>6. SettledOnce'
  BY <1>1 DEF IInv, SettledOnce, Locked
<1>7. OutcomeKept'
  BY <1>1 DEF IInv, OutcomeKept, Locked
<1>8. QED BY <1>2, <1>3, <1>4, <1>5, <1>6, <1>7 DEF IInv

LEMMA StepCallPanics ==
  ASSUME IInv, CallPanics
  PROVE  IInv'
<1>1. /\ Locked /\ pc = "resolve" /\ Paused /\ pc' = "return"
      /\ UNCHANGED << drivers, pending, settled, routines >>
  BY DEF CallPanics, Paused
<1>2. CASE mode = "run"
  <2>1. Turned(deferred)
    BY <1>2, DeferredKnown, AbortedTurns DEF IInv, CallPanics
  <2>2. QED BY <1>1, <2>1, DeferredKnown, TurnKeeps
<1>3. CASE mode # "run"
  BY <1>1, <1>3, PauseKeeps DEF CallPanics
<1>4. QED BY <1>2, <1>3

LEMMA StepFuturesWait ==
  ASSUME IInv, FuturesWait
  PROVE  IInv'
  BY PauseKeeps DEF FuturesWait, AtFutures

LEMMA StepCancelled ==
  ASSUME IInv, Cancelled
  PROVE  IInv'
  BY PauseKeeps DEF Cancelled, Dies


(***************************************************************************)
(* Steps that make or close a driver                                       *)
(***************************************************************************)

\* A new driver has empty books, and no goroutine is its own.
LEMMA NewDriverKeeps ==
  ASSUME IInv, NEW m \in {"run", "resolve"}, NewDriver(m), ~Locked,
         child' \in {"idle", "call", "futures"},
         calls' \in 0..MaxCalls, deferred' \in SUBSET CallID, awaits' \in SUBSET CallID,
         ChildCalls',
         \A id \in CallID : id > calls' => owner[id] = Nobody
  PROVE  IInv'
<1> USE DriverAssumption
<1>1. /\ made \in Nat /\ made < MaxDrivers /\ made' = made + 1 /\ cur' = made + 1
      /\ pc' = "resolve" /\ mode' = m
      /\ UNCHANGED << pending, settled, done, owner, gor >>
  BY DEF NewDriver, routines, IInv, TypeOK
<1>2. cur' \in Drivers /\ made' \in 0..MaxDrivers /\ cur' # Nobody
  BY <1>1 DEF Drivers, Nobody
<1>3. TypeOK'
  BY <1>1, <1>2 DEF IInv, TypeOK
<1>4. \A id \in CallID : owner[id] \in Int /\ owner[id] <= made
  BY DEF IInv, TypeOK, Started, Drivers, Nobody
<1>5. Started'
  BY <1>1, <1>4 DEF IInv, Started
<1>6. \A d \in done : d \in Int /\ d <= made
  BY DEF IInv, TypeOK, Unmade, Drivers
<1>7. \A d \in Drivers : d > made => pending[d] = {} /\ settled[d] = {}
  BY DEF IInv, Unmade
<1>8. Unmade'
  <2>1. cur' \notin done'
    BY <1>1, <1>6
  <2>2. \A d \in Drivers : d > made' => d > made
    BY <1>1 DEF Drivers
  <2>3. QED BY <1>1, <1>6, <1>7, <2>1, <2>2 DEF Unmade
<1>9. pending'[cur'] = {} /\ settled'[cur'] = {} /\ \A id \in CallID : owner'[id] # cur'
  <2>1. cur' > made
    BY <1>1
  <2>2. pending[cur'] = {} /\ settled[cur'] = {}
    BY <1>2, <1>7, <2>1
  <2>3. QED BY <1>1, <1>4, <2>1, <2>2
<1>10. BooksAgree' /\ SettledOnce' /\ PendingDeferred'
  BY <1>9 DEF BooksAgree, SettledOnce, PendingDeferred
<1>11. OutcomeKept'
  BY <1>9 DEF OutcomeKept
<1>12. SelectsAtFutures'
  BY <1>1 DEF SelectsAtFutures
<1>13. QED BY <1>3, <1>5, <1>8, <1>10, <1>11, <1>12 DEF IInv

LEMMA StepRun ==
  ASSUME IInv, Run
  PROVE  IInv'
<1>1. ~Locked /\ Resumes({}) /\ NewDriver("run")
  BY DEF Run
<1>2. Turned({})
  BY <1>1, ResumesTurns DEF IInv
<1>3. owner' = owner
  BY <1>1 DEF NewDriver, routines
<1>4. /\ ChildCalls'
      /\ \A id \in CallID : id > calls' => owner[id] = Nobody
      /\ deferred' \in SUBSET CallID /\ awaits' \in SUBSET CallID
      /\ calls' \in 0..MaxCalls
  BY <1>2, <1>3, TurnedChild DEF IInv, TypeOK
<1>5. QED BY <1>1, <1>2, <1>4, NewDriverKeeps DEF Turned

LEMMA StepContinueResolve ==
  ASSUME IInv, Continue \/ Resolve
  PROVE  IInv'
<1>1. /\ ~Locked /\ Paused
      /\ NewDriver("run") \/ NewDriver("resolve")
      /\ UNCHANGED << child, calls, awaits, deferred >>
  BY DEF Continue, Resolve
<1>2. owner' = owner
  BY <1>1 DEF NewDriver, routines
<1>3. ChildCalls' /\ \A id \in CallID : id > calls' => owner[id] = Nobody
  BY <1>1, <1>2 DEF IInv, ChildCalls, Started
<1>4. QED BY <1>1, <1>3, NewDriverKeeps DEF IInv, TypeOK, Paused

LEMMA StepReturn ==
  ASSUME IInv, Return
  PROVE  IInv'
<1> USE DriverAssumption
<1>1. /\ cur # Nobody /\ done' = done \cup {cur} /\ cur' = Nobody
      /\ pc = "return" \/ pc = "resolve"
      /\ UNCHANGED << child, calls, awaits, deferred, mode, made, pc, pending, settled,
                      owner, gor >>
  BY DEF Return, Locked, routines
<1>2. cur \in Drivers /\ done \subseteq Drivers /\ Nobody \notin Drivers /\ made \in Nat
  BY <1>1 DEF IInv, TypeOK, Drivers, Nobody
<1>3. TypeOK'
  BY <1>1, <1>2 DEF IInv, TypeOK
<1>4. Unmade'
  BY <1>1, <1>2 DEF IInv, Unmade, Nobody
<1>5. Started' /\ ChildCalls'
  BY <1>1 DEF IInv, Started, ChildCalls
<1>6. SelectsAtFutures'
  BY <1>1 DEF SelectsAtFutures
<1>7. BooksAgree' /\ SettledOnce' /\ OutcomeKept' /\ PendingDeferred'
  BY <1>1 DEF BooksAgree, SettledOnce, OutcomeKept, PendingDeferred, Locked
<1>8. QED BY <1>3, <1>4, <1>5, <1>6, <1>7 DEF IInv

(***************************************************************************)
(* Steps that change the books of the driver at work                       *)
(***************************************************************************)

\* A turn with these calls outstanding, after which the books of the driver
\* are about the outstanding calls and agree with the goroutines.
LEMMA BooksTurn ==
  ASSUME IInv, Locked, NEW outstanding \in SUBSET CallID, Turned(outstanding),
         \A id \in outstanding : id <= calls,
         UNCHANGED drivers, pc' \in {"resolve", "return"},
         pending' \in [Drivers -> SUBSET CallID], settled' \in [Drivers -> SUBSET CallID],
         owner' \in [CallID -> Drivers \cup {Nobody}],
         gor' \in [CallID -> {"none", "fn", "send", "end"}],
         \A d \in Drivers : d # cur => pending'[d] = pending[d] /\ settled'[d] = settled[d],
         \A id \in CallID : id > calls => owner'[id] = owner[id],
         \A id \in CallID : owner'[id] <= made /\ (gor'[id] = "none" <=> owner'[id] = Nobody),
         BooksAgree',
         pending'[cur] \cup settled'[cur] \subseteq outstanding,
         \A id \in outstanding : owner'[id] = cur => id \in pending'[cur] \cup settled'[cur]
  PROVE  IInv'
<1>1. UNCHANGED << cur, mode, made, done >>
  BY DEF drivers
<1>2. /\ ChildCalls'
      /\ \A id \in CallID : id > calls' => owner'[id] = Nobody
      /\ deferred' \in SUBSET CallID /\ awaits' \in SUBSET CallID
      /\ calls' \in 0..MaxCalls
  BY TurnedChild
<1>3. child' \in {"idle", "call", "futures"}
  BY DEF Turned
<1>4. TypeOK'
  BY <1>1, <1>2, <1>3 DEF IInv, TypeOK
<1>5. Started'
  BY <1>1, <1>2 DEF Started
<1>6. Unmade'
  <2>1. cur \in Drivers /\ cur <= made /\ made \in Int
    BY DEF IInv, TypeOK, Unmade, Locked
  <2>2. \A d \in Drivers : d > made => d # cur
    BY <2>1 DEF Drivers
  <2>3. QED BY <1>1, <2>2 DEF IInv, Unmade
<1>7. SelectsAtFutures'
  BY DEF SelectsAtFutures
<1>8. Paused' => deferred' = outstanding
  BY DEF Turned, Paused
<1>9. PendingDeferred' /\ SettledOnce' /\ OutcomeKept'
  BY <1>1, <1>8 DEF PendingDeferred, SettledOnce, OutcomeKept, Paused
<1>10. QED BY <1>2, <1>4, <1>5, <1>6, <1>7, <1>9 DEF IInv

\* What the books of the driver at work say before a step.
LEMMA Books ==
  ASSUME IInv, Locked, Paused, pc # "return"
  PROVE  /\ cur \in Drivers /\ cur # Nobody
         /\ pending[cur] \in SUBSET CallID /\ settled[cur] \in SUBSET CallID
         /\ pending[cur] = { id \in CallID : owner[id] = cur /\ gor[id] \in {"fn", "send"} }
         /\ \A id \in settled[cur] : owner[id] = cur /\ gor[id] = "end"
         /\ pending[cur] \subseteq deferred
         /\ \A id \in settled[cur] : id \in deferred
         /\ \A id \in deferred : owner[id] = cur => id \in pending[cur] \cup settled[cur]
<1>1. cur \in Drivers /\ cur # Nobody
  BY DEF IInv, TypeOK, Locked
<1>2. pending[cur] \in SUBSET CallID /\ settled[cur] \in SUBSET CallID
  BY <1>1 DEF IInv, TypeOK
<1>3. /\ pending[cur] = { id \in CallID : owner[id] = cur /\ gor[id] \in {"fn", "send"} }
      /\ \A id \in settled[cur] : owner[id] = cur /\ gor[id] = "end"
  BY DEF IInv, BooksAgree
<1>4. /\ pending[cur] \subseteq deferred
      /\ \A id \in settled[cur] : id \in deferred
      /\ \A id \in deferred : owner[id] = cur => id \in pending[cur] \cup settled[cur]
  BY DEF IInv, PendingDeferred, SettledOnce, OutcomeKept, Paused
<1>5. QED BY <1>1, <1>2, <1>3, <1>4

LEMMA StepCallAsync ==
  ASSUME IInv, CallAsync
  PROVE  IInv'
<1> DEFINE outstanding == deferred \cup {calls}
<1>1. /\ Locked /\ pc = "resolve" /\ child = "call" /\ Paused
      /\ pending' = [pending EXCEPT ![cur] = @ \cup {calls}]
      /\ owner' = [owner EXCEPT ![calls] = cur]
      /\ gor' = [gor EXCEPT ![calls] = "fn"]
      /\ Resumes(outstanding)
      /\ pc' \in {"resolve", "return"}
      /\ UNCHANGED drivers /\ settled' = settled
  BY DEF CallAsync, NextStep, Paused
<1>2. /\ cur \in Drivers /\ cur # Nobody
      /\ pending[cur] \in SUBSET CallID /\ settled[cur] \in SUBSET CallID
      /\ pending[cur] = { id \in CallID : owner[id] = cur /\ gor[id] \in {"fn", "send"} }
      /\ \A id \in settled[cur] : owner[id] = cur /\ gor[id] = "end"
      /\ pending[cur] \subseteq deferred
      /\ \A id \in settled[cur] : id \in deferred
      /\ \A id \in deferred : owner[id] = cur => id \in pending[cur] \cup settled[cur]
  BY <1>1, Books
<1>3. /\ calls \in CallID /\ owner[calls] = Nobody /\ calls \notin deferred
      /\ outstanding \in SUBSET CallID
      /\ \A id \in outstanding : id <= calls
  <2>1. calls \in CallID /\ owner[calls] = Nobody /\ calls \notin deferred
    BY <1>1 DEF IInv, ChildCalls
  <2>2. calls <= calls
    BY <2>1 DEF CallID
  <2>3. QED BY <2>1, <2>2, DeferredKnown
<1>4. Turned(outstanding)
  BY <1>1, <1>3, ResumesTurns DEF IInv
<1>5. /\ pending \in [Drivers -> SUBSET CallID] /\ settled \in [Drivers -> SUBSET CallID]
      /\ owner \in [CallID -> Drivers \cup {Nobody}]
      /\ gor \in [CallID -> {"none", "fn", "send", "end"}]
  BY DEF IInv, TypeOK
<1>6. /\ pending' \in [Drivers -> SUBSET CallID] /\ settled' \in [Drivers -> SUBSET CallID]
      /\ owner' \in [CallID -> Drivers \cup {Nobody}]
      /\ gor' \in [CallID -> {"none", "fn", "send", "end"}]
  BY <1>1, <1>2, <1>3, <1>5
<1>7. \A d \in Drivers : d # cur => pending'[d] = pending[d] /\ settled'[d] = settled[d]
  BY <1>1, <1>5
<1>8. pending'[cur] = pending[cur] \cup {calls} /\ settled'[cur] = settled[cur]
  BY <1>1, <1>2, <1>5
<1>9. \A id \in CallID : /\ owner'[id] = IF id = calls THEN cur ELSE owner[id]
                         /\ gor'[id] = IF id = calls THEN "fn" ELSE gor[id]
  BY <1>1, <1>5
<1>10. \A id \in CallID : id > calls => owner'[id] = owner[id]
  BY <1>3, <1>9 DEF CallID
<1>11. \A id \in CallID : owner'[id] <= made /\ (gor'[id] = "none" <=> owner'[id] = Nobody)
  <2>1. cur <= made
    BY DEF IInv, Unmade
  <2>2. \A id \in CallID : owner[id] <= made /\ (gor[id] = "none" <=> owner[id] = Nobody)
    BY DEF IInv, Started
  <2>3. QED BY <1>2, <1>9, <2>1, <2>2
<1>12. BooksAgree'
  <2>1. cur' = cur
    BY <1>1 DEF drivers
  <2>2. pending'[cur] = { id \in CallID : owner'[id] = cur /\ gor'[id] \in {"fn", "send"} }
    BY <1>2, <1>3, <1>8, <1>9
  <2>3. \A id \in settled'[cur] : owner'[id] = cur /\ gor'[id] = "end"
    BY <1>2, <1>3, <1>8, <1>9
  <2>4. QED BY <2>1, <2>2, <2>3 DEF BooksAgree
<1>13. /\ pending'[cur] \cup settled'[cur] \subseteq outstanding
       /\ \A id \in outstanding : owner'[id] = cur => id \in pending'[cur] \cup settled'[cur]
  BY <1>2, <1>3, <1>8, <1>9
<1> HIDE DEF outstanding
<1>14. QED
  BY <1>1, <1>3, <1>4, <1>6, <1>7, <1>10, <1>11, <1>12, <1>13, BooksTurn

LEMMA StepFuturesKnown ==
  ASSUME IInv, FuturesKnown
  PROVE  IInv'
<1> DEFINE known == settled[cur] \cap awaits
           outstanding == deferred \ known
<1>1. /\ Locked /\ pc = "resolve" /\ child = "futures" /\ Paused
      /\ settled' = [settled EXCEPT ![cur] = @ \ known]
      /\ Resumes(outstanding)
      /\ pc' \in {"resolve", "return"}
      /\ UNCHANGED drivers /\ UNCHANGED << pending, owner, gor >>
  BY DEF FuturesKnown, AtFutures, Settle, NextStep, Paused, routines
<1>2. /\ cur \in Drivers /\ cur # Nobody
      /\ pending[cur] \in SUBSET CallID /\ settled[cur] \in SUBSET CallID
      /\ pending[cur] = { id \in CallID : owner[id] = cur /\ gor[id] \in {"fn", "send"} }
      /\ \A id \in settled[cur] : owner[id] = cur /\ gor[id] = "end"
      /\ pending[cur] \subseteq deferred
      /\ \A id \in settled[cur] : id \in deferred
      /\ \A id \in deferred : owner[id] = cur => id \in pending[cur] \cup settled[cur]
  BY <1>1, Books
<1>3. outstanding \in SUBSET CallID /\ \A id \in outstanding : id <= calls
  BY DeferredKnown
<1>4. Turned(outstanding)
  BY <1>1, <1>3, ResumesTurns DEF IInv
<1>5. /\ pending \in [Drivers -> SUBSET CallID] /\ settled \in [Drivers -> SUBSET CallID]
      /\ owner \in [CallID -> Drivers \cup {Nobody}]
      /\ gor \in [CallID -> {"none", "fn", "send", "end"}]
  BY DEF IInv, TypeOK
<1>6. /\ settled' \in [Drivers -> SUBSET CallID]
      /\ settled'[cur] = settled[cur] \ known
      /\ \A d \in Drivers : d # cur => settled'[d] = settled[d]
  BY <1>1, <1>2, <1>5
<1>7. \A id \in CallID : owner[id] <= made /\ (gor[id] = "none" <=> owner[id] = Nobody)
  BY DEF IInv, Started
<1>8. BooksAgree'
  <2>1. cur' = cur
    BY <1>1 DEF drivers
  <2>2. QED BY <1>1, <1>2, <1>6, <2>1 DEF BooksAgree
<1>9. /\ pending[cur] \cup settled'[cur] \subseteq outstanding
      /\ \A id \in outstanding : owner[id] = cur => id \in pending[cur] \cup settled'[cur]
  BY <1>2, <1>6
<1> HIDE DEF outstanding, known
<1>10. QED
  BY <1>1, <1>3, <1>4, <1>5, <1>6, <1>7, <1>8, <1>9, BooksTurn

LEMMA StepReceive ==
  ASSUME IInv, NEW call \in CallID, Receive(call)
  PROVE  IInv'
<1>1. /\ Locked /\ pc = "select" /\ child = "futures" /\ Paused
      /\ gor[call] = "send" /\ owner[call] = cur
      /\ gor' = [gor EXCEPT ![call] = "end"]
      /\ pending' = [pending EXCEPT ![cur] = @ \ {call}]
      /\ UNCHANGED drivers /\ owner' = owner
  BY DEF Receive, IInv, SelectsAtFutures, Paused
<1>2. /\ cur \in Drivers /\ cur # Nobody
      /\ pending[cur] \in SUBSET CallID /\ settled[cur] \in SUBSET CallID
      /\ pending[cur] = { id \in CallID : owner[id] = cur /\ gor[id] \in {"fn", "send"} }
      /\ \A id \in settled[cur] : owner[id] = cur /\ gor[id] = "end"
      /\ pending[cur] \subseteq deferred
      /\ \A id \in settled[cur] : id \in deferred
      /\ \A id \in deferred : owner[id] = cur => id \in pending[cur] \cup settled[cur]
  BY <1>1, Books
<1>3. /\ pending \in [Drivers -> SUBSET CallID] /\ settled \in [Drivers -> SUBSET CallID]
      /\ owner \in [CallID -> Drivers \cup {Nobody}]
      /\ gor \in [CallID -> {"none", "fn", "send", "end"}]
  BY DEF IInv, TypeOK
<1>4. /\ pending' \in [Drivers -> SUBSET CallID]
      /\ gor' \in [CallID -> {"none", "fn", "send", "end"}]
      /\ pending'[cur] = pending[cur] \ {call}
      /\ \A d \in Drivers : d # cur => pending'[d] = pending[d]
      /\ \A id \in CallID : gor'[id] = IF id = call THEN "end" ELSE gor[id]
  BY <1>1, <1>2, <1>3
<1>5. \A id \in CallID : owner[id] <= made /\ (gor[id] = "none" <=> owner[id] = Nobody)
  BY DEF IInv, Started
<1>6. \A id \in CallID : gor'[id] = "none" <=> owner[id] = Nobody
  BY <1>1, <1>4, <1>5
<1>7. pending'[cur] = { id \in CallID : owner[id] = cur /\ gor'[id] \in {"fn", "send"} }
  BY <1>1, <1>2, <1>4
<1>8. cur' = cur
  BY <1>1 DEF drivers
<1>9. CASE call \in awaits
  <2> DEFINE outstanding == deferred \ {call}
  <2>1. Resumes(outstanding) /\ settled' = settled /\ pc' \in {"resolve", "return"}
    BY <1>9 DEF Receive, Settle, NextStep
  <2>2. outstanding \in SUBSET CallID /\ \A id \in outstanding : id <= calls
    BY DeferredKnown
  <2>3. Turned(outstanding)
    BY <2>1, <2>2, ResumesTurns DEF IInv
  <2>4. call \notin settled[cur]
    BY <1>1, <1>2
  <2>5. BooksAgree'
    BY <1>1, <1>2, <1>4, <1>7, <1>8, <2>1 DEF BooksAgree
  <2>6. /\ pending'[cur] \cup settled'[cur] \subseteq outstanding
        /\ \A id \in outstanding : owner[id] = cur => id \in pending'[cur] \cup settled'[cur]
    BY <1>2, <1>4, <2>1, <2>4
  <2> HIDE DEF outstanding
  <2>7. QED
    BY <1>1, <1>3, <1>4, <1>5, <1>6, <2>1, <2>2, <2>3, <2>5, <2>6, BooksTurn
<1>10. CASE call \notin awaits
  <2>1. /\ settled' = [settled EXCEPT ![cur] = @ \cup {call}]
        /\ UNCHANGED << child, calls, awaits, deferred, pc >>
    BY <1>10 DEF Receive
  <2>2. /\ settled' \in [Drivers -> SUBSET CallID]
        /\ settled'[cur] = settled[cur] \cup {call}
        /\ \A d \in Drivers : d # cur => settled'[d] = settled[d]
    BY <1>2, <1>3, <2>1
  <2>3. UNCHANGED << cur, mode, made, done >>
    BY <1>1 DEF drivers
  <2>4. call \in pending[cur] /\ call \in deferred
    BY <1>1, <1>2
  <2>5. TypeOK'
    BY <1>1, <1>4, <2>1, <2>2, <2>3 DEF IInv, TypeOK
  <2>6. Started' /\ ChildCalls'
    BY <1>1, <1>5, <1>6, <2>1, <2>3 DEF IInv, Started, ChildCalls
  <2>7. Unmade'
    <3>1. cur <= made /\ cur \in Int /\ made \in Int
      BY <1>2 DEF IInv, TypeOK, Unmade, Drivers
    <3>2. \A d \in Drivers : d > made => d # cur
      BY <3>1 DEF Drivers
    <3>3. QED BY <1>4, <2>2, <2>3, <3>2 DEF IInv, Unmade
  <2>8. BooksAgree'
    BY <1>1, <1>2, <1>4, <1>7, <1>8, <2>2 DEF BooksAgree
  <2>9. PendingDeferred' /\ SettledOnce' /\ OutcomeKept' /\ SelectsAtFutures'
    BY <1>1, <1>2, <1>4, <1>8, <2>1, <2>2, <2>4
       DEF PendingDeferred, SettledOnce, OutcomeKept, SelectsAtFutures, Locked, Paused
  <2>10. QED BY <2>5, <2>6, <2>7, <2>8, <2>9 DEF IInv
<1>11. QED BY <1>9, <1>10

(***************************************************************************)
(* Steps of the goroutines                                                 *)
(***************************************************************************)

\* A goroutine goes on: of the driver at work it is one that will still report.
LEMMA RoutineKeeps ==
  ASSUME IInv, NEW call \in CallID, NEW to \in {"send", "end"},
         gor[call] \in {"fn", "send"}, gor' = [gor EXCEPT ![call] = to],
         to = "end" => owner[call] # cur,
         UNCHANGED << child, calls, awaits, deferred, drivers, pc, pending, settled, owner >>
  PROVE  IInv'
<1>1. UNCHANGED << cur, mode, made, done >>
  BY DEF drivers
<1>2. gor \in [CallID -> {"none", "fn", "send", "end"}]
  BY DEF IInv, TypeOK
<1>3. /\ gor' \in [CallID -> {"none", "fn", "send", "end"}]
      /\ \A id \in CallID : gor'[id] = IF id = call THEN to ELSE gor[id]
  BY <1>2
<1>4. TypeOK'
  BY <1>1, <1>3 DEF IInv, TypeOK
<1>5. Started'
  BY <1>1, <1>3 DEF IInv, Started
<1>6. ChildCalls' /\ Unmade' /\ SettledOnce' /\ OutcomeKept' /\ PendingDeferred' /\ SelectsAtFutures'
  BY <1>1 DEF IInv, ChildCalls, Unmade, SettledOnce, OutcomeKept, PendingDeferred,
              SelectsAtFutures, Locked, Paused
<1>7. BooksAgree'
  <2>1. SUFFICES ASSUME Locked
                 PROVE  /\ pending[cur] = { id \in CallID : owner[id] = cur
                                                     /\ gor'[id] \in {"fn", "send"} }
                        /\ \A id \in settled[cur] : owner[id] = cur /\ gor'[id] = "end"
    BY <1>1 DEF BooksAgree, Locked
  <2>2. /\ pending[cur] = { id \in CallID : owner[id] = cur /\ gor[id] \in {"fn", "send"} }
        /\ \A id \in settled[cur] : owner[id] = cur /\ gor[id] = "end"
        /\ settled[cur] \subseteq CallID
    BY <2>1 DEF IInv, BooksAgree, TypeOK, Locked
  <2>3. QED BY <1>3, <2>2
<1>8. QED BY <1>4, <1>5, <1>6, <1>7 DEF IInv

LEMMA StepFunctionReturns ==
  ASSUME IInv, NEW call \in CallID, FunctionReturns(call)
  PROVE  IInv'
  BY RoutineKeeps DEF FunctionReturns

LEMMA StepAbandon ==
  ASSUME IInv, NEW call \in CallID, Abandon(call)
  PROVE  IInv'
<1>1. owner[call] # cur
  BY DEF Abandon, IInv, Unmade
<1>2. QED BY <1>1, RoutineKeeps DEF Abandon

(***************************************************************************)
(* The theorems                                                            *)
(***************************************************************************)

LEMMA InitIInv ==
  ASSUME Init
  PROVE  IInv
<1> USE DriverAssumption
<1>1. TypeOK
  BY DEF Init, TypeOK, Drivers, Nobody, CallID
<1>2. Started /\ ChildCalls
  BY DEF Init, Started, ChildCalls, Nobody, CallID
<1>3. Unmade /\ PendingDeferred /\ SelectsAtFutures
  BY DEF Init, Unmade, PendingDeferred, SelectsAtFutures, Locked, Nobody
<1>4. BooksAgree /\ SettledOnce /\ OutcomeKept
  BY DEF Init, BooksAgree, SettledOnce, OutcomeKept, Locked
<1>5. QED BY <1>1, <1>2, <1>3, <1>4 DEF IInv

LEMMA NextIInv ==
  ASSUME IInv, [Next]_vars
  PROVE  IInv'
<1>1. CASE UNCHANGED vars
  BY <1>1 DEF vars, IInv, TypeOK, Started, ChildCalls, Unmade, PendingDeferred,
              SelectsAtFutures, BooksAgree, SettledOnce, OutcomeKept, Locked, Paused
<1>2. CASE Start \/ Run \/ Continue \/ Resolve \/ AnswerByHand
  BY <1>2, StepStart, StepRun, StepContinueResolve, StepAnswerByHand
<1>3. CASE DriverStep
  <2>1. CASE Return \/ CallSync \/ CallPanics \/ CallAsync
    BY <2>1, StepReturn, StepCallSync, StepCallPanics, StepCallAsync
  <2>2. CASE FuturesKnown \/ FuturesForeign \/ FuturesWait
    BY <2>2, StepFuturesKnown, StepFuturesForeign, StepFuturesWait
  <2>3. CASE \E id \in CallID : Receive(id)
    BY <2>3, StepReceive
  <2>4. QED BY <1>3, <2>1, <2>2, <2>3 DEF DriverStep
<1>4. CASE Cancelled
  BY <1>4, StepCancelled
<1>5. CASE \E id \in CallID : FunctionReturns(id) \/ Abandon(id)
  BY <1>5, StepFunctionReturns, StepAbandon
<1>6. QED BY <1>1, <1>2, <1>3, <1>4, <1>5 DEF Next

\* Every reachable state satisfies the inductive invariant.
THEOREM DriverInvariant == Spec => []IInv
<1>1. Init => IInv
  BY InitIInv
<1>2. IInv /\ [Next]_vars => IInv'
  BY NextIInv
<1>3. QED BY <1>1, <1>2, PTL DEF Spec

\* The variables have their types.
THEOREM DriverType == Spec => []TypeOK
<1>1. IInv => TypeOK
  BY DEF IInv
<1>2. QED BY <1>1, DriverInvariant, PTL

\* resolveFutures never waits for a goroutine that is gone: what the driver
\* notes as pending are exactly its goroutines that will still report, and what
\* it keeps as settled are outcomes of its own calls.
THEOREM DriverBooks == Spec => []BooksAgree
<1>1. IInv => BooksAgree
  BY DEF IInv
<1>2. QED BY <1>1, DriverInvariant, PTL

\* settle never sends the outcome of a call the child does not wait for any
\* more, so no call is answered twice.
THEOREM DriverSettlesOnce == Spec => []SettledOnce
<1>1. IInv => SettledOnce
  BY DEF IInv
<1>2. QED BY <1>1, DriverInvariant, PTL

\* The outcome of a call the driver deferred is never lost: while the child
\* waits for it, it is either kept or still to be reported.
THEOREM DriverKeepsOutcomes == Spec => []OutcomeKept
<1>1. IInv => OutcomeKept
  BY DEF IInv
<1>2. QED BY <1>1, DriverInvariant, PTL
====
