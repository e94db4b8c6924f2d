--------------------------- MODULE SessionProofs ---------------------------
(***************************************************************************)
(* Safety of a session, for any limits, any number of suspensions and any  *)
(* bound of the clock.  Everything rests on what a turn may bring (Turn):  *)
(* the host reads as a suspension exactly what the child is paused at.     *)
(***************************************************************************)
EXTENDS Session, SequenceTheorems, TLAPS

\* How a child can look.
Shape(c) ==
  /\ c \in ChildState
  /\ c.st = "none" => c = NoSession
  /\ c.st # "none" => c.max > 0
  /\ c.st = "paused" <=> c.kind \in Kinds
  /\ c.bad => c.st = "paused"

\* A worker as the session keeps it.
Sound(v) ==
  /\ v \in WorkerState
  /\ Shape(v.child)
  /\ v.torn => v.child.bad

\* The child is where a Suspension stands.
PausedAt(c) == c.st = "paused" /\ ~c.bad

\* What a turn that starts with worker v brings.
Turn(v, o) ==
  /\ Sound(o.w)
  /\ o.err \in {"none", "died", "closed", "unsendable"}
  /\ o.err \in {"died", "closed"} => o.w.dead
  /\ o.err = "unsendable" => o.w = v
  /\ o.err = "none" => o.w.child.max = v.child.max
  /\ o.err = "none" => (Suspends(o) <=> ~o.w.dead /\ PausedAt(o.w.child))

\* A reply of a child c that was asked what it can serve.
IsReply(r, c) ==
  /\ Shape(r.child)
  /\ r.child.max = c.max
  /\ r.k \in Kinds <=> r.child.st = "paused"

(***************************************************************************)
(* Turns                                                                   *)
(***************************************************************************)

LEMMA LostSound == ASSUME NEW v, Sound(v) PROVE Sound(Lost(v)) /\ Lost(v).dead
BY DEF Sound, Lost, WorkerState

\* A turn whose request the child can serve, or is torn already.
LEMMA SendTurn ==
  ASSUME NEW v, Sound(v), NEW payload \in BOOLEAN, NEW allowed \in BOOLEAN, NEW replies,
         ~v.dead /\ ~allowed => v.child.bad \/ v.child.st = "none",
         ~v.dead /\ allowed => ~v.torn /\ \A r \in replies : IsReply(r, v.child),
         NEW o \in send(v, payload, allowed, replies)
  PROVE  /\ Turn(v, o)
         /\ o.err = "unsendable" => payload
<1> USE DEF Outcome, Suspends, PausedAt, Turn
<1>1. CASE o = Outcome("closed", "-", v) /\ v.dead
  BY <1>1
<1>2. CASE o = Outcome("unsendable", "-", v) /\ payload
  BY <1>2
<1>3. CASE o = Outcome("died", "-", Lost(v))
  BY <1>3, LostSound
<1>4. CASE o = Outcome("none", "FatalError", Lost(v))
  <2>1. Lost(v).child = v.child
    BY DEF Lost
  <2> QED BY <1>4, <2>1, LostSound DEF Kinds
<1>5. ASSUME ~v.dead, allowed, NEW r \in replies,
             o = Outcome("none", r.k, [ dead |-> FALSE, child |-> r.child, torn |-> v.torn ])
      PROVE  Turn(v, o) /\ (o.err = "unsendable" => payload)
  <2>1. IsReply(r, v.child) /\ ~v.torn
    BY <1>5
  <2>2. Sound(o.w)
    BY <1>5, <2>1 DEF Sound, IsReply, Shape, WorkerState
  <2> QED BY <1>5, <2>1, <2>2 DEF IsReply
<1>6. CASE /\ ~v.dead /\ ~allowed
           /\ o = Outcome("none", "Error", [ dead |-> FALSE, child |-> v.child,
                                            torn |-> v.torn \/ v.child.st # "none" ])
  <2>1. v.child.bad \/ v.child.st = "none"
    BY <1>6
  <2>2. Sound(o.w)
    BY <1>6, <2>1 DEF Sound, Shape, WorkerState
  <2> QED BY <1>6, <2>1, <2>2 DEF Kinds
<1> QED BY <1>1, <1>2, <1>3, <1>4, <1>5, <1>6
     DEF send, Unsendable, Died, Unread, Fatal, Replied, Refused

\* A turn of worker v whose request the child can serve.
Served(v, payload, replies, o) ==
  \/ v.dead /\ o.w = v /\ o.err = "closed" /\ o.k = "-"
  \/ payload /\ o.w = v /\ o.err = "unsendable" /\ o.k = "-"
  \/ o.w = Lost(v) /\ o.k \in {"-", "FatalError"}
  \/ \E r \in replies :
       /\ o.err = "none" /\ o.k = r.k
       /\ o.w = [ dead |-> FALSE, child |-> r.child, torn |-> v.torn ]

LEMMA ServedCases ==
  ASSUME NEW v, NEW payload, NEW allowed, allowed, NEW replies,
         NEW o \in send(v, payload, allowed, replies)
  PROVE  Served(v, payload, replies, o)
<1> USE DEF Served
<1>1. CASE o = Outcome("closed", "-", v) /\ v.dead
  BY <1>1 DEF Outcome
<1>2. CASE o = Outcome("unsendable", "-", v) /\ payload
  BY <1>2 DEF Outcome
<1>3. CASE o = Outcome("died", "-", Lost(v)) \/ o = Outcome("none", "FatalError", Lost(v))
  BY <1>3 DEF Outcome
<1>4. ASSUME NEW r \in replies,
             o = Outcome("none", r.k, [ dead |-> FALSE, child |-> r.child, torn |-> v.torn ])
      PROVE  /\ o.err = "none" /\ o.k = r.k
             /\ o.w = [ dead |-> FALSE, child |-> r.child, torn |-> v.torn ]
  BY <1>4 DEF Outcome
<1> QED BY <1>1, <1>2, <1>3, <1>4 DEF send, Unsendable, Died, Unread, Fatal, Replied

LEMMA RunsReply ==
  ASSUME NEW c, Shape(c), c.st # "none", NEW d \in SUBSET Nat, NEW room,
         NEW r \in Runs(c, d, room)
  PROVE  IsReply(r, c)
<1> USE DEF Shape, ChildState, IsReply, Reply, Later, Kinds, Counted
<1>0. Later(c) \in 0..MaxExec
  BY WorkerAssumption
<1> HIDE DEF Later
<1>1. CASE r \in Ends(c, {"Complete", "Error"})
  <2>1. PICK k \in {"Complete", "Error"} : r = Reply(k, Between(c, Later(c)))
    BY <1>1 DEF Ends
  <2> QED BY <1>0, <2>1 DEF Between
<1>2. CASE r \in Pauses(c, d)
  <2>1. PICK k \in Kinds, b \in BOOLEAN : r = Reply(k, At(c, k, b, d, Later(c)))
    BY <1>2 DEF Pauses, Stops
  <2> QED BY <1>0, <2>1 DEF At
<1> QED BY <1>1, <1>2 DEF Runs

\* The requests of a session.  Each is one the child can serve, or the child is
\* torn already.

LEMMA FeedTurn ==
  ASSUME NEW v, Sound(v), ~v.dead => ~PausedAt(v.child), NEW room,
         NEW o \in SendFeed(v, room)
  PROVE  Turn(v, o)
<1>1. v.child.deferred \in SUBSET Nat /\ Shape(v.child)
  BY DEF Sound, WorkerState, ChildState
<1>2. ASSUME v.child.st = "idle",
             NEW r \in Runs(v.child, v.child.deferred, room) \cup { Reply("TypingError", v.child) }
      PROVE  IsReply(r, v.child) /\ ~v.torn
  <2>1. ~v.torn
    BY <1>2 DEF Sound, Shape
  <2>2. CASE r = Reply("TypingError", v.child)
    BY <1>1, <1>2, <2>1, <2>2 DEF IsReply, Reply, Kinds
  <2> QED BY <1>1, <1>2, <2>1, <2>2, RunsReply
<1>3. v.child.st # "idle" /\ ~v.dead => v.child.bad \/ v.child.st = "none"
  BY <1>1 DEF PausedAt, Shape, ChildState
<1> HIDE DEF Turn
<1> QED BY <1>2, <1>3, SendTurn DEF SendFeed, Sound

LEMMA ResumeTurn ==
  ASSUME NEW v, Sound(v), ~v.dead => PausedAt(v.child),
         NEW allowed \in BOOLEAN, ~v.dead => allowed, NEW d \in SUBSET Nat, NEW room,
         NEW o \in send(v, TRUE, allowed, Runs(v.child, d, room))
  PROVE  Turn(v, o)
<1>1. ASSUME ~v.dead, NEW r \in Runs(v.child, d, room)
      PROVE  IsReply(r, v.child)
  BY <1>1, RunsReply DEF Sound, PausedAt
<1>2. ~v.dead => ~v.torn
  BY DEF Sound, PausedAt
<1> QED BY <1>1, <1>2, SendTurn

\* An abort leaves nothing paused.
LEMMA AbortTurn ==
  ASSUME NEW v, Sound(v), ~v.dead => PausedAt(v.child), NEW payload \in BOOLEAN,
         NEW o \in SendAbortFeed(v, payload)
  PROVE  /\ Turn(v, o)
         /\ o.err = "unsendable" => payload
         /\ ~Suspends(o)
<1>1. ASSUME ~v.dead, NEW r \in Ends(v.child, {"Error"})
      PROVE  IsReply(r, v.child)
  <2>1. r \in Runs(v.child, {}, FALSE)
    BY DEF Runs, Ends
  <2> QED BY <1>1, <2>1, RunsReply DEF Sound, PausedAt
<1>2. ~v.dead => ~v.torn /\ v.child.st = "paused"
  BY DEF Sound, PausedAt
<1>3. Turn(v, o) /\ (o.err = "unsendable" => payload)
  BY <1>1, <1>2, SendTurn DEF SendAbortFeed
<1>4. o.k \notin Kinds
  BY <1>2 DEF SendAbortFeed, send, Unsendable, Died, Unread, Fatal, Replied, Refused,
              Ends, Reply, Outcome, Kinds
<1> QED BY <1>3, <1>4 DEF Suspends

(***************************************************************************)
(* The invariant                                                           *)
(***************************************************************************)

Typed ==
  /\ sus \in Seq(Suspension)
  /\ pending \in 0..Len(sus)
  /\ suspensions \in Nat
  /\ maxSuspensions \in Nat \ {0}
  /\ executionTime \in 0..MaxExec
  /\ closed \in BOOLEAN

\* Host and child.
Core ==
  /\ Typed
  /\ Sound(w)
  /\ Shape(dump)
  /\ HostChildAgree
  /\ OnlyPendingOpen
  /\ LimitHeld
  /\ LimitAgrees
  /\ ClockAgrees

\* Run and Continue have something to answer.
Driven == running \in BOOLEAN /\ (running => ~closed /\ pending # None)

IInv == Core /\ Driven

AllSpent(q) == q \in Seq(Suspension) /\ \A i \in DOMAIN q : q[i].done

LEMMA NoSessionShape == Shape(NoSession) /\ Sound(Fresh)
BY WorkerAssumption DEF Shape, NoSession, ChildState, Kinds, Sound, Fresh, WorkerState

LEMMA NewIsSuspension ==
  ASSUME NEW c, Shape(c), c.st = "paused", NEW b \in BOOLEAN
  PROVE  /\ NewSuspension(c, b) \in Suspension
         /\ NewSuspension(c, b).done = b
         /\ NewSuspension(c, b).kind = c.kind
BY DEF Shape, ChildState, NewSuspension, Suspension, Kinds

LEMMA SpentIsSuspension ==
  ASSUME NEW su \in Suspension
  PROVE  Spent(su) \in Suspension /\ Spent(su).done
BY DEF Spent, Suspension

\* One more, at the end.
LEMMA Appended ==
  ASSUME NEW q, AllSpent(q), NEW su \in Suspension
  PROVE  /\ Append(q, su) \in Seq(Suspension)
         /\ Len(q) \in Nat
         /\ Len(Append(q, su)) = Len(q) + 1
         /\ Append(q, su)[Len(q) + 1] = su
         /\ \A i \in DOMAIN Append(q, su) : Append(q, su)[i].done \/ i = Len(q) + 1
<1>1. q \in Seq(Suspension) /\ Len(q) \in Nat /\ DOMAIN q = 1..Len(q)
  BY LenProperties DEF AllSpent
<1>2. /\ Append(q, su) \in Seq(Suspension)
      /\ Len(Append(q, su)) = Len(q) + 1
      /\ \A i \in 1..Len(q) : Append(q, su)[i] = q[i]
      /\ Append(q, su)[Len(q) + 1] = su
  BY <1>1, AppendProperties
<1>3. DOMAIN Append(q, su) = 1..(Len(q) + 1)
  BY <1>2, LenProperties
<1>4. ASSUME NEW i \in 1..(Len(q) + 1), i # Len(q) + 1 PROVE Append(q, su)[i].done
  <2>1. i \in 1..Len(q)
    BY <1>1, <1>4
  <2> QED BY <1>1, <1>2, <2>1 DEF AllSpent
<1> QED BY <1>1, <1>2, <1>3, <1>4

(***************************************************************************)
(* The event that ended a turn                                             *)
(***************************************************************************)

LEMMA BudgetClock ==
  ASSUME Typed, NEW o, Sound(o.w)
  PROVE  /\ Budget(o) \in Nat \ {0}
         /\ Clock(o) \in 0..MaxExec
         /\ CountWith(o) \in Nat
         /\ o.w.child.st # "none" => Budget(o) = o.w.child.max
         /\ o.w.child.exec > 0 => Clock(o) = o.w.child.exec
BY DEF Typed, Sound, WorkerState, Shape, ChildState, Budget, Clock, CountWith

\* The worker is lost, or nothing is paused: nobody waits.
LEMMA Nobody ==
  ASSUME Core, NEW q, AllSpent(q), sus' = q, pending' = None, Sound(w'),
         w'.dead \/ ~PausedAt(w'.child),
         suspensions' \in Nat, maxSuspensions' \in Nat \ {0}, executionTime' \in 0..MaxExec,
         closed' \in BOOLEAN, dump' = dump,
         ~w'.dead /\ w'.child.st # "none" => maxSuspensions' = w'.child.max,
         ~w'.dead /\ w'.child.exec > 0 => executionTime' = w'.child.exec
  PROVE  Core'
<1>1. Typed'
  BY LenProperties DEF Typed, AllSpent, None
<1>2. OnlyPendingOpen'
  BY LenProperties DEF OnlyPendingOpen, AllSpent, None
<1>3. HostChildAgree' /\ LimitHeld' /\ LimitAgrees' /\ ClockAgrees'
  BY DEF HostChildAgree, LimitHeld, LimitAgrees, ClockAgrees, Alive, PausedAt
<1>4. Shape(dump)'
  BY DEF Core, Shape
<1>5. Sound(w)'
  OBVIOUS
<1> QED BY <1>1, <1>2, <1>3, <1>4, <1>5 DEF Core

\* A turn of worker w, read by the session: the suspensions so far are spent.
LEMMA Classified ==
  ASSUME Core, NEW q, AllSpent(q), NEW o, Turn(w, o), o.err # "unsendable",
         classify(q, o), UNCHANGED << closed, dump >>
  PROVE  Core' /\ (~Suspends(o) => pending' = None)
<1>1. /\ Budget(o) \in Nat \ {0}
      /\ Clock(o) \in 0..MaxExec
      /\ CountWith(o) \in Nat
      /\ o.w.child.st # "none" => Budget(o) = o.w.child.max
      /\ o.w.child.exec > 0 => Clock(o) = o.w.child.exec
  BY BudgetClock DEF Core, Turn
<1>2. CASE o.err # "none"
  <2>1. o.w.dead /\ Sound(o.w)
    BY <1>2 DEF Turn
  <2>2. /\ sus' = q /\ pending' = None /\ w' = o.w
        /\ UNCHANGED << suspensions, maxSuspensions, executionTime >>
    BY <1>2 DEF classify, lost
  <2> QED BY <2>1, <2>2, Nobody DEF Core, Typed
<1>3. CASE o.err = "none" /\ ~Suspends(o)
  <2>1. /\ sus' = q /\ pending' = None /\ w' = o.w
        /\ maxSuspensions' = Budget(o) /\ executionTime' = Clock(o)
        /\ suspensions' = suspensions
    BY <1>3 DEF classify, progress
  <2>2. Sound(o.w) /\ (o.w.dead \/ ~PausedAt(o.w.child))
    BY <1>3 DEF Turn
  <2> QED BY <1>1, <2>1, <2>2, Nobody DEF Core, Typed
<1>4. CASE o.err = "none" /\ Suspends(o)
  <2>1. /\ Sound(o.w) /\ ~o.w.dead /\ PausedAt(o.w.child)
        /\ o.w.child.st = "paused" /\ Shape(o.w.child)
    BY <1>4 DEF Turn, PausedAt, Sound
  <2>2. CASE ~OverLimit(o)
    <3> DEFINE su == NewSuspension(o.w.child, FALSE)
    <3>1. /\ sus' = Append(q, su) /\ pending' = Len(q) + 1 /\ w' = o.w
          /\ maxSuspensions' = Budget(o) /\ executionTime' = Clock(o)
          /\ suspensions' = CountWith(o)
      BY <1>4, <2>2 DEF classify, progress
    <3>2. su \in Suspension /\ ~su.done /\ su.kind = o.w.child.kind
      BY <2>1, NewIsSuspension
    <3> HIDE DEF su
    <3>3. /\ sus' \in Seq(Suspension)
          /\ Len(q) \in Nat /\ Len(sus') = Len(q) + 1
          /\ sus'[pending'] = su
          /\ \A i \in DOMAIN sus' : sus'[i].done \/ i = pending'
      BY <3>1, <3>2, Appended
    <3>4. Typed'
      BY <1>1, <3>1, <3>3 DEF Core, Typed
    <3>5. OnlyPendingOpen'
      BY <3>2, <3>3 DEF OnlyPendingOpen
    <3>6. HostChildAgree'
      <4>1. pending' # None
        BY <3>1, <3>3 DEF None
      <4>2. w'.child.st = "paused" /\ ~w'.child.bad
        BY <2>1, <3>1 DEF PausedAt
      <4>3. sus'[pending'] = NewSuspension(w'.child, FALSE)
        BY <3>1, <3>3 DEF su
      <4> QED BY <4>1, <4>2, <4>3 DEF HostChildAgree
    <3>7. LimitHeld'
      BY <1>1, <2>2, <3>1, <3>2, <3>3 DEF LimitHeld, OverLimit
    <3>8. LimitAgrees' /\ ClockAgrees'
      BY <1>1, <3>1 DEF LimitAgrees, ClockAgrees
    <3>9. Sound(w') /\ Shape(dump')
      BY <2>1, <3>1 DEF Core
    <3> QED BY <1>4, <3>4, <3>5, <3>6, <3>7, <3>8, <3>9 DEF Core
  <2>3. CASE OverLimit(o)
    <3> DEFINE su == NewSuspension(o.w.child, TRUE)
    <3>1. PICK a \in SendAbortFeed(o.w, FALSE) :
            /\ sus' = Append(q, su) /\ pending' = None
            /\ maxSuspensions' = Budget(o) /\ suspensions' = CountWith(o)
            /\ w' = a.w /\ executionTime' = Clock(a)
      BY <1>4, <2>3 DEF classify, progress
    <3>2. su \in Suspension /\ su.done
      BY <2>1, NewIsSuspension
    <3> HIDE DEF su
    <3>3. AllSpent(sus')
      BY <3>1, <3>2, Appended DEF AllSpent
    <3>4. Turn(o.w, a) /\ a.err # "unsendable" /\ ~Suspends(a)
      BY <2>1, AbortTurn
    <3>5. /\ Clock(a) \in 0..MaxExec
          /\ a.w.child.exec > 0 => Clock(a) = a.w.child.exec
      BY <3>4, BudgetClock DEF Core, Turn
    <3>6. ~a.w.dead => a.w.child.max = o.w.child.max /\ ~PausedAt(a.w.child)
      BY <3>4 DEF Turn
    <3>7. Sound(a.w) /\ closed' \in BOOLEAN
      BY <3>4 DEF Turn, Core, Typed
    <3> QED BY <1>1, <1>4, <2>1, <3>1, <3>3, <3>5, <3>6, <3>7, Nobody
  <2> QED BY <2>2, <2>3
<1> QED BY <1>2, <1>3, <1>4

(***************************************************************************)
(* Methods that run code                                                   *)
(***************************************************************************)

LEMMA CoreSame ==
  ASSUME Core, UNCHANGED << w, sus, pending, suspensions, maxSuspensions, executionTime,
                            closed, dump >>
  PROVE  Core'
BY DEF Core, Typed, Sound, Shape, HostChildAgree, OnlyPendingOpen, LimitHeld, LimitAgrees,
       ClockAgrees, Alive

\* Nothing is open but what is pending.
LEMMA PendingIn ==
  ASSUME Core, pending # None
  PROVE  /\ pending \in DOMAIN sus /\ sus[pending] \in Suspension /\ ~sus[pending].done
         /\ Alive => PausedAt(w.child) /\ sus[pending] = NewSuspension(w.child, FALSE)
<1>1. pending \in 1..Len(sus) /\ sus \in Seq(Suspension)
  BY LenProperties DEF Core, Typed, None
<1>2. pending \in DOMAIN sus /\ sus[pending] \in Suspension
  BY <1>1, LenProperties
<1> QED BY <1>2 DEF Core, OnlyPendingOpen, HostChildAgree, PausedAt

LEMMA NonePending ==
  ASSUME Core, pending = None
  PROVE  AllSpent(sus) /\ (Alive => ~PausedAt(w.child))
<1>1. \A i \in DOMAIN sus : i # None
  BY LenProperties DEF Core, Typed, None
<1> QED BY <1>1 DEF Core, Typed, OnlyPendingOpen, AllSpent, HostChildAgree, PausedAt

\* What an answer makes of the suspensions.
LEMMA AnsweredSpent ==
  ASSUME Core, pending # None
  PROVE  /\ AllSpent([sus EXCEPT ![pending] = Spent(sus[pending])])
         /\ DOMAIN [sus EXCEPT ![pending] = Spent(sus[pending])] = DOMAIN sus
<1> DEFINE q == [sus EXCEPT ![pending] = Spent(sus[pending])]
<1>1. /\ pending \in DOMAIN sus /\ sus \in Seq(Suspension)
      /\ Spent(sus[pending]) \in Suspension /\ Spent(sus[pending]).done
  BY PendingIn, SpentIsSuspension DEF Core, Typed
<1>2. q \in Seq(Suspension) /\ DOMAIN q = DOMAIN sus
  <2>1. pending \in 1..Len(sus)
    BY <1>1, LenProperties
  <2>2. q \in Seq(Suspension)
    BY <1>1, <2>1, ExceptSeq
  <2>3. DOMAIN q = DOMAIN sus
    OBVIOUS
  <2> QED BY <2>2, <2>3
<1>3. ASSUME NEW i \in DOMAIN sus PROVE q[i].done
  BY <1>1, <1>3 DEF Core, OnlyPendingOpen
<1> QED BY <1>2, <1>3 DEF AllSpent

LEMMA StartKeeps ==
  ASSUME IInv, NEW run \in BOOLEAN, start(run) PROVE IInv'
<1>1. ~closed /\ pending = None /\ UNCHANGED << closed, dump >>
  BY DEF start
<1>2. AllSpent(sus) /\ (~w.dead => ~PausedAt(w.child)) /\ Core
  BY <1>1, NonePending DEF IInv, Alive
<1>3. PICK o \in SendFeed(w, Room) :
        IF o.err = "unsendable" THEN UNCHANGED << w, sus, pending, suspensions,
                                                 maxSuspensions, executionTime >>
                                ELSE classify(sus, o)
  BY DEF start
<1>4. Turn(w, o)
  BY <1>2, FeedTurn DEF Core
<1>5. Core'
  BY <1>1, <1>2, <1>3, <1>4, Classified, CoreSame
<1>6. Driven'
  <2>1. running' = (run /\ pending' # None)
    BY DEF start
  <2>2. running' \in BOOLEAN /\ (running' => pending' # None)
    BY <2>1, Zenon
  <2> QED BY <1>1, <2>2 DEF Driven
<1> QED BY <1>5, <1>6 DEF IInv

\* The turns of an answer to the pending suspension.
AnswerTurns(turns) ==
  \A o \in turns : Turn(w, o)

LEMMA AnswerKeeps ==
  ASSUME Core, pending # None, ~closed, NEW turns, AnswerTurns(turns),
         answer(pending, turns), UNCHANGED << closed, dump >>
  PROVE  Core' /\ ((\A o \in turns : ~Suspends(o)) => pending' = None)
<1> DEFINE q == [sus EXCEPT ![pending] = Spent(sus[pending])]
<1>1. AllSpent(q)
  BY AnsweredSpent
<1>2. Sound(w) /\ (~w.dead => PausedAt(w.child))
  BY PendingIn DEF Core, Alive
<1>3. PICK o \in turns :
        IF o.err = "unsendable" THEN \E a \in SendAbortFeed(w, FALSE) : classify(q, a)
                                ELSE classify(q, o)
  BY DEF answer
<1>4. CASE o.err = "unsendable"
  <2>1. PICK a \in SendAbortFeed(w, FALSE) : classify(q, a)
    BY <1>3, <1>4
  <2>2. Turn(w, a) /\ a.err # "unsendable" /\ ~Suspends(a)
    BY <1>2, AbortTurn
  <2> QED BY <1>1, <2>1, <2>2, Classified
<1>5. CASE o.err # "unsendable"
  <2>1. Turn(w, o)
    BY DEF AnswerTurns
  <2> QED BY <1>1, <1>3, <1>5, <2>1, Classified
<1> QED BY <1>4, <1>5

\* Whatever the caller answers, the child can serve it.
LEMMA RespondTurns ==
  ASSUME Core, pending # None, ~closed, Respond(pending)
  PROVE  \E turns : AnswerTurns(turns) /\ answer(pending, turns)
<1> DEFINE su == sus[pending]
           c == w.child
<1>1. /\ Sound(w) /\ (~w.dead => PausedAt(c) /\ su = NewSuspension(c, FALSE))
      /\ su \in Suspension
  BY PendingIn DEF Core, Alive
<1>2. /\ Shape(c) /\ c.deferred \in SUBSET Nat
      /\ su.kind \in Kinds /\ su.callID \in Nat /\ su.ids \in SUBSET Nat
  BY <1>1 DEF Sound, Shape, ChildState, Suspension
<1>3. ~w.dead => /\ c.st = "paused" /\ c.kind = su.kind
                 /\ su.kind \in {"Call", "OS"} => su.callID = c.calls
                 /\ su.kind = "Futures" => su.ids = c.deferred
  BY <1>1 DEF PausedAt, NewSuspension
<1>4. ASSUME su.kind \in {"Call", "OS"}, NEW future \in BOOLEAN
      PROVE  AnswerTurns(SendResumeCall(w, su.callID, future, Room))
  <2> DEFINE d == c.deferred \cup (IF future THEN {su.callID} ELSE {})
             allowed == Waits(w, {"Call", "OS"}) /\ w.child.calls = su.callID
  <2>1. d \in SUBSET Nat /\ allowed \in BOOLEAN
    BY <1>2 DEF Waits
  <2>2. ~w.dead => allowed
    BY <1>3, <1>4 DEF Waits
  <2> HIDE DEF d, allowed
  <2>3. ASSUME NEW o \in send(w, TRUE, allowed, Runs(w.child, d, Room)) PROVE Turn(w, o)
    BY <1>1, <2>1, <2>2, ResumeTurn
  <2> QED BY <2>3 DEF AnswerTurns, SendResumeCall, d, allowed
<1>5. ASSUME su.kind = "Lookup"
      PROVE  AnswerTurns(SendResumeNameLookup(w, Room))
  <2>1. Waits(w, {"Lookup"}) \in BOOLEAN /\ (~w.dead => Waits(w, {"Lookup"}))
    BY <1>3, <1>5 DEF Waits
  <2> QED BY <1>1, <1>2, <2>1, ResumeTurn DEF AnswerTurns, SendResumeNameLookup
<1>6. ASSUME su.kind # "Futures" PROVE AnswerTurns(Resume(pending))
  BY <1>2, <1>4, <1>5, <1>6 DEF Resume, Kinds
<1>7. CASE Return(pending) \/ Decline(pending)
  BY <1>6, <1>7 DEF Return, Decline
<1>8. CASE Raise(pending)
  <2>1. AnswerTurns(SendAbortFeed(w, TRUE))
    BY <1>1, AbortTurn DEF AnswerTurns
  <2> QED BY <1>6, <1>8, <2>1 DEF Raise
<1>9. CASE Defer(pending)
  BY <1>4, <1>9 DEF Defer
<1>10. CASE Settle(pending)
  <2>1. su.kind = "Futures"
    BY <1>10 DEF Settle
  <2>2. PICK ids \in (SUBSET su.ids) \ {{}} :
          answer(pending, SendResumeFutures(w, ids, Room))
    BY <1>10 DEF Settle
  <2> DEFINE allowed == Waits(w, {"Futures"}) /\ ids \subseteq w.child.deferred
             d == c.deferred \ ids
  <2>3. allowed \in BOOLEAN /\ d \in SUBSET Nat /\ (~w.dead => allowed)
    BY <1>2, <1>3, <2>1 DEF Waits
  <2> HIDE DEF d, allowed
  <2>4. ASSUME NEW o \in send(w, TRUE, allowed, Runs(w.child, d, Room)) PROVE Turn(w, o)
    BY <1>1, <2>3, ResumeTurn
  <2>5. AnswerTurns(SendResumeFutures(w, ids, Room))
    BY <2>4 DEF AnswerTurns, SendResumeFutures, d, allowed
  <2> QED BY <2>2, <2>5
<1> QED BY <1>7, <1>8, <1>9, <1>10 DEF Respond

LEMMA AnswerInv ==
  ASSUME IInv, NEW i \in DOMAIN sus, Answer(i) PROVE IInv'
<1>1. /\ i = pending /\ ~closed /\ Respond(pending) /\ UNCHANGED << closed, dump, running >>
      /\ ~running
  BY DEF Answer, check
<1>2. pending # None
  BY <1>1, LenProperties DEF IInv, Core, Typed, None
<1>3. Core'
  BY <1>1, <1>2, RespondTurns, AnswerKeeps DEF IInv
<1> QED BY <1>1, <1>3 DEF IInv, Driven

LEMMA DriveInv ==
  ASSUME IInv, Drive PROVE IInv'
<1>1. ~closed /\ pending # None /\ Respond(pending) /\ UNCHANGED << closed, dump >>
  BY DEF IInv, Driven, Drive
<1>2. Core'
  BY <1>1, RespondTurns, AnswerKeeps DEF IInv
<1>3. running' = (pending' # None)
  BY DEF Drive
<1>4. running' \in BOOLEAN /\ (running' => pending' # None)
  BY <1>3, Zenon
<1> QED BY <1>1, <1>2, <1>4 DEF IInv, Driven

\* A panic leaves nothing pending in a worker that lives.
LEMMA PanicInv ==
  ASSUME IInv, CallbackPanics
  PROVE  IInv' /\ (w'.dead \/ pending' = None)
<1>1. ~closed /\ pending # None /\ UNCHANGED << closed, dump >> /\ running' = FALSE
  BY DEF IInv, Driven, CallbackPanics
<1>2. CASE w.dead
  BY <1>1, <1>2, CoreSame DEF IInv, Driven, CallbackPanics
<1>3. CASE ~w.dead
  <2>1. answer(pending, SendAbortFeed(w, TRUE))
    BY <1>3 DEF CallbackPanics
  <2>2. Sound(w) /\ (~w.dead => PausedAt(w.child))
    BY <1>1, PendingIn DEF IInv, Core, Alive
  <2>3. /\ AnswerTurns(SendAbortFeed(w, TRUE))
        /\ \A o \in SendAbortFeed(w, TRUE) : ~Suspends(o)
    BY <2>2, AbortTurn DEF AnswerTurns
  <2>4. Core' /\ pending' = None
    BY <1>1, <2>1, <2>3, AnswerKeeps DEF IInv
  <2> QED BY <1>1, <2>4 DEF IInv, Driven
<1> QED BY <1>2, <1>3

(***************************************************************************)
(* Methods that open, keep and end a session                               *)
(***************************************************************************)

\* A turn with which a session begins.
LEMMA ConfigureTurn ==
  ASSUME NEW v, Sound(v), ~v.dead, v.child = NoSession, ~v.torn, NEW max \in Nat \ {0},
         NEW o \in SendConfigure(v, max)
  PROVE  /\ Sound(o.w)
         /\ ~o.w.dead => /\ ~PausedAt(o.w.child)
                         /\ o.w.child.st # "none" => o.err = "none" /\ o.w.child.max = max
                         /\ o.w.child.exec = 0
<1>2. Shape(Configured(max))
  BY WorkerAssumption DEF Configured, Shape, ChildState, Kinds
<1>3. CASE o.w = v \/ o.w = Lost(v)
  BY <1>3, LostSound DEF PausedAt, NoSession
<1>4. CASE /\ o.err = "none"
           /\ o.w = [ dead |-> FALSE, child |-> Configured(max), torn |-> v.torn ]
  BY <1>2, <1>4 DEF Sound, WorkerState, PausedAt, Configured, Shape
<1>5. CASE /\ o.err = "none"
           /\ o.w = [ dead |-> FALSE, child |-> v.child, torn |-> v.torn ]
  BY <1>5, NoSessionShape DEF Sound, WorkerState, PausedAt, NoSession, Shape
<1>6. v.child.st = "none"
  BY DEF NoSession
<1>7. o \in send(v, TRUE, v.child.st = "none",
              { Reply("Ok", Configured(max)), Reply("Error", v.child) })
  BY DEF SendConfigure
<1>8. Served(v, TRUE, { Reply("Ok", Configured(max)), Reply("Error", v.child) }, o)
  BY <1>6, <1>7, ServedCases, Zenon
<1>9. \/ o.w = v
      \/ o.w = Lost(v)
      \/ \E r \in { Reply("Ok", Configured(max)), Reply("Error", v.child) } :
           /\ o.err = "none" /\ o.k = r.k
           /\ o.w = [ dead |-> FALSE, child |-> r.child, torn |-> v.torn ]
  BY <1>8 DEF Served
<1>10. ASSUME NEW r \in { Reply("Ok", Configured(max)), Reply("Error", v.child) },
              o.err = "none", o.w = [ dead |-> FALSE, child |-> r.child, torn |-> v.torn ]
       PROVE  \/ o.w = [ dead |-> FALSE, child |-> Configured(max), torn |-> v.torn ]
              \/ o.w = [ dead |-> FALSE, child |-> v.child, torn |-> v.torn ]
  <2>1. r.child = Configured(max) \/ r.child = v.child
    BY <1>10 DEF Reply
  <2> QED BY <1>10, <2>1
<1> QED BY <1>3, <1>4, <1>5, <1>9, <1>10

\* A configured session, or what is left of one that could not be.
LEMMA ConfigureKeeps ==
  ASSUME Core, NEW v, Sound(v), ~v.dead, v.child = NoSession, ~v.torn,
         NEW limit \in Limits, NEW exec \in 0..MaxExec, configure(v, limit, exec),
         AllSpent(sus'), pending' = None, suspensions' = 0, dump' = dump
  PROVE  Core'
<1>1. Effective(limit) \in Nat \ {0}
  BY SessionAssumption DEF Effective
<1>2. PICK o \in SendConfigure(v, Effective(limit)) :
        /\ w' = o.w
        /\ maxSuspensions' = IF o.err = "none" /\ o.w.child.max > 0
                             THEN o.w.child.max ELSE Effective(limit)
        /\ executionTime' = IF o.err = "none" /\ o.w.child.exec > 0
                            THEN o.w.child.exec ELSE exec
        /\ closed' = (closed /\ o.k # "Ok")
  BY DEF configure
<1>3. /\ Sound(o.w)
      /\ ~o.w.dead => /\ ~PausedAt(o.w.child)
                      /\ o.w.child.st # "none" =>
                           o.err = "none" /\ o.w.child.max = Effective(limit)
                      /\ o.w.child.exec = 0
  BY <1>1, ConfigureTurn
<1>4. o.w.child.max \in Nat /\ o.w.child.exec \in 0..MaxExec
  BY <1>3 DEF Sound, Shape, ChildState
<1>5. maxSuspensions' \in Nat \ {0} /\ executionTime' \in 0..MaxExec
  BY <1>1, <1>2, <1>4
<1>6. closed' \in BOOLEAN
  BY <1>2, Zenon
<1>7. ~w'.dead /\ w'.child.st # "none" => maxSuspensions' = w'.child.max
  BY <1>1, <1>2, <1>3
<1>8. ~w'.dead => ~(w'.child.exec > 0)
  BY <1>2, <1>3
<1> QED BY <1>2, <1>3, <1>5, <1>6, <1>7, <1>8, Nobody

LEMMA NewSessionInv ==
  ASSUME IInv, NEW limit \in Limits, NewSession(limit) PROVE IInv'
<1>1. /\ Sound(Fresh) /\ ~Fresh.dead /\ Fresh.child = NoSession /\ ~Fresh.torn
      /\ 0 \in 0..MaxExec
  BY NoSessionShape, WorkerAssumption DEF Fresh
<1>2. AllSpent(sus')
  BY EmptySeq DEF NewSession, AllSpent
<1>3. Core'
  BY <1>1, <1>2, ConfigureKeeps DEF NewSession, IInv
<1>4. Driven'
  BY DEF NewSession, IInv, Driven
<1> QED BY <1>3, <1>4 DEF IInv

LEMMA ResetInv ==
  ASSUME IInv, NEW limit \in Limits, Reset(limit) PROVE IInv'
<1> DEFINE v == [w EXCEPT !.torn = FALSE]
<1>0. Core /\ Sound(w) /\ closed = FALSE /\ running = FALSE /\ executionTime \in 0..MaxExec
  BY DEF IInv, Core, Typed, Driven, Reset
<1>1. AllSpent(sus')
  <2>1. sus' = [i \in DOMAIN sus |-> IF i = pending THEN Spent(sus[i]) ELSE sus[i]]
    BY DEF Reset
  <2>2. sus \in Seq(Suspension)
    BY <1>0 DEF Core, Typed
  <2>3. \A i \in DOMAIN sus : sus'[i] \in Suspension /\ sus'[i].done
    BY <1>0, <2>1, <2>2, SpentIsSuspension, LenProperties DEF Core, OnlyPendingOpen
  <2>4. sus' \in [1..Len(sus) -> Suspension] /\ Len(sus) \in Nat /\ DOMAIN sus' = DOMAIN sus
    BY <2>1, <2>2, <2>3, LenProperties
  <2>5. sus' \in Seq(Suspension)
    BY <2>4, SeqDef
  <2> QED BY <2>3, <2>4, <2>5 DEF AllSpent
<1>2. Sound(v) /\ ~v.torn
  <2>1. w \in WorkerState
    BY <1>0 DEF Sound
  <2>2. v \in WorkerState /\ v.dead = w.dead /\ v.child = w.child /\ v.torn = FALSE
    BY <2>1 DEF WorkerState
  <2> HIDE DEF v
  <2>4. Sound(v)
    BY <1>0, <2>2 DEF Sound
  <2> QED BY <2>2, <2>4
<1>3. /\ pending' = None /\ suspensions' = 0 /\ dump' = dump /\ running' = FALSE
  BY <1>0 DEF Reset
<1>4. PICK r \in SendReset(w) :
       IF r.k # "Ok"
       THEN /\ w' = r.w
            /\ IF r.err = "none" THEN noteBudget(r)
                                 ELSE UNCHANGED << maxSuspensions, executionTime >>
            /\ UNCHANGED closed
       ELSE configure(r.w, limit, executionTime)
  BY DEF Reset
<1>5. \/ r.k # "Ok" /\ r.w = v /\ v.dead
      \/ r.k # "Ok" /\ r.w = Lost(v)
      \/ /\ r.k = "Ok"
         /\ r.w = [ dead |-> FALSE, child |-> NoSession, torn |-> v.torn ]
  <2>1. r \in send(v, FALSE, TRUE, { Reply("Ok", NoSession) })
    BY <1>4 DEF SendReset
  <2> HIDE DEF v
  <2>2. Served(v, FALSE, { Reply("Ok", NoSession) }, r)
    BY <2>1, ServedCases, Zenon
  <2>3. Reply("Ok", NoSession).k = "Ok" /\ Reply("Ok", NoSession).child = NoSession
    BY DEF Reply
  <2> QED BY <2>2, <2>3 DEF Served
<1>6. CASE r.k # "Ok"
  <2>1. Sound(r.w) /\ r.w.dead
    BY <1>2, <1>5, <1>6, LostSound
  <2>2. maxSuspensions' \in Nat \ {0} /\ executionTime' \in 0..MaxExec
    BY <1>0, <1>4, <1>6, <2>1, BudgetClock DEF Core, Typed, noteBudget
  <2>3. Core'
    BY <1>0, <1>1, <1>3, <1>4, <1>6, <2>1, <2>2, Nobody DEF Core, Typed
  <2> QED BY <1>3, <2>3 DEF IInv, Driven
<1>7. CASE r.k = "Ok"
  <2> HIDE DEF v
  <2>1. r.w = [ dead |-> FALSE, child |-> NoSession, torn |-> v.torn ]
    BY <1>5, <1>7
  <2>2. /\ r.w.dead = FALSE /\ r.w.child = NoSession /\ r.w.torn = v.torn
    BY <2>1
  <2>3. v.torn \in BOOLEAN /\ NoSession \in ChildState
    BY <1>2, NoSessionShape DEF Sound, WorkerState, Shape
  <2>4. r.w \in WorkerState
    BY <2>1, <2>3 DEF WorkerState
  <2>5. Sound(r.w)
    BY <1>2, <2>2, <2>4, NoSessionShape DEF Sound
  <2>6. configure(r.w, limit, executionTime)
    BY <1>4, <1>7
  <2>7. Core'
    BY <1>0, <1>1, <1>2, <1>3, <2>2, <2>5, <2>6, ConfigureKeeps
  <2> QED BY <1>3, <2>7 DEF IInv, Driven
<1> QED BY <1>6, <1>7

LEMMA RestoreInv ==
  ASSUME IInv, Restore PROVE IInv'
<1> DEFINE R == { Reply(IF dump.st = "paused" THEN dump.kind ELSE "Ok", dump),
                  Reply("Error", Fresh.child) }
<1>1. Core /\ Shape(dump) /\ closed' = FALSE /\ closed = TRUE /\ dump.st # "none"
  BY DEF IInv, Core, Typed, Restore
<1>0. closed' \in BOOLEAN
  BY <1>1, Zenon
<1>2. PICK o \in SendLoad(Fresh, dump) :
        /\ o.k = "Ok" \/ Suspends(o)
        /\ w' = o.w
        /\ maxSuspensions' = o.w.child.max
        /\ executionTime' = o.w.child.exec
        /\ IF o.k = "Ok" THEN sus' = << >>
                         ELSE sus' = << NewSuspension(o.w.child, FALSE) >>
        /\ pending' = Len(sus')
        /\ suspensions' = IF o.k \in Counted THEN 1 ELSE 0
  BY DEF Restore
<1>3. dump' = dump /\ running' = running
  BY DEF Restore
<1>4. /\ o.k = IF dump.st = "paused" THEN dump.kind ELSE "Ok"
      /\ o.w = [ dead |-> FALSE, child |-> dump, torn |-> Fresh.torn ]
  <2>1. Fresh.child.st = "none"
    BY DEF Fresh, NoSession
  <2>2. o \in send(Fresh, TRUE, Fresh.child.st = "none", R)
    BY DEF SendLoad
  <2>3. Served(Fresh, TRUE, R, o)
    BY <2>1, <2>2, ServedCases, Zenon
  <2>4. o.k \notin {"-", "FatalError", "Error"}
    BY <1>2 DEF Suspends, Kinds
  <2>5. PICK r \in R :
          /\ o.k = r.k
          /\ o.w = [ dead |-> FALSE, child |-> r.child, torn |-> Fresh.torn ]
    BY <2>3, <2>4 DEF Served
  <2>6. r.k # "Error"
    BY <2>4, <2>5
  <2>7. r = Reply(IF dump.st = "paused" THEN dump.kind ELSE "Ok", dump)
    BY <2>6 DEF Reply
  <2>8. /\ r.child = dump
        /\ r.k = IF dump.st = "paused" THEN dump.kind ELSE "Ok"
    BY <2>7 DEF Reply
  <2> QED BY <2>5, <2>8
<1>5. /\ o.w.child = dump /\ ~o.w.dead /\ Sound(o.w)
      /\ dump.max \in Nat \ {0} /\ dump.exec \in 0..MaxExec
  BY <1>1, <1>4 DEF Sound, WorkerState, Shape, ChildState, Fresh
<1>6. CASE o.k = "Ok"
  <2>1. sus' = << >> /\ pending' = None /\ suspensions' = 0
    BY <1>2, <1>6 DEF Counted, Kinds, None
  <2>2. AllSpent(sus')
    BY <2>1, EmptySeq DEF AllSpent
  <2>3. ~PausedAt(w'.child)
    BY <1>1, <1>2, <1>4, <1>5, <1>6 DEF PausedAt, Shape, Kinds
  <2>4. Core'
    <3>1. /\ suspensions' \in Nat /\ maxSuspensions' \in Nat \ {0}
          /\ executionTime' \in 0..MaxExec
      BY <1>2, <1>5, <2>1
    <3>2. maxSuspensions' = w'.child.max /\ executionTime' = w'.child.exec /\ Sound(w')
      BY <1>2, <1>5
    <3> QED BY <1>0, <1>1, <1>3, <2>1, <2>2, <2>3, <3>1, <3>2, Nobody
  <2> QED BY <1>3, <1>1, <2>4 DEF IInv, Driven
<1>7. CASE o.k # "Ok"
  <2> DEFINE su == NewSuspension(dump, FALSE)
  <2>1. Suspends(o) /\ PausedAt(dump)
    BY <1>2, <1>4, <1>5, <1>7 DEF Suspends, PausedAt
  <2>2. /\ sus' = << su >> /\ pending' = 1 /\ w'.child = dump
        /\ suspensions' \in {0, 1} /\ maxSuspensions' = dump.max /\ executionTime' = dump.exec
    <3>1. sus' = << su >>
      BY <1>2, <1>5, <1>7
    <3>2. Len(sus') = 1
      BY <3>1
    <3>3. suspensions' \in {0, 1}
      BY <1>2
    <3> QED BY <1>2, <1>5, <3>1, <3>2, <3>3
  <2>3. su \in Suspension /\ su.done = FALSE
    BY <1>1, <2>1, NewIsSuspension DEF PausedAt
  <2>4. /\ sus' \in Seq(Suspension) /\ Len(sus') = 1 /\ DOMAIN sus' = {1}
        /\ sus'[pending'] = su
    <3> HIDE DEF su
    <3>1. /\ << su >> \in Seq(Suspension) /\ Len(<< su >>) = 1
          /\ << su >>[1] = su
      BY <2>3
    <3>2. DOMAIN << su >> = 1..1
      BY <3>1, LenProperties
    <3> QED BY <2>2, <3>1, <3>2
  <2> HIDE DEF su
  <2>5. Typed'
    <3>1. suspensions' \in Nat /\ pending' \in 0..Len(sus')
      BY <2>2, <2>4
    <3> QED BY <1>0, <1>5, <2>2, <2>4, <3>1 DEF Typed
  <2>6. OnlyPendingOpen'
    BY <2>2, <2>3, <2>4 DEF OnlyPendingOpen
  <2>7. HostChildAgree'
    BY <2>1, <2>2, <2>4 DEF HostChildAgree, PausedAt, None, su
  <2>8. LimitHeld' /\ LimitAgrees' /\ ClockAgrees'
    BY <1>5, <2>2 DEF LimitHeld, LimitAgrees, ClockAgrees
  <2>9. Sound(w)' /\ Shape(dump)'
    BY <1>1, <1>2, <1>3, <1>5
  <2>10. Core'
    BY <2>5, <2>6, <2>7, <2>8, <2>9 DEF Core
  <2> QED BY <1>1, <1>3, <2>10 DEF IInv, Driven
<1> QED BY <1>6, <1>7

LEMMA ContinueInv ==
  ASSUME IInv, Continue PROVE IInv'
<1>1. Core'
  BY CoreSame DEF Continue, IInv
<1> QED BY <1>1 DEF Continue, IInv, Driven

\* The child stays where it is, or is out of reach.
LEMMA Kept ==
  ASSUME Core, UNCHANGED << sus, pending, suspensions, maxSuspensions, executionTime >>,
         Sound(w'), w'.child = w.child, Shape(dump'), closed' \in BOOLEAN,
         Alive' => Alive
  PROVE  Core'
<1>1. Typed' /\ OnlyPendingOpen' /\ LimitHeld'
  BY DEF Core, Typed, OnlyPendingOpen, LimitHeld
<1>2. HostChildAgree' /\ LimitAgrees' /\ ClockAgrees'
  BY DEF Core, HostChildAgree, LimitAgrees, ClockAgrees
<1> QED BY <1>1, <1>2 DEF Core

LEMMA DumpInv ==
  ASSUME IInv, Dump PROVE IInv'
<1>1. Core /\ ~closed /\ UNCHANGED << sus, pending, suspensions, closed, running >> /\ Sound(w)
  BY DEF IInv, Core, Dump
<1>2. PICK o \in SendDump(w) :
        /\ w' = o.w
        /\ dump' = IF o.k = "DumpResult" THEN o.w.child ELSE dump
        /\ IF o.err = "none" /\ o.k # "DumpResult"
           THEN noteBudget(o) ELSE UNCHANGED << maxSuspensions, executionTime >>
  BY DEF Dump
<1>3. o \in send(w, FALSE, w.child.st # "none", { Reply("DumpResult", w.child) })
  BY DEF SendDump
<1>4. Sound(o.w) /\ o.w.child = w.child /\ (w.dead => o.w.dead /\ o.err # "none")
  <2>1. CASE o = Outcome("closed", "-", w) /\ w.dead
    BY <1>1, <2>1 DEF Outcome
  <2>2. CASE ~w.dead /\ (o = Outcome("died", "-", Lost(w)) \/ o = Outcome("none", "FatalError", Lost(w)))
    <3>1. Sound(Lost(w)) /\ Lost(w).child = w.child
      BY <1>1, LostSound DEF Lost
    <3> QED BY <2>2, <3>1 DEF Outcome
  <2>3. ASSUME ~w.dead, NEW r \in { Reply("DumpResult", w.child) },
               o = Outcome("none", r.k, [ dead |-> FALSE, child |-> r.child, torn |-> w.torn ])
        PROVE  Sound(o.w) /\ o.w.child = w.child
    <3>1. r.child = w.child
      BY DEF Reply
    <3> QED BY <1>1, <2>3, <3>1 DEF Outcome, Sound, WorkerState
  <2>4. CASE /\ ~w.dead /\ w.child.st = "none"
             /\ o = Outcome("none", "Error", [ dead |-> FALSE, child |-> w.child,
                                              torn |-> w.torn \/ w.child.st # "none" ])
    BY <1>1, <2>4 DEF Outcome, Sound, WorkerState
  <2> QED BY <1>3, <2>1, <2>2, <2>3, <2>4
       DEF send, Died, Unread, Fatal, Replied, Refused
<1>5. UNCHANGED << maxSuspensions, executionTime >>
  <2>1. CASE o.err = "none" /\ o.k # "DumpResult"
    <3>1. Alive /\ Shape(w.child)
      BY <1>1, <1>4, <2>1 DEF Alive, Sound
    <3>2. w.child.max > 0 => maxSuspensions = w.child.max
      BY <1>1, <3>1 DEF Core, LimitAgrees, Shape, NoSession
    <3>3. w.child.exec > 0 => executionTime = w.child.exec
      BY <1>1, <3>1 DEF Core, ClockAgrees
    <3>4. maxSuspensions' = Budget(o) /\ executionTime' = Clock(o)
      BY <1>2, <2>1 DEF noteBudget
    <3> QED BY <1>4, <3>2, <3>3, <3>4 DEF Budget, Clock
  <2> QED BY <1>2, <2>1
<1>6. Shape(dump')
  BY <1>1, <1>2, <1>4 DEF Sound, Core
<1>7. Alive' => Alive
  BY <1>1, <1>2, <1>4 DEF Alive
<1>8. Core'
  BY <1>1, <1>2, <1>4, <1>5, <1>6, <1>7, Kept DEF Core, Typed
<1> QED BY <1>1, <1>8 DEF IInv, Driven

LEMMA CloseInv ==
  ASSUME IInv, Close PROVE IInv'
<1>1. /\ Core /\ closed' = TRUE /\ ~running /\ w' = Lost(w)
      /\ UNCHANGED << sus, pending, suspensions, maxSuspensions, executionTime, running, dump >>
  BY DEF IInv, Close
<1>2. Sound(Lost(w)) /\ Lost(w).child = w.child
  BY <1>1, LostSound DEF Core, Lost
<1>3. Shape(dump') /\ ~Alive'
  BY <1>1 DEF Core, Alive
<1>4. Core'
  BY <1>1, <1>2, <1>3, Kept
<1>5. running' = running /\ ~running /\ running \in BOOLEAN
  BY <1>1 DEF IInv, Driven
<1> QED BY <1>4, <1>5 DEF IInv, Driven

LEMMA InitInv == Init => IInv
<1> SUFFICES ASSUME Init PROVE IInv
  OBVIOUS
<1>1. Sound(w) /\ Shape(dump) /\ w.dead
  BY NoSessionShape, LostSound DEF Init
<1>2. Typed
  BY EmptySeq, SessionAssumption, WorkerAssumption DEF Init, Typed, None
<1>3. OnlyPendingOpen /\ LimitHeld
  BY EmptySeq DEF Init, OnlyPendingOpen, LimitHeld
<1>4. HostChildAgree /\ LimitAgrees /\ ClockAgrees
  BY <1>1 DEF HostChildAgree, LimitAgrees, ClockAgrees, Alive
<1>5. Driven
  BY DEF Init, Driven
<1> QED BY <1>1, <1>2, <1>3, <1>4, <1>5 DEF IInv, Core

LEMMA NextInv == IInv /\ [Next]_vars => IInv'
<1> SUFFICES ASSUME IInv, [Next]_vars PROVE IInv'
  OBVIOUS
<1>1. ASSUME NEW limit \in Limits, NewSession(limit) PROVE IInv'
  BY <1>1, NewSessionInv
<1>2. ASSUME NEW limit \in Limits, Reset(limit) PROVE IInv'
  BY <1>2, ResetInv
<1>3. CASE Restore
  BY <1>3, RestoreInv
<1>4. CASE Start
  <2>1. start(FALSE) /\ FALSE \in BOOLEAN
    BY <1>4 DEF Start
  <2> QED BY <2>1, StartKeeps, Zenon
<1>5. CASE Run
  <2>1. start(TRUE) /\ TRUE \in BOOLEAN
    BY <1>5 DEF Run
  <2> QED BY <2>1, StartKeeps, Zenon
<1>6. CASE Continue
  BY <1>6, ContinueInv
<1>7. ASSUME NEW i \in DOMAIN sus, Answer(i) PROVE IInv'
  BY <1>7, AnswerInv
<1>8. CASE Drive
  BY <1>8, DriveInv
<1>9. CASE CallbackPanics
  BY <1>9, PanicInv
<1>10. CASE Dump
  BY <1>10, DumpInv
<1>11. CASE Close
  BY <1>11, CloseInv
<1>12. CASE UNCHANGED vars
  <2>1. Core'
    BY <1>12, CoreSame DEF vars, IInv
  <2> QED BY <1>12, <2>1 DEF vars, IInv, Driven
<1> QED BY <1>1, <1>2, <1>3, <1>4, <1>5, <1>6, <1>7, <1>8, <1>9, <1>10, <1>11, <1>12 DEF Next

(***************************************************************************)
(* The steps                                                               *)
(***************************************************************************)

\* A turn adds a suspension at the end, or none: the others stay as they are.
LEMMA Grown ==
  ASSUME NEW q, AllSpent(q), NEW o, Turn(w, o), classify(q, o)
  PROVE  \A i \in DOMAIN q : sus'[i] = q[i]
<1>1. CASE sus' = q
  BY <1>1
<1>2. ASSUME NEW b \in BOOLEAN, Suspends(o), o.err = "none",
             sus' = Append(q, NewSuspension(o.w.child, b))
      PROVE  \A i \in DOMAIN q : sus'[i] = q[i]
  <2>1. NewSuspension(o.w.child, b) \in Suspension
    BY <1>2, NewIsSuspension DEF Turn, PausedAt, Sound
  <2>2. q \in Seq(Suspension) /\ DOMAIN q = 1..Len(q)
    BY LenProperties DEF AllSpent
  <2>3. \A i \in 1..Len(q) : Append(q, NewSuspension(o.w.child, b))[i] = q[i]
    BY <2>1, <2>2, AppendProperties
  <2> QED BY <1>2, <2>2, <2>3
<1>3. CASE o.err # "none"
  BY <1>1, <1>3 DEF classify, lost
<1>4. CASE o.err = "none"
  <2>1. TRUE \in BOOLEAN /\ FALSE \in BOOLEAN
    OBVIOUS
  <2>2. \/ sus' = q
        \/ Suspends(o) /\ sus' = Append(q, NewSuspension(o.w.child, FALSE))
        \/ Suspends(o) /\ sus' = Append(q, NewSuspension(o.w.child, TRUE))
    BY <1>4 DEF classify, progress
  <2> QED BY <1>1, <1>2, <1>4, <2>1, <2>2, Zenon
<1> QED BY <1>3, <1>4

\* An answer spends the pending suspension and touches no other.
OwnSpent ==
  /\ pending # None
  /\ ~sus[pending].done
  /\ sus'[pending].done
  /\ \A i \in DOMAIN sus \ {pending} : sus'[i] = sus[i]

LEMMA AnswerSpends ==
  ASSUME Core, pending # None, ~closed, NEW turns, AnswerTurns(turns), answer(pending, turns)
  PROVE  OwnSpent
<1> DEFINE q == [sus EXCEPT ![pending] = Spent(sus[pending])]
<1>1. AllSpent(q) /\ DOMAIN q = DOMAIN sus
  BY AnsweredSpent
<1>2. /\ pending \in DOMAIN sus /\ ~sus[pending].done
      /\ Sound(w) /\ (~w.dead => PausedAt(w.child))
      /\ Spent(sus[pending]).done
  BY PendingIn, SpentIsSuspension DEF Core, Alive
<1>3. \E o : Turn(w, o) /\ classify(q, o)
  <2>1. PICK o \in turns :
          IF o.err = "unsendable" THEN \E a \in SendAbortFeed(w, FALSE) : classify(q, a)
                                  ELSE classify(q, o)
    BY DEF answer
  <2>2. Turn(w, o)
    BY DEF AnswerTurns
  <2>3. \A a \in SendAbortFeed(w, FALSE) : Turn(w, a)
    BY <1>2, AbortTurn
  <2> QED BY <2>1, <2>2, <2>3
<1>4. \A i \in DOMAIN q : sus'[i] = q[i]
  BY <1>1, <1>3, Grown
<1>5. q[pending] = Spent(sus[pending]) /\ \A i \in DOMAIN sus \ {pending} : q[i] = sus[i]
  BY <1>2
<1> HIDE DEF q
<1> QED BY <1>1, <1>2, <1>4, <1>5 DEF OwnSpent

LEMMA RespondSpends ==
  ASSUME Core, pending # None, ~closed, Respond(pending)
  PROVE  OwnSpent
BY RespondTurns, AnswerSpends

\* What a step may do to a child that waits.
OwnAnswer ==
  Alive /\ w.child.st = "paused" /\ ~w.child.bad /\ w'.child # w.child /\ ~closed'
    => OwnSpent

LEMMA NextOwn == IInv /\ [Next]_vars => OwnAnswer
<1> SUFFICES ASSUME IInv, [Next]_vars, ~closed, ~w.dead, w.child.st = "paused", ~w.child.bad,
                    w'.child # w.child, ~closed'
             PROVE  OwnSpent
  BY DEF OwnAnswer, Alive
<1>0. Core /\ pending # None /\ pending \in DOMAIN sus /\ ~sus[pending].done
      /\ sus[pending] \in Suspension
  BY PendingIn DEF IInv, Core, HostChildAgree, Alive
<1>1. CASE \E limit \in Limits : NewSession(limit)
  BY <1>1 DEF NewSession
<1>2. CASE \E limit \in Limits : Reset(limit)
  <2>1. sus' = [i \in DOMAIN sus |-> IF i = pending THEN Spent(sus[i]) ELSE sus[i]]
    BY <1>2 DEF Reset
  <2>2. sus'[pending] = Spent(sus[pending]) /\ \A i \in DOMAIN sus \ {pending} : sus'[i] = sus[i]
    BY <1>0, <2>1
  <2> QED BY <1>0, <2>2, SpentIsSuspension DEF OwnSpent
<1>3. CASE Restore
  BY <1>3 DEF Restore
<1>4. CASE Start \/ Run
  BY <1>0, <1>4 DEF Start, Run, start
<1>5. CASE Continue \/ UNCHANGED vars
  BY <1>5 DEF Continue, vars
<1>6. ASSUME NEW i \in DOMAIN sus, Answer(i) PROVE OwnSpent
  <2>1. i = pending /\ Respond(pending)
    BY <1>6 DEF Answer, check
  <2> QED BY <1>0, <2>1, RespondSpends
<1>7. CASE Drive
  BY <1>0, <1>7, RespondSpends DEF Drive
<1>8. CASE CallbackPanics
  <2>1. answer(pending, SendAbortFeed(w, TRUE))
    BY <1>8 DEF CallbackPanics
  <2>2. Sound(w) /\ PausedAt(w.child)
    BY <1>0 DEF Core, PausedAt
  <2>3. AnswerTurns(SendAbortFeed(w, TRUE))
    BY <2>2, AbortTurn DEF AnswerTurns
  <2> QED BY <1>0, <2>1, <2>3, AnswerSpends
<1>9. CASE Dump
  <2>1. PICK o \in SendDump(w) : w' = o.w
    BY <1>9 DEF Dump
  <2>2. o.w.child = w.child
    BY <2>1 DEF SendDump, send, Died, Unread, Fatal, Replied, Refused, Reply, Outcome, Lost
  <2> QED BY <2>1, <2>2
<1>10. CASE Close
  BY <1>10 DEF Close
<1> QED BY <1>1, <1>2, <1>3, <1>4, <1>5, <1>6, <1>7, <1>8, <1>9, <1>10 DEF Next

\* How Run and Continue end.
Settled ==
  running /\ ~running' => w'.dead \/ w'.child.bad \/ w'.child.st # "paused"

LEMMA NextSettled == IInv /\ [Next]_vars => Settled
<1> SUFFICES ASSUME IInv, [Next]_vars, running, ~running'
             PROVE  w'.dead \/ w'.child.bad \/ w'.child.st # "paused"
  BY DEF Settled
<1>1. IInv' /\ ~closed
  BY NextInv DEF IInv, Driven
<1>2. Drive \/ CallbackPanics
  BY <1>1 DEF Next, NewSession, Reset, Restore, Start, Run, start, Continue, Answer, Dump, Close,
              vars
<1>3. CASE pending' = None /\ ~closed'
  BY <1>1, <1>3 DEF IInv, Core, HostChildAgree, Alive
<1>4. CASE Drive
  <2>1. ~closed'
    BY <1>1, <1>4 DEF Drive
  <2>2. pending' = None
    BY <1>4 DEF Drive
  <2> QED BY <1>3, <2>1, <2>2
<1>5. CASE CallbackPanics
  <2>1. ~closed'
    BY <1>1, <1>5 DEF CallbackPanics
  <2> QED BY <1>3, <1>5, <2>1, PanicInv
<1> QED BY <1>2, <1>4, <1>5

(***************************************************************************)
(* Theorems                                                                *)
(***************************************************************************)

\* Every reachable state satisfies the inductive invariant of the session.
THEOREM Safe == Spec => []IInv
<1> QED BY InitInv, NextInv, PTL DEF Spec

\* Every variable of a session keeps its type.
THEOREM TypeCorrect == Spec => []TypeOK
<1>1. IInv => TypeOK
  BY DEF IInv, Core, Typed, Driven, Sound, Shape, TypeOK
<1> QED BY <1>1, Safe, PTL

\* Whenever a method of session.go has returned, host and child agree on
\* whether a feed is paused and at which suspension, whatever the limits.
THEOREM BothAgree == Spec => []HostChildAgree
<1>1. IInv => HostChildAgree
  BY DEF IInv, Core
<1> QED BY <1>1, Safe, PTL

\* No sequence of calls sends the child a request that it cannot serve, unless
\* a payload did not decode.
THEOREM InTurn == Spec => []OnlyMalformedTears
<1>1. IInv => OnlyMalformedTears
  BY DEF IInv, Core, Sound, OnlyMalformedTears
<1> QED BY <1>1, Safe, PTL

\* Suspension.check lets exactly the suspension pass at which the session is
\* paused; every other one the caller may still hold is spent.
THEOREM OneOpen == Spec => []OnlyPendingOpen
<1>1. IInv => OnlyPendingOpen
  BY DEF IInv, Core
<1> QED BY <1>1, Safe, PTL

\* progress shows no host call beyond the limit in force, for any limits.
THEOREM WithinLimit == Spec => []LimitHeld
<1>1. IInv => LimitHeld
  BY DEF IInv, Core
<1> QED BY <1>1, Safe, PTL

\* The limit the host enforces is the one the child was configured with, after
\* Reset and after Restore from the bytes of a dump as well.
THEOREM SameLimit == Spec => []LimitAgrees
<1>1. IInv => LimitAgrees
  BY DEF IInv, Core
<1> QED BY <1>1, Safe, PTL

\* ExecutionTime reports the clock of the child, for any bound of it.
THEOREM SameClock == Spec => []ClockAgrees
<1>1. IInv => ClockAgrees
  BY DEF IInv, Core
<1> QED BY <1>1, Safe, PTL

\* A feed that waits goes on only because its own suspension was answered or
\* dropped: a stale Suspension never resumes it.
THEOREM OwnAnswers == Spec => OwnAnswerResumes
<1>1. OwnAnswer => [OwnAnswer]_vars
  OBVIOUS
<1>2. IInv /\ [Next]_vars => [OwnAnswer]_vars
  BY NextOwn, <1>1
<1>3. Spec => [][OwnAnswer]_vars
  BY <1>2, Safe, PTL DEF Spec
<1> QED BY <1>3 DEF OwnAnswerResumes, OwnAnswer, OwnSpent

\* Run and Continue never return with a feed that still waits in a worker that
\* lives, whatever the callbacks did, unless a payload did not decode.
THEOREM DriveSettles == Spec => RunSettles
<1>1. IInv /\ [Next]_vars => [Settled]_vars
  BY NextSettled
<1>2. Spec => [][Settled]_vars
  BY <1>1, Safe, PTL DEF Spec
<1> QED BY <1>2 DEF RunSettles, Settled
=============================================================================
