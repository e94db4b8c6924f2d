----------------------------- MODULE PoolProofs -----------------------------
(***************************************************************************)
(* What the Pool guarantees for every number of clients, workers and idle  *)
(* slots.  One inductive invariant carries the ownership of workers; the   *)
(* size of the idle set, lost wakeups and lost instances each get an       *)
(* invariant of their own on top of it.                                    *)
(***************************************************************************)
EXTENDS Pool, TLAPS

(***************************************************************************)
(* The inductive invariant: where a goroutine stands tells what it holds,  *)
(* and in which state.                                                     *)
(***************************************************************************)

\* A client has a worker in its hands exactly between the steps that take one
\* and the steps that give it away.
ClientHolds ==
  \A c \in Client :
    /\ pc[c] \in {"configure", "using", "park", "discard"} => held[c] # NoWorker
    /\ pc[c] \in {"rest", "build", "kick"} => held[c] = NoWorker

\* The same for the filler.
FillerHolds == fpc \in {"warm", "park"} <=> fheld # NoWorker

\* A worker the filler or a client is about to make available, or to configure,
\* is as good as an idle one.
Servable(x) == healthy(x) /\ user[x] = NoClient

HeldServable ==
  /\ \A c \in Client :
       pc[c] \in {"popped", "configure", "park"} /\ held[c] # NoWorker
         => Servable(held[c])
  /\ fheld # NoWorker => Servable(fheld)

\* A closed pool keeps no worker.
ClosedEmpty == closed => idle = << >>

IInv ==
  /\ TypeOK
  /\ ClientHolds
  /\ FillerHolds
  /\ Exclusive
  /\ HeldExist
  /\ IdleClean
  /\ HeldServable
  /\ OwnState
  /\ RunsBounded
  /\ ClosedEmpty

(***************************************************************************)
(* What the operators do                                                   *)
(***************************************************************************)

\* Appending to a sequence keeps what was there and adds one element.
LEMMA AppendFacts ==
  ASSUME NEW S, NEW s \in Seq(S), NEW x \in S
  PROVE  /\ Append(s, x) \in Seq(S)
         /\ Len(s) \in Nat
         /\ DOMAIN s = 1..Len(s)
         /\ DOMAIN Append(s, x) = 1..(Len(s) + 1)
         /\ \A i \in 1..Len(s) : Append(s, x)[i] = s[i]
         /\ Append(s, x)[Len(s) + 1] = x
  OBVIOUS

\* Dropping the last element of a sequence keeps the others.
LEMMA FrontFacts ==
  ASSUME NEW S, NEW s \in Seq(S), s # << >>
  PROVE  /\ SubSeq(s, 1, Len(s) - 1) \in Seq(S)
         /\ Len(s) \in Nat \ {0}
         /\ Len(SubSeq(s, 1, Len(s) - 1)) = Len(s) - 1
         /\ DOMAIN s = 1..Len(s)
         /\ DOMAIN SubSeq(s, 1, Len(s) - 1) = 1..(Len(s) - 1)
         /\ \A i \in 1..(Len(s) - 1) : SubSeq(s, 1, Len(s) - 1)[i] = s[i]
         /\ s[Len(s)] \in S
<1>1. Len(s) \in Nat \ {0} /\ DOMAIN s = 1..Len(s) /\ s[Len(s)] \in S
  OBVIOUS
<1>2. QED BY <1>1

\* NewPool's default makes MaxRuns positive.
LEMMA MaxRunsPositive == MaxRuns \in Nat \ {0}
  BY PoolAssumption DEF MaxRuns

\* A worker is built or closed: all of it is new.
Becomes(x, state) ==
  /\ inst' \in [Worker -> {"absent", "live", "dead"}]
  /\ runs' \in [Worker -> Nat]
  /\ big' \in [Worker -> BOOLEAN]
  /\ user' \in [Worker -> Client \cup {NoClient}]
  /\ inst'[x] = state /\ runs'[x] = 0 /\ big'[x] = FALSE /\ user'[x] = NoClient
  /\ \A y \in Worker \ {x} :
       inst'[y] = inst[y] /\ runs'[y] = runs[y] /\ big'[y] = big[y] /\ user'[y] = user[y]

\* Building or closing a worker changes that worker only.
LEMMA BecomeFacts ==
  ASSUME TypeOK, NEW x \in Worker, NEW state \in {"absent", "live"}, become(x, state)
  PROVE  Becomes(x, state)
  BY DEF TypeOK, become, Becomes

\* A worker joins the idle set.
Parks(x) ==
  LET n == Len(idle) IN
  /\ idle' \in Seq(Worker)
  /\ n \in Nat
  /\ DOMAIN idle = 1..n
  /\ DOMAIN idle' = 1..(n + 1)
  /\ \A i \in 1..n : idle'[i] = idle[i]
  /\ idle'[n + 1] = x

\* What append(p.idle, w) does.
LEMMA ParkFacts ==
  ASSUME TypeOK, NEW x \in Worker, idle' = Append(idle, x)
  PROVE  Parks(x)
<1>1. idle \in Seq(Worker)
  BY DEF TypeOK
<1>2. QED BY <1>1, AppendFacts DEF Parks

\* A worker nobody else has may join the idle set.
LEMMA ParkedApart ==
  ASSUME IInv, NEW x \in Worker, Parks(x),
         \A i \in DOMAIN idle : idle[i] # x,
         x \notin batch, batch' = batch,
         \A d \in Client : held'[d] # NoWorker => held'[d] = held[d] /\ held[d] # x,
         fheld' # NoWorker => fheld' = fheld /\ fheld # x
  PROVE  Exclusive'
<1>1. \A i \in DOMAIN idle' : idle'[i] = x \/ (i \in DOMAIN idle /\ idle'[i] = idle[i])
  BY DEF Parks
<1>2. \A i, j \in DOMAIN idle' : idle'[i] = idle'[j] => i = j
  BY <1>1 DEF IInv, Exclusive, Parks
<1>3. \A i \in DOMAIN idle' : idle'[i] \notin batch'
  BY <1>1 DEF IInv, Exclusive
<1>4. fheld' # NoWorker => (\A i \in DOMAIN idle' : idle'[i] # fheld') /\ fheld' \notin batch'
  BY <1>1 DEF IInv, Exclusive, InIdle
<1>5. ASSUME NEW d \in Client, held'[d] # NoWorker
      PROVE  /\ \A i \in DOMAIN idle' : idle'[i] # held'[d]
             /\ held'[d] # fheld'
             /\ held'[d] \notin batch'
             /\ \A e \in Client : held'[e] = held'[d] => e = d
  BY <1>1, <1>5 DEF IInv, Exclusive, InIdle
<1>6. QED BY <1>2, <1>3, <1>4, <1>5 DEF Exclusive, InIdle

(***************************************************************************)
(* Checkout and release                                                    *)
(***************************************************************************)

\* A client may close the worker in its hands (Checkout, release).
LEMMA ClosesHeld ==
  ASSUME IInv, NEW c \in Client, held[c] # NoWorker,
         NEW label \in {"rest", "kick"},
         close(held[c]),
         held' = [held EXCEPT ![c] = NoWorker],
         pc' = [pc EXCEPT ![c] = label],
         UNCHANGED << idle, closed, token, fpc, fheld, batch, starved, crashed >>
  PROVE  IInv'
<1> DEFINE x == held[c]
<1>1. x \in Worker
  BY DEF IInv, TypeOK
<1>2. Becomes(x, "absent")
  BY <1>1, BecomeFacts DEF close, IInv
<1>3. TypeOK'
  BY <1>2 DEF IInv, TypeOK, Becomes
<1>4. /\ held'[c] = NoWorker /\ pc'[c] = label
      /\ \A d \in Client \ {c} : held'[d] = held[d] /\ pc'[d] = pc[d]
  BY DEF IInv, TypeOK
<1>5. /\ \A i \in DOMAIN idle : idle[i] \in Worker \ {x}
      /\ \A d \in Client \ {c} : held[d] # NoWorker => held[d] \in Worker \ {x}
      /\ fheld # NoWorker => fheld \in Worker \ {x}
      /\ batch \in SUBSET (Worker \ {x})
  BY <1>1 DEF IInv, TypeOK, Exclusive, InIdle
<1> HIDE DEF x
<1>6. ClientHolds' /\ FillerHolds' /\ Exclusive' /\ ClosedEmpty'
  BY <1>4 DEF IInv, ClientHolds, FillerHolds, Exclusive, InIdle, ClosedEmpty
<1>7. HeldExist' /\ IdleClean'
  BY <1>2, <1>4, <1>5 DEF IInv, HeldExist, IdleClean, healthy, MaxRuns, Becomes
<1>8. HeldServable' /\ OwnState'
  BY <1>2, <1>4, <1>5 DEF IInv, HeldServable, Servable, healthy, MaxRuns, OwnState, ClientHolds, Becomes
<1>9. RunsBounded'
  BY <1>2, MaxRunsPositive DEF IInv, RunsBounded, Becomes
<1>10. QED BY <1>3, <1>6, <1>7, <1>8, <1>9 DEF IInv

\* CheckoutPop preserves the invariant.
LEMMA StepCheckoutPop ==
  ASSUME IInv, NEW c \in Client, CheckoutPop(c)
  PROVE  IInv'
<1> DEFINE w == held'[c]
<1>1. /\ at(c, "rest") /\ held[c] = NoWorker /\ ~closed
      /\ pc' = [pc EXCEPT ![c] = "popped"]
      /\ UNCHANGED << closed, token, inst, runs, big, user, fpc, fheld, batch, starved, crashed >>
  BY DEF CheckoutPop, worker, IInv, ClientHolds, at
<1>2. CASE idle = << >>
  <2>1. held' = held /\ idle' = idle
    BY <1>1, <1>2 DEF CheckoutPop, IInv, TypeOK
  <2>2. TypeOK'
    BY <1>1, <2>1 DEF IInv, TypeOK
  <2>3. QED
    BY <1>1, <2>1, <2>2, SMTT(30) DEF IInv, TypeOK, ClientHolds, FillerHolds, Exclusive, InIdle,
       HeldExist, IdleClean, healthy, MaxRuns, HeldServable, Servable, OwnState, RunsBounded, ClosedEmpty
<1>3. CASE idle # << >>
  <2> DEFINE n == Len(idle)
  <2>1. /\ held' = [held EXCEPT ![c] = idle[n]]
        /\ idle' = SubSeq(idle, 1, n - 1)
    BY <1>3 DEF CheckoutPop
  <2>2. /\ n \in Nat \ {0}
        /\ DOMAIN idle = 1..n
        /\ idle[n] \in Worker
        /\ \A i \in 1..n : idle[i] \in Worker
    BY <1>3 DEF IInv, TypeOK
  <2>3. /\ idle' \in Seq(Worker)
        /\ DOMAIN idle' = 1..(n - 1)
        /\ \A i \in 1..(n - 1) : idle'[i] = idle[i]
    <3>1. idle \in Seq(Worker)
      BY DEF IInv, TypeOK
    <3> HIDE DEF n
    <3>2. QED BY <1>3, <2>1, <3>1, FrontFacts DEF n
  <2> HIDE DEF n
  <2>4. /\ held' \in [Client -> Worker \cup {NoWorker}]
        /\ held'[c] = idle[n]
        /\ \A d \in Client \ {c} : held'[d] = held[d]
        /\ pc'[c] = "popped"
        /\ \A d \in Client \ {c} : pc'[d] = pc[d]
    BY <1>1, <2>1, <2>2 DEF IInv, TypeOK
  <2>5. TypeOK'
    BY <1>1, <2>3, <2>4 DEF IInv, TypeOK
  <2>6. idle[n] # NoWorker
    BY <2>2, PoolAssumption
  <2>7. ClientHolds' /\ FillerHolds'
    BY <1>1, <2>4 DEF IInv, ClientHolds, FillerHolds
  <2>8. Exclusive'
    <3>1. \A i, j \in DOMAIN idle' : idle'[i] = idle'[j] => i = j
      BY <2>2, <2>3 DEF IInv, Exclusive
    <3>2. /\ \A i \in DOMAIN idle' : idle'[i] # held'[c]
          /\ held'[c] # fheld
          /\ held'[c] \notin batch
          /\ \A d \in Client \ {c} : held[d] # held'[c]
      BY <2>2, <2>3, <2>4, <2>6 DEF IInv, Exclusive, InIdle
    <3>3. \A d \in Client \ {c} : held[d] # NoWorker => \A i \in DOMAIN idle' : idle'[i] # held[d]
      BY <2>2, <2>3 DEF IInv, Exclusive, InIdle
    <3>4. /\ fheld # NoWorker => \A i \in DOMAIN idle' : idle'[i] # fheld
          /\ \A i \in DOMAIN idle' : idle'[i] \notin batch
      BY <2>2, <2>3 DEF IInv, Exclusive, InIdle
    <3>5. QED BY <1>1, <2>4, <3>1, <3>2, <3>3, <3>4 DEF IInv, Exclusive, InIdle
  <2>9. HeldExist' /\ IdleClean'
    BY <1>1, <2>2, <2>3, <2>4 DEF IInv, HeldExist, IdleClean, healthy, MaxRuns
  <2>10. HeldServable' /\ OwnState'
    BY <1>1, <2>2, <2>4 DEF IInv, HeldServable, Servable, OwnState, IdleClean, healthy, MaxRuns
  <2>11. RunsBounded' /\ ClosedEmpty'
    BY <1>1 DEF IInv, RunsBounded, ClosedEmpty, MaxRuns
  <2>12. QED BY <2>5, <2>7, <2>8, <2>9, <2>10, <2>11 DEF IInv
<1>4. QED BY <1>2, <1>3

\* CheckoutKick preserves the invariant.
LEMMA StepCheckoutKick ==
  ASSUME IInv, NEW c \in Client, CheckoutKick(c)
  PROVE  IInv'
<1>1. /\ pc[c] = "popped"
      /\ token' \in BOOLEAN /\ crashed' \in BOOLEAN
      /\ pc' = [pc EXCEPT ![c] = IF held[c] = NoWorker THEN "build" ELSE "configure"]
      /\ UNCHANGED << idle, closed, inst, runs, big, user, held, fpc, fheld, batch, starved >>
  BY DEF CheckoutKick, at, kick, worker, IInv, TypeOK
<1>2. TypeOK' /\ ClientHolds' /\ FillerHolds'
  BY <1>1 DEF IInv, TypeOK, ClientHolds, FillerHolds
<1>3. Exclusive' /\ HeldExist' /\ IdleClean'
  BY <1>1 DEF IInv, Exclusive, InIdle, HeldExist, IdleClean, healthy
<1>4. HeldServable' /\ OwnState' /\ RunsBounded' /\ ClosedEmpty'
  BY <1>1 DEF IInv, TypeOK, HeldServable, Servable, healthy, OwnState, RunsBounded, ClosedEmpty
<1>5. QED BY <1>2, <1>3, <1>4 DEF IInv

\* CheckoutBuild preserves the invariant.
LEMMA StepCheckoutBuild ==
  ASSUME IInv, NEW c \in Client, CheckoutBuild(c)
  PROVE  IInv'
<1>1. /\ pc[c] = "build" /\ held[c] = NoWorker
      /\ UNCHANGED << idle, closed, token, fpc, fheld, batch, starved, crashed >>
  BY DEF CheckoutBuild, at, IInv, ClientHolds
<1>2. CASE \E x \in Worker : newWorker(x) /\ held' = [held EXCEPT ![c] = x]
                             /\ pc' = [pc EXCEPT ![c] = "configure"]
  <2>1. PICK x \in Worker : /\ newWorker(x)
                            /\ held' = [held EXCEPT ![c] = x]
                            /\ pc' = [pc EXCEPT ![c] = "configure"]
    BY <1>2
  <2>2. Becomes(x, "live") /\ inst[x] = "absent" /\ x # NoWorker
    BY <2>1, BecomeFacts, PoolAssumption DEF newWorker, IInv
  <2>3. TypeOK'
    BY <1>1, <2>1, <2>2 DEF IInv, TypeOK, Becomes
  <2>4. /\ held'[c] = x /\ pc'[c] = "configure"
        /\ \A d \in Client \ {c} : held'[d] = held[d] /\ pc'[d] = pc[d]
    BY <2>1 DEF IInv, TypeOK
  <2>5. ClientHolds' /\ FillerHolds'
    BY <1>1, <2>2, <2>4 DEF IInv, ClientHolds, FillerHolds
  <2>6. /\ \A i \in DOMAIN idle : idle[i] \in Worker \ {x}
        /\ \A d \in Client \ {c} : held[d] # NoWorker => held[d] \in Worker \ {x}
        /\ fheld # NoWorker => fheld \in Worker \ {x}
        /\ batch \in SUBSET (Worker \ {x})
    BY <2>2 DEF IInv, TypeOK, HeldExist
  <2>7. Exclusive'
    BY <1>1, <2>2, <2>4, <2>6 DEF IInv, Exclusive, InIdle
  <2>8. HeldExist'
    BY <1>1, <2>2, <2>4, <2>6 DEF IInv, HeldExist, Becomes
  <2>9. IdleClean'
    BY <1>1, <2>2, <2>6 DEF IInv, IdleClean, healthy, MaxRuns, Becomes
  <2>10. HeldServable'
    BY <1>1, <2>2, <2>4, <2>6, MaxRunsPositive DEF IInv, HeldServable, Servable, healthy, Becomes
  <2>11. OwnState'
    BY <2>2, <2>4, <2>6 DEF IInv, OwnState, ClientHolds, Becomes
  <2>12. RunsBounded' /\ ClosedEmpty'
    BY <1>1, <2>2, MaxRunsPositive DEF IInv, RunsBounded, ClosedEmpty, Becomes
  <2>13. QED BY <2>3, <2>5, <2>7, <2>8, <2>9, <2>10, <2>11, <2>12 DEF IInv
<1>3. CASE pc' = [pc EXCEPT ![c] = "rest"] /\ UNCHANGED << inst, runs, big, user, held >>
  <2>1. TypeOK' /\ ClientHolds' /\ FillerHolds'
    BY <1>1, <1>3 DEF IInv, TypeOK, ClientHolds, FillerHolds
  <2>2. Exclusive' /\ HeldExist' /\ IdleClean'
    BY <1>1, <1>3 DEF IInv, Exclusive, InIdle, HeldExist, IdleClean, healthy
  <2>3. HeldServable' /\ OwnState' /\ RunsBounded' /\ ClosedEmpty'
    BY <1>1, <1>3 DEF IInv, TypeOK, HeldServable, Servable, healthy, OwnState, RunsBounded, ClosedEmpty
  <2>4. QED BY <2>1, <2>2, <2>3 DEF IInv
<1>4. QED BY <1>2, <1>3 DEF CheckoutBuild, worker

\* CheckoutConfigure preserves the invariant.
LEMMA StepCheckoutConfigure ==
  ASSUME IInv, NEW c \in Client, CheckoutConfigure(c)
  PROVE  IInv'
<1> DEFINE x == held[c]
<1>1. /\ pc[c] = "configure" /\ x \in Worker /\ x # NoWorker
      /\ UNCHANGED << idle, closed, token, fpc, fheld, batch, starved, crashed >>
  BY DEF CheckoutConfigure, at, IInv, TypeOK, ClientHolds
<1>2. /\ \A i \in DOMAIN idle : idle[i] \in Worker \ {x}
      /\ \A d \in Client \ {c} : held[d] # NoWorker => held[d] \in Worker \ {x}
      /\ fheld # NoWorker => fheld \in Worker \ {x}
      /\ batch \in SUBSET (Worker \ {x})
  BY <1>1 DEF IInv, TypeOK, Exclusive, InIdle
<1>3. CASE /\ runs' = [runs EXCEPT ![x] = @ + 1]
           /\ user' = [user EXCEPT ![x] = c]
           /\ UNCHANGED << inst, big, held >>
           /\ pc' = [pc EXCEPT ![c] = "using"]
  <2> HIDE DEF x
  <2>1. TypeOK'
    BY <1>1, <1>3 DEF IInv, TypeOK
  <2>2. ClientHolds' /\ FillerHolds' /\ Exclusive' /\ HeldExist' /\ ClosedEmpty'
    BY <1>1, <1>3 DEF IInv, TypeOK, ClientHolds, FillerHolds, Exclusive, InIdle, HeldExist, ClosedEmpty, x
  <2>3. /\ \A y \in Worker \ {x} : runs'[y] = runs[y] /\ user'[y] = user[y]
        /\ user'[x] = c /\ runs'[x] = runs[x] + 1
        /\ pc'[c] = "using" /\ \A d \in Client \ {c} : pc'[d] = pc[d]
    BY <1>1, <1>3 DEF IInv, TypeOK
  <2>4. IdleClean'
    BY <1>1, <1>2, <1>3, <2>3 DEF IInv, IdleClean, healthy, MaxRuns
  <2>5. HeldServable'
    BY <1>1, <1>2, <1>3, <2>3 DEF IInv, HeldServable, Servable, healthy, MaxRuns
  <2>6. OwnState'
    BY <1>1, <1>2, <1>3, <2>3 DEF IInv, OwnState, ClientHolds, x
  <2>7. RunsBounded'
    <3>1. runs[x] < MaxRuns /\ MaxRuns \in Nat
      BY <1>1, MaxRunsPositive DEF IInv, HeldServable, Servable, healthy, x
    <3>2. QED BY <1>1, <2>3, <3>1, MaxRunsPositive DEF IInv, TypeOK, RunsBounded
  <2>8. QED BY <2>1, <2>2, <2>4, <2>5, <2>6, <2>7 DEF IInv
<1>4. CASE /\ close(x)
           /\ pc' = [pc EXCEPT ![c] = "rest"]
           /\ held' = [held EXCEPT ![c] = NoWorker]
  BY <1>1, <1>4, ClosesHeld
<1>5. QED BY <1>3, <1>4 DEF CheckoutConfigure

\* RunCode preserves the invariant.
LEMMA StepRunCode ==
  ASSUME IInv, NEW c \in Client, RunCode(c)
  PROVE  IInv'
<1> DEFINE x == held[c]
<1>1. /\ pc[c] = "using" /\ x \in Worker /\ x # NoWorker /\ inst[x] = "live"
      /\ UNCHANGED << idle, closed, token, runs, user, pc, held, fpc, fheld, batch, starved, crashed >>
      /\ \/ inst' = [inst EXCEPT ![x] = "dead"] /\ big' = big
         \/ inst' = inst /\ big' = [big EXCEPT ![x] = TRUE]
  BY DEF RunCode, at, die, IInv, TypeOK, ClientHolds
<1>2. /\ \A i \in DOMAIN idle : idle[i] \in Worker \ {x}
      /\ \A d \in Client \ {c} : held[d] # NoWorker => held[d] \in Worker \ {x}
      /\ fheld # NoWorker => fheld \in Worker \ {x}
  BY <1>1 DEF IInv, TypeOK, Exclusive, InIdle
<1> HIDE DEF x
<1>3. /\ TypeOK'
      /\ inst'[x] # "absent"
      /\ \A y \in Worker \ {x} : inst'[y] = inst[y] /\ big'[y] = big[y]
  BY <1>1 DEF IInv, TypeOK
<1>4. ClientHolds' /\ FillerHolds' /\ Exclusive' /\ OwnState' /\ RunsBounded' /\ ClosedEmpty'
  BY <1>1 DEF IInv, ClientHolds, FillerHolds, Exclusive, InIdle, OwnState, RunsBounded, ClosedEmpty
<1>5. HeldExist'
  BY <1>1, <1>3 DEF IInv, HeldExist, TypeOK
<1>6. IdleClean'
  BY <1>1, <1>2, <1>3 DEF IInv, IdleClean, healthy, MaxRuns
<1>7. HeldServable'
  BY <1>1, <1>2, <1>3 DEF IInv, HeldServable, Servable, healthy, MaxRuns
<1>8. QED BY <1>3, <1>4, <1>5, <1>6, <1>7 DEF IInv

\* ReleaseReset preserves the invariant.
LEMMA StepReleaseReset ==
  ASSUME IInv, NEW c \in Client, ReleaseReset(c)
  PROVE  IInv'
<1> DEFINE x == held[c]
<1>1. /\ pc[c] = "using" /\ x \in Worker /\ x # NoWorker
      /\ UNCHANGED << idle, closed, token, runs, big, held, fpc, fheld, batch, starved, crashed >>
  BY DEF ReleaseReset, die, worker, at, IInv, TypeOK, ClientHolds
<1>2. \/ /\ healthy(x) /\ user' = [user EXCEPT ![x] = NoClient] /\ inst' = inst
         /\ pc' = [pc EXCEPT ![c] = "park"]
      \/ /\ healthy(x) /\ inst' = [inst EXCEPT ![x] = "dead"] /\ user' = user
         /\ pc' = [pc EXCEPT ![c] = "discard"]
      \/ inst' = inst /\ user' = user /\ pc' = [pc EXCEPT ![c] = "discard"]
  BY DEF ReleaseReset, die, worker
<1>3. /\ \A i \in DOMAIN idle : idle[i] \in Worker \ {x}
      /\ \A d \in Client \ {c} : held[d] # NoWorker => held[d] \in Worker \ {x}
      /\ fheld # NoWorker => fheld \in Worker \ {x}
      /\ batch \in SUBSET (Worker \ {x})
  BY <1>1 DEF IInv, TypeOK, Exclusive, InIdle
<1>4. inst[x] # "absent"
  BY <1>1 DEF IInv, HeldExist
<1> HIDE DEF x
<1>5. /\ TypeOK'
      /\ pc'[c] \in {"park", "discard"}
      /\ pc'[c] = "park" => healthy(x) /\ inst' = inst /\ user'[x] = NoClient
      /\ \A d \in Client \ {c} : pc'[d] = pc[d]
      /\ inst'[x] # "absent"
      /\ \A y \in Worker \ {x} : inst'[y] = inst[y] /\ user'[y] = user[y]
  BY <1>1, <1>2, <1>4 DEF IInv, TypeOK
<1>6. ClientHolds' /\ FillerHolds' /\ Exclusive' /\ RunsBounded' /\ ClosedEmpty'
  BY <1>1, <1>5 DEF IInv, ClientHolds, FillerHolds, Exclusive, InIdle, RunsBounded, ClosedEmpty, x
<1>7. HeldExist'
  BY <1>1, <1>3, <1>5 DEF IInv, HeldExist, x
<1>8. IdleClean'
  BY <1>1, <1>3, <1>5 DEF IInv, IdleClean, healthy, MaxRuns
<1>9. HeldServable'
  BY <1>1, <1>3, <1>5 DEF IInv, HeldServable, Servable, healthy, MaxRuns, x
<1>10. OwnState'
  BY <1>1, <1>3, <1>5 DEF IInv, OwnState, ClientHolds
<1>11. QED BY <1>5, <1>6, <1>7, <1>8, <1>9, <1>10 DEF IInv

\* ReleasePark preserves the invariant.
LEMMA StepReleasePark ==
  ASSUME IInv, NEW c \in Client, ReleasePark(c)
  PROVE  IInv'
<1> DEFINE x == held[c]
<1>1. /\ pc[c] = "park" /\ x \in Worker /\ x # NoWorker
      /\ UNCHANGED << closed, token, inst, runs, big, user, fpc, fheld, batch, starved, crashed >>
  BY DEF ReleasePark, worker, at, IInv, TypeOK, ClientHolds
<1>2. CASE UNCHANGED << idle, held >> /\ pc' = [pc EXCEPT ![c] = "discard"]
  <2>1. TypeOK' /\ ClientHolds' /\ FillerHolds'
    BY <1>1, <1>2 DEF IInv, TypeOK, ClientHolds, FillerHolds
  <2>2. Exclusive' /\ HeldExist' /\ IdleClean'
    BY <1>1, <1>2 DEF IInv, Exclusive, InIdle, HeldExist, IdleClean, healthy
  <2>3. HeldServable' /\ OwnState' /\ RunsBounded' /\ ClosedEmpty'
    BY <1>1, <1>2 DEF IInv, TypeOK, HeldServable, Servable, healthy, OwnState, RunsBounded, ClosedEmpty
  <2>4. QED BY <2>1, <2>2, <2>3 DEF IInv
<1>3. CASE /\ ~closed
           /\ idle' = Append(idle, x)
           /\ held' = [held EXCEPT ![c] = NoWorker]
           /\ pc' = [pc EXCEPT ![c] = "rest"]
  <2>1. Parks(x)
    BY <1>1, <1>3, ParkFacts DEF IInv, TypeOK
  <2> HIDE DEF x
  <2>2. TypeOK'
    BY <1>1, <1>3, <2>1 DEF IInv, TypeOK, Parks
  <2>3. /\ held'[c] = NoWorker /\ pc'[c] = "rest"
        /\ \A d \in Client \ {c} : held'[d] = held[d] /\ pc'[d] = pc[d]
    BY <1>3 DEF IInv, TypeOK
  <2>4. ClientHolds' /\ FillerHolds' /\ ClosedEmpty'
    BY <1>1, <1>3, <2>3 DEF IInv, ClientHolds, FillerHolds, ClosedEmpty
  <2>5. /\ \A i \in DOMAIN idle : idle[i] # x
        /\ \A d \in Client \ {c} : held[d] # x
        /\ fheld # x /\ x \notin batch
    BY <1>1 DEF IInv, Exclusive, InIdle, x
  <2>6. Exclusive'
    BY <1>1, <2>1, <2>3, <2>5, ParkedApart
  <2>7. HeldExist' /\ IdleClean'
    BY <1>1, <2>1, <2>3 DEF IInv, HeldExist, IdleClean, HeldServable, Servable, healthy, MaxRuns, Parks, x
  <2>8. HeldServable' /\ OwnState' /\ RunsBounded'
    BY <1>1, <2>3 DEF IInv, HeldServable, Servable, healthy, MaxRuns, OwnState, RunsBounded
  <2>9. QED BY <2>2, <2>4, <2>6, <2>7, <2>8 DEF IInv
<1>4. QED BY <1>2, <1>3 DEF ReleasePark

\* ReleaseDiscard preserves the invariant.
LEMMA StepReleaseDiscard ==
  ASSUME IInv, NEW c \in Client, ReleaseDiscard(c)
  PROVE  IInv'
<1>1. /\ pc[c] = "discard" /\ held[c] # NoWorker
      /\ UNCHANGED << idle, closed, token, fpc, fheld, batch, starved, crashed >>
      /\ close(held[c])
      /\ pc' = [pc EXCEPT ![c] = "kick"]
      /\ held' = [held EXCEPT ![c] = NoWorker]
  BY DEF ReleaseDiscard, at, IInv, ClientHolds
<1>2. QED BY <1>1, ClosesHeld

\* ReleaseKick preserves the invariant.
LEMMA StepReleaseKick ==
  ASSUME IInv, NEW c \in Client, ReleaseKick(c)
  PROVE  IInv'
<1>1. /\ pc[c] = "kick"
      /\ token' \in BOOLEAN /\ crashed' \in BOOLEAN
      /\ pc' = [pc EXCEPT ![c] = "rest"]
      /\ UNCHANGED << idle, closed, inst, runs, big, user, held, fpc, fheld, batch, starved >>
  BY DEF ReleaseKick, at, kick, worker, IInv, TypeOK
<1>2. TypeOK' /\ ClientHolds' /\ FillerHolds'
  BY <1>1 DEF IInv, TypeOK, ClientHolds, FillerHolds
<1>3. Exclusive' /\ HeldExist' /\ IdleClean'
  BY <1>1 DEF IInv, Exclusive, InIdle, HeldExist, IdleClean, healthy
<1>4. HeldServable' /\ OwnState' /\ RunsBounded' /\ ClosedEmpty'
  BY <1>1 DEF IInv, TypeOK, HeldServable, Servable, healthy, OwnState, RunsBounded, ClosedEmpty
<1>5. QED BY <1>2, <1>3, <1>4 DEF IInv

(***************************************************************************)
(* The filler and Close                                                    *)
(***************************************************************************)

\* The filler may close the worker in its hands.
LEMMA FillerCloses ==
  ASSUME IInv, fheld # NoWorker, close(fheld), fheld' = NoWorker, fpc' = "wait",
         starved' \in BOOLEAN,
         UNCHANGED << idle, closed, token, pc, held, batch, crashed >>
  PROVE  IInv'
<1> DEFINE x == fheld
<1>1. x \in Worker
  BY DEF IInv, TypeOK
<1>2. Becomes(x, "absent")
  BY <1>1, BecomeFacts DEF close, IInv
<1>3. TypeOK' /\ ClientHolds' /\ FillerHolds' /\ ClosedEmpty'
  BY <1>2 DEF IInv, TypeOK, Becomes, ClientHolds, FillerHolds, ClosedEmpty
<1>4. /\ \A i \in DOMAIN idle : idle[i] \in Worker \ {x}
      /\ \A d \in Client : held[d] # NoWorker => held[d] \in Worker \ {x}
      /\ batch \in SUBSET (Worker \ {x})
  BY <1>1 DEF IInv, TypeOK, Exclusive, InIdle
<1> HIDE DEF x
<1>5. Exclusive'
  BY DEF IInv, Exclusive, InIdle
<1>6. HeldExist' /\ IdleClean'
  BY <1>2, <1>4 DEF IInv, HeldExist, IdleClean, healthy, MaxRuns, Becomes
<1>7. HeldServable' /\ OwnState'
  BY <1>2, <1>4 DEF IInv, HeldServable, Servable, healthy, MaxRuns, OwnState, ClientHolds, Becomes
<1>8. RunsBounded'
  BY <1>2, MaxRunsPositive DEF IInv, RunsBounded, Becomes
<1>9. QED BY <1>3, <1>5, <1>6, <1>7, <1>8 DEF IInv

\* The filler waits, wakes up, ends or looks at the idle set: ownership does not
\* change.
LEMMA StepFillerIdles ==
  ASSUME IInv, FillerWake \/ FillerExit \/ FillerCheck
  PROVE  IInv'
<1>1. /\ fpc \notin {"warm", "park"} /\ fpc' \in {"wait", "check", "build", "done"}
      /\ token' \in BOOLEAN /\ starved' \in BOOLEAN
      /\ UNCHANGED << idle, closed, inst, runs, big, user, pc, held, fheld, batch, crashed >>
  BY DEF FillerWake, FillerExit, FillerCheck, fillerAt, worker, IInv, TypeOK
<1>2. TypeOK' /\ ClientHolds' /\ FillerHolds'
  BY <1>1 DEF IInv, TypeOK, ClientHolds, FillerHolds
<1>3. Exclusive' /\ HeldExist' /\ IdleClean'
  BY <1>1 DEF IInv, Exclusive, InIdle, HeldExist, IdleClean, healthy
<1>4. HeldServable' /\ OwnState' /\ RunsBounded' /\ ClosedEmpty'
  BY <1>1 DEF IInv, HeldServable, Servable, healthy, OwnState, RunsBounded, ClosedEmpty
<1>5. QED BY <1>2, <1>3, <1>4 DEF IInv

\* FillerBuild preserves the invariant.
LEMMA StepFillerBuild ==
  ASSUME IInv, FillerBuild
  PROVE  IInv'
<1>1. /\ fpc = "build" /\ fheld = NoWorker
      /\ UNCHANGED << idle, closed, token, pc, held, batch, crashed >>
  BY DEF FillerBuild, fillerAt, IInv, FillerHolds
<1>2. CASE \E x \in Worker : newWorker(x) /\ fheld' = x /\ fpc' = "warm" /\ UNCHANGED starved
  <2>1. PICK x \in Worker : newWorker(x) /\ fheld' = x /\ fpc' = "warm" /\ UNCHANGED starved
    BY <1>2
  <2>2. Becomes(x, "live") /\ inst[x] = "absent" /\ x # NoWorker
    BY <2>1, BecomeFacts, PoolAssumption DEF newWorker, IInv
  <2>3. TypeOK' /\ ClientHolds' /\ FillerHolds' /\ ClosedEmpty'
    BY <1>1, <2>1, <2>2 DEF IInv, TypeOK, Becomes, ClientHolds, FillerHolds, ClosedEmpty
  <2>4. /\ \A i \in DOMAIN idle : idle[i] \in Worker \ {x}
        /\ \A d \in Client : held[d] # NoWorker => held[d] \in Worker \ {x}
        /\ batch \in SUBSET (Worker \ {x})
    BY <2>2 DEF IInv, TypeOK, HeldExist
  <2>5. Exclusive'
    BY <1>1, <2>1, <2>4 DEF IInv, Exclusive, InIdle
  <2>6. HeldExist'
    BY <1>1, <2>1, <2>2, <2>4 DEF IInv, HeldExist, Becomes
  <2>7. IdleClean' /\ HeldServable'
    BY <1>1, <2>1, <2>2, <2>4, MaxRunsPositive
       DEF IInv, IdleClean, HeldServable, Servable, healthy, Becomes
  <2>8. OwnState' /\ RunsBounded'
    BY <1>1, <2>2, <2>4, MaxRunsPositive DEF IInv, OwnState, ClientHolds, RunsBounded, Becomes
  <2>9. QED BY <2>3, <2>5, <2>6, <2>7, <2>8 DEF IInv
<1>3. CASE /\ starved' = TRUE /\ fpc' = "wait"
           /\ UNCHANGED << inst, runs, big, user, fheld >>
  <2>1. TypeOK' /\ ClientHolds' /\ FillerHolds'
    BY <1>1, <1>3 DEF IInv, TypeOK, ClientHolds, FillerHolds
  <2>2. Exclusive' /\ HeldExist' /\ IdleClean'
    BY <1>1, <1>3 DEF IInv, Exclusive, InIdle, HeldExist, IdleClean, healthy
  <2>3. HeldServable' /\ OwnState' /\ RunsBounded' /\ ClosedEmpty'
    BY <1>1, <1>3 DEF IInv, HeldServable, Servable, healthy, OwnState, RunsBounded, ClosedEmpty
  <2>4. QED BY <2>1, <2>2, <2>3 DEF IInv
<1>4. QED BY <1>2, <1>3 DEF FillerBuild, worker

\* FillerWarm preserves the invariant.
LEMMA StepFillerWarm ==
  ASSUME IInv, FillerWarm
  PROVE  IInv'
<1>1. /\ fpc = "warm" /\ fheld # NoWorker
      /\ UNCHANGED << idle, closed, token, pc, held, batch, crashed >>
  BY DEF FillerWarm, fillerAt, IInv, FillerHolds
<1>2. CASE fpc' = "park" /\ UNCHANGED << inst, runs, big, user, fheld, starved >>
  <2>1. TypeOK' /\ ClientHolds' /\ FillerHolds'
    BY <1>1, <1>2 DEF IInv, TypeOK, ClientHolds, FillerHolds
  <2>2. Exclusive' /\ HeldExist' /\ IdleClean'
    BY <1>1, <1>2 DEF IInv, Exclusive, InIdle, HeldExist, IdleClean, healthy
  <2>3. HeldServable' /\ OwnState' /\ RunsBounded' /\ ClosedEmpty'
    BY <1>1, <1>2 DEF IInv, HeldServable, Servable, healthy, OwnState, RunsBounded, ClosedEmpty
  <2>4. QED BY <2>1, <2>2, <2>3 DEF IInv
<1>3. CASE close(fheld) /\ fheld' = NoWorker /\ starved' = TRUE /\ fpc' = "wait"
  BY <1>1, <1>3, FillerCloses
<1>4. QED BY <1>2, <1>3 DEF FillerWarm, worker

\* FillerPark preserves the invariant.
LEMMA StepFillerPark ==
  ASSUME IInv, FillerPark
  PROVE  IInv'
<1> DEFINE x == fheld
<1>1. /\ fpc = "park" /\ x # NoWorker /\ x \in Worker /\ fheld' = NoWorker
      /\ UNCHANGED << closed, token, pc, held, batch, starved, crashed >>
  BY DEF FillerPark, fillerAt, IInv, FillerHolds, TypeOK
<1>2. CASE closed
  <2>1. starved \in BOOLEAN
    BY DEF IInv, TypeOK
  <2>2. QED BY <1>1, <1>2, <2>1, FillerCloses DEF FillerPark
<1>3. CASE ~closed
  <2>1. /\ idle' = Append(idle, x) /\ fpc' = "check"
        /\ UNCHANGED << inst, runs, big, user >>
    BY <1>3 DEF FillerPark, worker
  <2>2. Parks(x)
    BY <1>1, <2>1, ParkFacts DEF IInv
  <2>3. /\ \A i \in DOMAIN idle : idle[i] # x
        /\ \A d \in Client : held[d] # x
        /\ x \notin batch
    BY <1>1 DEF IInv, Exclusive, InIdle
  <2> HIDE DEF x
  <2>4. TypeOK' /\ ClientHolds' /\ FillerHolds' /\ ClosedEmpty'
    BY <1>1, <1>3, <2>1, <2>2 DEF IInv, TypeOK, Parks, ClientHolds, FillerHolds, ClosedEmpty
  <2>5. Exclusive'
    BY <1>1, <2>2, <2>3, ParkedApart
  <2>6. HeldExist' /\ IdleClean'
    BY <1>1, <2>1, <2>2
       DEF IInv, HeldExist, IdleClean, HeldServable, Servable, healthy, MaxRuns, Parks, x
  <2>7. HeldServable' /\ OwnState' /\ RunsBounded'
    BY <1>1, <2>1 DEF IInv, HeldServable, Servable, healthy, OwnState, RunsBounded
  <2>8. QED BY <2>4, <2>5, <2>6, <2>7 DEF IInv
<1>4. QED BY <1>2, <1>3

\* Pool.Close takes the idle set over.
LEMMA StepClose ==
  ASSUME IInv, Close
  PROVE  IInv'
<1>1. /\ closed' = TRUE /\ idle' = << >>
      /\ batch' = { idle[i] : i \in DOMAIN idle }
      /\ UNCHANGED << token, inst, runs, big, user, pc, held, fpc, fheld, starved, crashed >>
  BY DEF Close, worker
<1>2. DOMAIN idle' = {}
  BY <1>1
<1>3. batch' \in SUBSET Worker
  BY <1>1 DEF IInv, TypeOK
<1>4. TypeOK' /\ ClientHolds' /\ FillerHolds' /\ ClosedEmpty'
  BY <1>1, <1>3 DEF IInv, TypeOK, ClientHolds, FillerHolds, ClosedEmpty
<1>5. Exclusive' /\ HeldExist' /\ IdleClean'
  BY <1>1, <1>2 DEF IInv, Exclusive, InIdle, HeldExist, IdleClean
<1>6. HeldServable' /\ OwnState' /\ RunsBounded'
  BY <1>1 DEF IInv, HeldServable, Servable, healthy, OwnState, RunsBounded
<1>7. QED BY <1>4, <1>5, <1>6 DEF IInv

\* CloseWorker preserves the invariant.
LEMMA StepCloseWorker ==
  ASSUME IInv, CloseWorker
  PROVE  IInv'
<1>1. PICK x \in batch : close(x) /\ batch' = batch \ {x}
  BY DEF CloseWorker
<1>2. UNCHANGED << idle, closed, token, pc, held, fpc, fheld, starved, crashed >>
  BY DEF CloseWorker
<1>3. x \in Worker
  BY DEF IInv, TypeOK
<1>4. Becomes(x, "absent")
  BY <1>1, <1>3, BecomeFacts DEF close, IInv
<1>5. TypeOK' /\ ClientHolds' /\ FillerHolds' /\ ClosedEmpty'
  BY <1>1, <1>2, <1>4 DEF IInv, TypeOK, Becomes, ClientHolds, FillerHolds, ClosedEmpty
<1>6. /\ \A i \in DOMAIN idle : idle[i] \in Worker \ {x}
      /\ \A d \in Client : held[d] # NoWorker => held[d] \in Worker \ {x}
      /\ fheld # NoWorker => fheld \in Worker \ {x}
  BY <1>3 DEF IInv, TypeOK, Exclusive
<1>7. Exclusive'
  BY <1>1, <1>2 DEF IInv, Exclusive, InIdle
<1>8. HeldExist' /\ IdleClean'
  BY <1>1, <1>2, <1>4, <1>6 DEF IInv, TypeOK, HeldExist, IdleClean, healthy, MaxRuns, Becomes
<1>9. HeldServable' /\ OwnState'
  BY <1>2, <1>4, <1>6 DEF IInv, HeldServable, Servable, healthy, MaxRuns, OwnState, ClientHolds, Becomes
<1>10. RunsBounded'
  BY <1>4, MaxRunsPositive DEF IInv, RunsBounded, Becomes
<1>11. QED BY <1>5, <1>7, <1>8, <1>9, <1>10 DEF IInv

(***************************************************************************)
(* The invariant, and what follows from it                                 *)
(***************************************************************************)

\* A new pool satisfies the invariant.
LEMMA InitIInv ==
  ASSUME Init
  PROVE  IInv
<1> USE PoolAssumption DEF Init
<1>1. DOMAIN idle = {} /\ idle \in Seq(Worker)
  OBVIOUS
<1>2. TypeOK /\ ClientHolds /\ FillerHolds /\ ClosedEmpty
  BY <1>1 DEF TypeOK, ClientHolds, FillerHolds, ClosedEmpty
<1>3. Exclusive /\ HeldExist /\ IdleClean
  BY <1>1 DEF Exclusive, HeldExist, IdleClean
<1>4. HeldServable /\ OwnState /\ RunsBounded
  BY MaxRunsPositive DEF HeldServable, OwnState, RunsBounded
<1>5. QED BY <1>2, <1>3, <1>4 DEF IInv

\* Every step preserves the invariant.
LEMMA NextIInv ==
  ASSUME IInv, [Next]_vars
  PROVE  IInv'
<1>1. CASE UNCHANGED vars
  <2>1. TypeOK' /\ ClientHolds' /\ FillerHolds' /\ ClosedEmpty'
    BY <1>1 DEF IInv, vars, TypeOK, ClientHolds, FillerHolds, ClosedEmpty
  <2>2. Exclusive' /\ HeldExist' /\ IdleClean'
    BY <1>1 DEF IInv, vars, Exclusive, InIdle, HeldExist, IdleClean, healthy
  <2>3. HeldServable' /\ OwnState' /\ RunsBounded'
    BY <1>1 DEF IInv, vars, HeldServable, Servable, healthy, OwnState, RunsBounded
  <2>4. QED BY <2>1, <2>2, <2>3 DEF IInv
<1>2. CASE \E c \in Client : \/ CheckoutPop(c) \/ RunCode(c) \/ ReleaseReset(c)
                             \/ ClientStep(c)
  BY <1>2, StepCheckoutPop, StepCheckoutKick, StepCheckoutBuild, StepCheckoutConfigure,
     StepRunCode, StepReleaseReset, StepReleasePark, StepReleaseDiscard, StepReleaseKick
     DEF ClientStep
<1>3. CASE FillerStep
  BY <1>3, StepFillerIdles, StepFillerBuild, StepFillerWarm, StepFillerPark DEF FillerStep
<1>4. CASE Close \/ CloseWorker
  BY <1>4, StepClose, StepCloseWorker
<1>5. QED BY <1>1, <1>2, <1>3, <1>4 DEF Next

\* The inductive invariant holds in every state of every pool.
THEOREM Invariance == Spec => []IInv
  BY InitIInv, NextIInv, PTL DEF Spec

\* The variables keep their types.
THEOREM TypeCorrect == Spec => []TypeOK
<1>1. IInv => TypeOK
  BY DEF IInv
<1>2. QED BY <1>1, Invariance, PTL

\* A worker is in one place only, however checkouts, closes, the filler and
\* Pool.Close interleave.
THEOREM OneOwner == Spec => []Exclusive
<1>1. IInv => Exclusive
  BY DEF IInv
<1>2. QED BY <1>1, Invariance, PTL

\* No goroutine has a closed instance in its hands.
THEOREM NeverUsedAfterClose == Spec => []HeldExist
<1>1. IInv => HeldExist
  BY DEF IInv
<1>2. QED BY <1>1, Invariance, PTL

\* What Checkout takes from the idle set can serve a session and holds nothing
\* of an earlier one.
THEOREM IdleWorkersServe == Spec => []IdleClean
<1>1. IInv => IdleClean
  BY DEF IInv
<1>2. QED BY <1>1, Invariance, PTL

\* The child a session runs on holds that session's state.
THEOREM SessionsOwnTheirState == Spec => []OwnState
<1>1. IInv => OwnState
  BY DEF IInv
<1>2. QED BY <1>1, Invariance, PTL

\* No worker is configured for more than MaxRuns sessions.
THEOREM AgeIsBounded == Spec => []RunsBounded
<1>1. IInv => RunsBounded
  BY DEF IInv
<1>2. QED BY <1>1, Invariance, PTL

(***************************************************************************)
(* The idle set and its kicks                                              *)
(***************************************************************************)

\* While the filler has a worker on the way the idle set is at most full.
Room == fpc \in {"build", "warm", "park"} => Len(idle) <= Idle

\* The idle set grows by release while it is short, and by the one worker the
\* filler has on the way.
LEMMA NextIdleBound ==
  ASSUME IInv, IdleBound, Room, [Next]_vars
  PROVE  IdleBound' /\ Room'
<1> USE PoolAssumption
<1>1. idle \in Seq(Worker) /\ Len(idle) \in Nat
  BY DEF IInv, TypeOK
<1>2. CASE UNCHANGED << idle, fpc >>
  BY <1>2 DEF IdleBound, Room
<1>3. ASSUME NEW c \in Client, CheckoutPop(c)
      PROVE  Len(idle') <= Len(idle) /\ Len(idle') \in Nat /\ fpc' = fpc
  <2>1. CASE idle = << >>
    BY <1>1, <1>3, <2>1 DEF CheckoutPop
  <2>2. CASE idle # << >>
    <3>1. idle' = SubSeq(idle, 1, Len(idle) - 1) /\ fpc' = fpc
      BY <1>3, <2>2 DEF CheckoutPop
    <3>2. QED BY <1>1, <2>2, <3>1, FrontFacts
  <2>3. QED BY <2>1, <2>2
<1>4. ASSUME NEW c \in Client, ReleasePark(c)
      PROVE  fpc' = fpc /\ (idle' = idle \/ Len(idle') <= Idle)
  <2>1. held[c] \in Worker
    BY <1>4 DEF ReleasePark, at, IInv, TypeOK, ClientHolds
  <2>2. CASE ~closed /\ Len(idle) < Idle
    BY <1>1, <1>4, <2>1, <2>2 DEF ReleasePark
  <2>3. QED BY <1>4, <2>2 DEF ReleasePark
<1>5. ASSUME FillerPark
      PROVE  fpc = "park" /\ fpc' \in {"wait", "check"} /\ (idle' = idle \/ Len(idle') = Len(idle) + 1)
  BY <1>1, <1>5 DEF FillerPark, fillerAt
<1>6. ASSUME Close
      PROVE  Len(idle') = 0
  BY <1>6 DEF Close
<1>7. ASSUME FillerWake \/ FillerExit \/ FillerCheck \/ FillerBuild \/ FillerWarm
      PROVE  idle' = idle /\ (fpc' \in {"build", "warm", "park"} => Len(idle) < Idle \/ fpc \in {"build", "warm", "park"})
  BY <1>7 DEF FillerWake, FillerExit, FillerCheck, FillerBuild, FillerWarm, fillerAt
<1>8. CASE \E c \in Client : CheckoutPop(c) \/ ReleasePark(c)
  BY <1>1, <1>3, <1>4, <1>8 DEF IdleBound, Room
<1>9. CASE FillerStep
  BY <1>1, <1>5, <1>7, <1>9 DEF FillerStep, IdleBound, Room
<1>10. CASE Close
  BY <1>6, <1>10 DEF IdleBound, Room
<1>11. CASE CloseWorker \/ \E c \in Client : \/ CheckoutKick(c) \/ CheckoutBuild(c)
              \/ CheckoutConfigure(c) \/ RunCode(c) \/ ReleaseReset(c)
              \/ ReleaseDiscard(c) \/ ReleaseKick(c)
  <2>1. UNCHANGED << idle, fpc >>
    BY <1>11 DEF CloseWorker, CheckoutKick, CheckoutBuild, CheckoutConfigure, RunCode,
       ReleaseReset, ReleaseDiscard, ReleaseKick
  <2>2. QED BY <1>2, <2>1
<1>12. QED BY <1>2, <1>8, <1>9, <1>10, <1>11 DEF Next, ClientStep, vars

\* The idle set never overshoots Options.Idle by more than one worker.
THEOREM IdleNeverOverflows == Spec => []IdleBound
<1>1. Init => IdleBound /\ Room
  BY PoolAssumption DEF Init, IdleBound, Room
<1>2. QED BY <1>1, NextIdleBound, Invariance, PTL DEF Spec

\* Whoever makes the idle set short kicks, and the filler does not go to sleep
\* on a short idle set.
LEMMA NextNoLostKick ==
  ASSUME IInv, NoLostKick, [Next]_vars
  PROVE  NoLostKick'
<1>1. idle \in Seq(Worker) /\ Len(idle) \in Nat /\ Idle \in Nat
  BY PoolAssumption DEF IInv, TypeOK
<1>2. CASE UNCHANGED << idle, closed, token, fpc, starved, pc >>
  BY <1>2 DEF NoLostKick
<1>3. ASSUME NEW c \in Client, CheckoutPop(c)
      PROVE  pc'[c] = "popped"
  BY <1>3 DEF CheckoutPop, IInv, TypeOK
<1>4. ASSUME NEW c \in Client, CheckoutKick(c) \/ ReleaseKick(c)
      PROVE  token' \/ closed'
  BY <1>4 DEF CheckoutKick, ReleaseKick, kick
<1>6. ASSUME NEW c \in Client, \/ CheckoutBuild(c) \/ CheckoutConfigure(c) \/ RunCode(c)
                               \/ ReleaseReset(c) \/ ReleaseDiscard(c)
      PROVE  /\ pc[c] # "popped" /\ \A d \in Client \ {c} : pc'[d] = pc[d]
             /\ UNCHANGED << idle, closed, token, fpc, starved >>
  BY <1>6 DEF CheckoutBuild, CheckoutConfigure, RunCode, ReleaseReset, ReleaseDiscard, at, IInv, TypeOK
<1>7. ASSUME NEW c \in Client, ReleasePark(c)
      PROVE  NoLostKick'
  <2>1. /\ pc[c] = "park" /\ \A d \in Client \ {c} : pc'[d] = pc[d]
        /\ UNCHANGED << closed, token, fpc, starved >>
    BY <1>7 DEF ReleasePark, at, IInv, TypeOK
  <2>2. held[c] \in Worker
    BY <1>7 DEF ReleasePark, at, IInv, TypeOK, ClientHolds
  <2>3. closed \/ Len(idle') >= Idle \/ Len(idle) < Idle
    <3>1. CASE ~closed /\ Len(idle) < Idle
      BY <3>1
    <3>2. CASE closed \/ ~(Len(idle) < Idle)
      BY <1>1, <1>7, <3>2 DEF ReleasePark
    <3>3. QED BY <3>1, <3>2
  <2>4. Len(idle') \in Nat
    BY <1>7, StepReleasePark DEF IInv, TypeOK
  <2>5. QED BY <1>1, <2>1, <2>3, <2>4 DEF NoLostKick
<1>8. CASE \E c \in Client : \/ CheckoutPop(c) \/ CheckoutKick(c) \/ ReleaseKick(c)
  BY <1>3, <1>4, <1>8 DEF NoLostKick
<1>9. CASE \E c \in Client : \/ CheckoutBuild(c) \/ CheckoutConfigure(c) \/ RunCode(c)
                             \/ ReleaseReset(c) \/ ReleaseDiscard(c)
  BY <1>6, <1>9 DEF NoLostKick
<1>10. CASE FillerWake
  BY <1>10 DEF FillerWake, NoLostKick
<1>11. CASE FillerExit \/ FillerBuild \/ FillerWarm
  BY <1>11 DEF FillerExit, FillerBuild, FillerWarm, NoLostKick
<1>12. CASE FillerCheck
  BY <1>12 DEF FillerCheck, NoLostKick
<1>13. CASE FillerPark
  BY <1>13 DEF FillerPark, NoLostKick
<1>14. CASE Close
  BY <1>14 DEF Close, NoLostKick
<1>15. CASE CloseWorker
  BY <1>2, <1>15 DEF CloseWorker
<1>16. QED BY <1>2, <1>7, <1>8, <1>9, <1>10, <1>11, <1>12, <1>13, <1>14, <1>15
           DEF Next, ClientStep, FillerStep, vars

\* No wakeup of the filler is lost.
THEOREM NoWakeupLost == Spec => []NoLostKick
<1>1. Init => NoLostKick
  BY DEF Init, NoLostKick
<1>2. QED BY <1>1, NextNoLostKick, Invariance, PTL DEF Spec

(***************************************************************************)
(* No instance is lost                                                     *)
(***************************************************************************)

\* Only Close fills the batch, and only once.
BatchEmpty == ~closed => batch = {}

\* The batch is empty until Close.
LEMMA NextBatchEmpty ==
  ASSUME BatchEmpty, [Next]_vars
  PROVE  BatchEmpty'
<1>1. (closed' = closed /\ batch' \in {batch, {}}) \/ closed' = TRUE \/ (closed' = closed /\ batch' \subseteq batch)
  BY DEF Next, vars, ClientStep, FillerStep, CheckoutPop, CheckoutKick, CheckoutBuild,
     CheckoutConfigure, RunCode, ReleaseReset, ReleasePark, ReleaseDiscard, ReleaseKick,
     FillerWake, FillerExit, FillerCheck, FillerBuild, FillerWarm, FillerPark, Close, CloseWorker
<1>2. QED BY <1>1 DEF BatchEmpty

\* Somebody still has the worker.
Placed(x) ==
  \/ InIdle(x)
  \/ \E c \in Client : held[c] = x
  \/ fheld = x
  \/ x \in batch

\* Whoever lets go of an instance passes it on or closes it.
LEMMA NextNoOrphan ==
  ASSUME IInv, NoOrphan, BatchEmpty, [Next]_vars
  PROVE  NoOrphan'
<1>1. SUFFICES ASSUME NEW x \in Worker, inst'[x] # "absent"
               PROVE  Placed(x)'
  BY DEF NoOrphan, Placed
<1>2. inst[x] # "absent" => Placed(x)
  BY DEF NoOrphan, Placed
<1>3. CASE UNCHANGED << idle, held, fheld, batch >> /\ inst[x] # "absent"
  BY <1>2, <1>3 DEF Placed, InIdle
<1>4. ASSUME NEW c \in Client, CheckoutPop(c)
      PROVE  Placed(x)'
  <2>1. /\ inst[x] # "absent" /\ held[c] = NoWorker
        /\ UNCHANGED << fheld, batch >>
    BY <1>1, <1>4 DEF CheckoutPop, worker, at, IInv, ClientHolds
  <2>2. CASE idle = << >>
    <3>1. UNCHANGED << idle, held >>
      BY <1>4, <2>1, <2>2 DEF CheckoutPop, IInv, TypeOK
    <3>2. QED BY <1>3, <2>1, <3>1
  <2>3. CASE idle # << >>
    <3>1. /\ idle' = SubSeq(idle, 1, Len(idle) - 1)
          /\ held' = [held EXCEPT ![c] = idle[Len(idle)]]
          /\ idle \in Seq(Worker)
      BY <1>4, <2>3 DEF CheckoutPop, IInv, TypeOK
    <3>2. \A i \in DOMAIN idle : i = Len(idle) \/ (i \in DOMAIN idle' /\ idle'[i] = idle[i])
      BY <2>3, <3>1, FrontFacts
    <3>3. held'[c] = idle[Len(idle)] /\ \A d \in Client \ {c} : held'[d] = held[d]
      BY <3>1 DEF IInv, TypeOK
    <3>4. CASE InIdle(x)
      <4>1. PICK i \in DOMAIN idle : idle[i] = x
        BY <3>4 DEF InIdle
      <4>2. QED BY <3>2, <3>3, <4>1 DEF Placed, InIdle
    <3>5. CASE \E d \in Client : held[d] = x
      BY <1>1, <2>1, <3>3, <3>5, PoolAssumption DEF Placed
    <3>6. CASE fheld = x \/ x \in batch
      BY <2>1, <3>6 DEF Placed
    <3>7. QED BY <1>2, <2>1, <3>4, <3>5, <3>6 DEF Placed
  <2>4. QED BY <2>2, <2>3
<1>5. ASSUME NEW c \in Client, CheckoutBuild(c)
      PROVE  Placed(x)'
  <2>1. UNCHANGED << idle, fheld, batch >> /\ held[c] = NoWorker
    BY <1>5 DEF CheckoutBuild, at, IInv, ClientHolds
  <2>2. CASE \E y \in Worker : newWorker(y) /\ held' = [held EXCEPT ![c] = y]
    <3>1. PICK y \in Worker : newWorker(y) /\ held' = [held EXCEPT ![c] = y]
      BY <2>2
    <3>2. /\ held'[c] = y /\ \A d \in Client \ {c} : held'[d] = held[d]
          /\ x # y => inst'[x] = inst[x]
      BY <3>1 DEF IInv, TypeOK, newWorker, become
    <3>3. QED BY <1>1, <1>2, <2>1, <3>2, PoolAssumption DEF Placed, InIdle
  <2>3. CASE UNCHANGED << inst, held >>
    BY <1>1, <1>3, <2>1, <2>3
  <2>4. QED BY <1>5, <2>2, <2>3 DEF CheckoutBuild, worker
<1>6. ASSUME NEW c \in Client, held[c] \in Worker, close(held[c]),
             held' = [held EXCEPT ![c] = NoWorker], UNCHANGED << idle, fheld, batch >>
      PROVE  Placed(x)'
  <2>1. x # held[c] /\ inst[x] # "absent"
    BY <1>1, <1>6 DEF close, become, IInv, TypeOK
  <2>2. \A d \in Client \ {c} : held'[d] = held[d]
    BY <1>6 DEF IInv, TypeOK
  <2>3. QED BY <1>2, <1>6, <2>1, <2>2 DEF Placed, InIdle
<1>7. ASSUME NEW c \in Client, CheckoutConfigure(c) \/ ReleaseDiscard(c)
      PROVE  Placed(x)'
  <2>1. held[c] \in Worker /\ UNCHANGED << idle, fheld, batch >>
    BY <1>7 DEF CheckoutConfigure, ReleaseDiscard, at, IInv, TypeOK, ClientHolds
  <2>2. \/ close(held[c]) /\ held' = [held EXCEPT ![c] = NoWorker]
        \/ UNCHANGED << inst, held >>
    BY <1>7 DEF CheckoutConfigure, ReleaseDiscard
  <2>3. QED BY <1>1, <1>3, <1>6, <2>1, <2>2
<1>8. ASSUME NEW c \in Client, ReleasePark(c)
      PROVE  Placed(x)'
  <2>1. /\ inst[x] # "absent" /\ UNCHANGED << fheld, batch >>
        /\ idle \in Seq(Worker) /\ held[c] \in Worker
    BY <1>1, <1>8 DEF ReleasePark, worker, at, IInv, TypeOK, ClientHolds
  <2>2. CASE idle' = Append(idle, held[c]) /\ held' = [held EXCEPT ![c] = NoWorker]
    <3>1. /\ \A i \in DOMAIN idle : i \in DOMAIN idle' /\ idle'[i] = idle[i]
          /\ Len(idle) + 1 \in DOMAIN idle' /\ idle'[Len(idle) + 1] = held[c]
      BY <2>1, <2>2, AppendFacts
    <3>2. \A d \in Client \ {c} : held'[d] = held[d]
      BY <2>2 DEF IInv, TypeOK
    <3>3. QED BY <1>2, <2>1, <3>1, <3>2 DEF Placed, InIdle
  <2>3. CASE UNCHANGED << idle, held >>
    BY <1>3, <2>1, <2>3
  <2>4. QED BY <1>8, <2>2, <2>3 DEF ReleasePark
<1>9. CASE FillerBuild
  <2>1. UNCHANGED << idle, held, batch >> /\ fheld = NoWorker
    BY <1>9 DEF FillerBuild, fillerAt, IInv, FillerHolds
  <2>2. CASE \E y \in Worker : newWorker(y) /\ fheld' = y
    <3>1. PICK y \in Worker : newWorker(y) /\ fheld' = y
      BY <2>2
    <3>2. x # y => inst'[x] = inst[x]
      BY <3>1 DEF IInv, TypeOK, newWorker, become
    <3>3. QED BY <1>1, <1>2, <2>1, <3>1, <3>2, PoolAssumption DEF Placed, InIdle
  <2>3. CASE UNCHANGED << inst, fheld >>
    BY <1>1, <1>3, <2>1, <2>3
  <2>4. QED BY <1>9, <2>2, <2>3 DEF FillerBuild, worker
<1>10. CASE FillerWarm \/ FillerPark
  <2>1. UNCHANGED << held, batch >> /\ fheld \in Worker
    BY <1>10 DEF FillerWarm, FillerPark, fillerAt, IInv, TypeOK, FillerHolds
  <2>2. CASE close(fheld) /\ fheld' = NoWorker /\ idle' = idle
    <3>1. x # fheld /\ inst[x] # "absent"
      BY <1>1, <2>1, <2>2 DEF close, become, IInv, TypeOK
    <3>2. QED BY <1>2, <2>1, <2>2, <3>1 DEF Placed, InIdle
  <2>3. CASE UNCHANGED << inst, fheld, idle >>
    BY <1>1, <1>3, <2>1, <2>3
  <2>4. CASE idle' = Append(idle, fheld) /\ inst' = inst
    <3>1. idle \in Seq(Worker)
      BY DEF IInv, TypeOK
    <3>2. /\ \A i \in DOMAIN idle : i \in DOMAIN idle' /\ idle'[i] = idle[i]
          /\ Len(idle) + 1 \in DOMAIN idle' /\ idle'[Len(idle) + 1] = fheld
      BY <2>1, <2>4, <3>1, AppendFacts
    <3>3. QED BY <1>1, <1>2, <2>1, <2>4, <3>2 DEF Placed, InIdle
  <2>5. QED BY <1>10, <2>2, <2>3, <2>4 DEF FillerWarm, FillerPark, worker
<1>11. CASE Close
  <2>1. /\ inst[x] # "absent" /\ UNCHANGED << held, fheld >>
        /\ batch' = { idle[i] : i \in DOMAIN idle } /\ ~closed
    BY <1>1, <1>11 DEF Close, worker
  <2>2. batch = {}
    BY <2>1 DEF BatchEmpty
  <2>3. QED BY <1>2, <2>1, <2>2 DEF Placed, InIdle
<1>12. CASE CloseWorker
  <2>1. PICK y \in batch : close(y) /\ batch' = batch \ {y}
    BY <1>12 DEF CloseWorker
  <2>2. UNCHANGED << idle, held, fheld >> /\ y \in Worker
    BY <1>12, <2>1 DEF CloseWorker, IInv, TypeOK
  <2>3. x # y /\ inst[x] # "absent"
    BY <1>1, <2>1, <2>2 DEF close, become, IInv, TypeOK
  <2>4. QED BY <1>2, <2>1, <2>2, <2>3 DEF Placed, InIdle
<1>13. ASSUME \/ FillerWake \/ FillerExit \/ FillerCheck \/ UNCHANGED vars
              \/ \E c \in Client : CheckoutKick(c) \/ ReleaseKick(c) \/ ReleaseReset(c) \/ RunCode(c)
       PROVE  Placed(x)'
  <2>1. UNCHANGED << idle, held, fheld, batch >>
    BY <1>13 DEF FillerWake, FillerExit, FillerCheck, vars, CheckoutKick, ReleaseKick, ReleaseReset, RunCode
  <2>2. inst[x] # "absent"
    <3>1. CASE \E c \in Client : ReleaseReset(c) \/ RunCode(c)
      <4>1. PICK c \in Client : ReleaseReset(c) \/ RunCode(c)
        BY <3>1
      <4>2. inst[held[c]] # "absent" /\ held[c] \in Worker
        BY <4>1 DEF ReleaseReset, RunCode, at, IInv, TypeOK, ClientHolds, HeldExist
      <4>3. inst' = inst \/ inst' = [inst EXCEPT ![held[c]] = "dead"]
        BY <4>1 DEF ReleaseReset, RunCode, die, worker
      <4>4. QED BY <1>1, <4>2, <4>3 DEF IInv, TypeOK
    <3>2. CASE inst' = inst
      BY <1>1, <3>2
    <3>3. QED BY <1>13, <3>1, <3>2
             DEF FillerWake, FillerExit, FillerCheck, vars, worker, CheckoutKick, ReleaseKick
  <2>3. QED BY <1>3, <2>1, <2>2
<1>14. QED BY <1>4, <1>5, <1>7, <1>8, <1>9, <1>10, <1>11, <1>12, <1>13
           DEF Next, ClientStep, FillerStep

\* Every instance that was built and not closed can still be reached.
THEOREM NothingIsLost == Spec => []NoOrphan
<1>1. Init => NoOrphan /\ BatchEmpty
  BY DEF Init, NoOrphan, BatchEmpty
<1>2. QED BY <1>1, NextNoOrphan, NextBatchEmpty, Invariance, PTL DEF Spec

(***************************************************************************)
(* The Pool implements Lease                                               *)
(***************************************************************************)

\* No open session changes, nor what a child holds.
LEMMA LeaseSame ==
  ASSUME user' = user,
         \A c \in Client : /\ pc'[c] = "using" <=> pc[c] = "using"
                           /\ pc[c] = "using" => held'[c] = held[c]
  PROVE  UNCHANGED << sessionOn, holding >>
<1>1. holding' = holding
  BY DEF holding
<1>2. sessionOn' = sessionOn
  BY DEF sessionOn
<1>3. QED BY <1>1, <1>2

\* A worker nobody runs a session on is built or closed.
LEMMA LeaseWiped ==
  ASSUME IInv, NEW x \in Worker, NEW state, Becomes(x, state),
         \A c \in Client : /\ pc'[c] = "using" <=> pc[c] = "using"
                           /\ pc[c] = "using" => held'[c] = held[c] /\ held[c] # x
  PROVE  Promise!Wipe(x)
<1>1. holding' = holding \ {x}
  BY DEF holding, Becomes
<1>2. sessionOn' = sessionOn
  BY DEF sessionOn
<1>3. \A c \in Client : sessionOn[c] # x
  BY PoolAssumption DEF sessionOn
<1>4. QED BY <1>1, <1>2, <1>3 DEF Promise!Wipe, Promise!Leased

\* Every step of the pool is a step of Lease or leaves the leases alone.
LEMMA NextLease ==
  ASSUME IInv, [Next]_vars
  PROVE  [Promise!LeaseNext]_(Promise!leaseVars)
<1>1. ASSUME NEW c \in Client, CheckoutConfigure(c)
      PROVE  Promise!LeaseNext
  <2> DEFINE x == held[c]
  <2>1. /\ pc[c] = "configure" /\ x \in Worker
        /\ \A d \in Client \ {c} : pc[d] = "using" => held[d] # x /\ held[d] \in Worker
    BY <1>1 DEF CheckoutConfigure, at, IInv, TypeOK, ClientHolds, Exclusive
  <2>2. CASE /\ user[x] = NoClient
             /\ user' = [user EXCEPT ![x] = c]
             /\ pc' = [pc EXCEPT ![c] = "using"]
             /\ held' = held
    <3>1. sessionOn' = [sessionOn EXCEPT ![c] = x]
      BY <2>1, <2>2 DEF sessionOn, IInv, TypeOK
    <3>2. holding' = holding \cup {x}
      BY <2>1, <2>2, PoolAssumption DEF holding, IInv, TypeOK
    <3>3. /\ sessionOn[c] = NoWorker
          /\ x \in Worker \ holding
          /\ \A d \in Client : sessionOn[d] # x
      BY <2>1, <2>2, PoolAssumption DEF sessionOn, holding
    <3>4. Promise!Grant(c)
      BY <3>1, <3>2, <3>3 DEF Promise!Grant, Promise!Leased
    <3>5. QED BY <3>4 DEF Promise!LeaseNext
  <2>3. CASE /\ close(x)
             /\ pc' = [pc EXCEPT ![c] = "rest"]
             /\ held' = [held EXCEPT ![c] = NoWorker]
    <3>1. Becomes(x, "absent")
      BY <2>1, <2>3, BecomeFacts DEF close, IInv
    <3>2. \A d \in Client : /\ pc'[d] = "using" <=> pc[d] = "using"
                            /\ pc[d] = "using" => held'[d] = held[d] /\ held[d] # x
      BY <2>1, <2>3 DEF IInv, TypeOK
    <3>3. QED BY <2>1, <3>1, <3>2, LeaseWiped DEF Promise!LeaseNext
  <2>4. QED BY <1>1, <2>2, <2>3 DEF CheckoutConfigure
<1>2. ASSUME NEW c \in Client, ReleaseReset(c)
      PROVE  Promise!LeaseNext
  <2> DEFINE x == held[c]
  <2>1. /\ pc[c] = "using" /\ x \in Worker /\ x # NoWorker /\ held' = held
        /\ \E label \in {"park", "discard"} : pc' = [pc EXCEPT ![c] = label]
        /\ user' = user \/ user' = [user EXCEPT ![x] = NoClient]
    BY <1>2 DEF ReleaseReset, die, worker, at, IInv, TypeOK, ClientHolds
  <2>2. sessionOn' = [sessionOn EXCEPT ![c] = NoWorker] /\ sessionOn[c] = x
    BY <2>1 DEF sessionOn, IInv, TypeOK
  <2>3. holding' = holding \/ holding' = holding \ {x}
    BY <2>1 DEF holding, IInv, TypeOK
  <2>4. Promise!Return(c)
    BY <2>1, <2>2, <2>3 DEF Promise!Return
  <2>5. QED BY <2>4 DEF Promise!LeaseNext
<1>3. ASSUME NEW c \in Client, ReleaseDiscard(c)
      PROVE  Promise!LeaseNext
  <2> DEFINE x == held[c]
  <2>1. /\ pc[c] = "discard" /\ x \in Worker /\ close(x)
        /\ pc' = [pc EXCEPT ![c] = "kick"]
        /\ held' = [held EXCEPT ![c] = NoWorker]
        /\ \A d \in Client \ {c} : held[d] # x
    BY <1>3 DEF ReleaseDiscard, at, IInv, TypeOK, ClientHolds, Exclusive
  <2>2. Becomes(x, "absent")
    BY <2>1, BecomeFacts DEF close, IInv
  <2>3. \A d \in Client : /\ pc'[d] = "using" <=> pc[d] = "using"
                          /\ pc[d] = "using" => held'[d] = held[d] /\ held[d] # x
    BY <2>1 DEF IInv, TypeOK
  <2>4. QED BY <2>1, <2>2, <2>3, LeaseWiped DEF Promise!LeaseNext
<1>4. ASSUME NEW c \in Client, CheckoutBuild(c)
      PROVE  Promise!LeaseNext \/ UNCHANGED << sessionOn, holding >>
  <2>1. CASE \E y \in Worker : newWorker(y) /\ held' = [held EXCEPT ![c] = y]
                               /\ pc' = [pc EXCEPT ![c] = "configure"]
    <3>1. PICK y \in Worker : newWorker(y) /\ held' = [held EXCEPT ![c] = y]
                              /\ pc' = [pc EXCEPT ![c] = "configure"]
      BY <2>1
    <3>2. Becomes(y, "live") /\ inst[y] = "absent"
      BY <3>1, BecomeFacts DEF newWorker, IInv
    <3>3. \A d \in Client : /\ pc'[d] = "using" <=> pc[d] = "using"
                            /\ pc[d] = "using" => held'[d] = held[d] /\ held[d] # y
      BY <1>4, <3>1, <3>2 DEF CheckoutBuild, at, IInv, TypeOK, HeldExist, ClientHolds
    <3>4. QED BY <3>2, <3>3, LeaseWiped DEF Promise!LeaseNext
  <2>2. CASE user' = user /\ held' = held /\ pc' = [pc EXCEPT ![c] = "rest"]
    <3>1. pc[c] = "build"
      BY <1>4 DEF CheckoutBuild, at
    <3>2. QED BY <2>2, <3>1, LeaseSame DEF IInv, TypeOK
  <2>3. QED BY <1>4, <2>1, <2>2 DEF CheckoutBuild, worker
<1>5. ASSUME FillerBuild \/ FillerWarm \/ FillerPark
      PROVE  Promise!LeaseNext \/ UNCHANGED << sessionOn, holding >>
  <2>1. UNCHANGED << pc, held >>
    BY <1>5 DEF FillerBuild, FillerWarm, FillerPark
  <2>2. CASE \E y \in Worker : newWorker(y)
    <3>1. PICK y \in Worker : newWorker(y)
      BY <2>2
    <3>2. Becomes(y, "live") /\ inst[y] = "absent"
      BY <3>1, BecomeFacts DEF newWorker, IInv
    <3>3. \A d \in Client : pc[d] = "using" => held[d] # y
      BY <3>2 DEF IInv, HeldExist, ClientHolds
    <3>4. QED BY <2>1, <3>2, <3>3, LeaseWiped DEF Promise!LeaseNext
  <2>3. CASE fheld \in Worker /\ close(fheld)
    <3>1. Becomes(fheld, "absent")
      BY <2>3, BecomeFacts DEF close, IInv
    <3>2. \A d \in Client : pc[d] = "using" => held[d] # fheld
      BY DEF IInv, Exclusive, ClientHolds
    <3>3. QED BY <2>1, <2>3, <3>1, <3>2, LeaseWiped DEF Promise!LeaseNext
  <2>4. CASE user' = user
    BY <2>1, <2>4, LeaseSame
  <2>5. QED BY <1>5, <2>2, <2>3, <2>4
            DEF FillerBuild, FillerWarm, FillerPark, fillerAt, worker, IInv, TypeOK, FillerHolds
<1>6. ASSUME CloseWorker
      PROVE  Promise!LeaseNext
  <2>1. PICK y \in batch : close(y) /\ UNCHANGED << pc, held >>
    BY <1>6 DEF CloseWorker
  <2>2. y \in Worker /\ \A d \in Client : pc[d] = "using" => held[d] # y
    BY DEF IInv, TypeOK, Exclusive, ClientHolds
  <2>3. Becomes(y, "absent")
    BY <2>1, <2>2, BecomeFacts DEF close, IInv
  <2>4. QED BY <2>1, <2>2, <2>3, LeaseWiped DEF Promise!LeaseNext
<1>7. ASSUME \E c \in Client : \/ CheckoutPop(c) \/ CheckoutKick(c) \/ RunCode(c)
                               \/ ReleasePark(c) \/ ReleaseKick(c)
      PROVE  UNCHANGED << sessionOn, holding >>
  <2>1. PICK c \in Client : \/ CheckoutPop(c) \/ CheckoutKick(c) \/ RunCode(c)
                            \/ ReleasePark(c) \/ ReleaseKick(c)
    BY <1>7
  <2>2. user' = user
    BY <2>1 DEF CheckoutPop, CheckoutKick, RunCode, die, ReleasePark, ReleaseKick, worker
  <2>3. \A d \in Client \ {c} : pc'[d] = pc[d] /\ held'[d] = held[d]
    BY <2>1 DEF CheckoutPop, CheckoutKick, RunCode, ReleasePark, ReleaseKick, IInv, TypeOK
  <2>4. \/ pc[c] # "using" /\ pc'[c] # "using"
        \/ pc' = pc /\ held' = held
    BY <2>1 DEF CheckoutPop, CheckoutKick, RunCode, ReleasePark, ReleaseKick, at, IInv, TypeOK
  <2>5. QED BY <2>2, <2>3, <2>4, LeaseSame
<1>8. ASSUME FillerWake \/ FillerExit \/ FillerCheck \/ Close \/ UNCHANGED vars
      PROVE  UNCHANGED << sessionOn, holding >>
  <2>1. UNCHANGED << user, pc, held >>
    BY <1>8 DEF FillerWake, FillerExit, FillerCheck, Close, vars, worker
  <2>2. QED BY <2>1, LeaseSame
<1>9. QED BY <1>1, <1>2, <1>3, <1>4, <1>5, <1>6, <1>7, <1>8
          DEF Next, ClientStep, FillerStep, Promise!leaseVars

\* A session has a clean worker of its own until it is closed.
THEOREM PoolImplementsLease == Spec => ImplementsLease
<1>1. Init => Promise!LeaseInit
  BY DEF Init, sessionOn, holding, Promise!LeaseInit
<1>2. QED BY <1>1, NextLease, Invariance, PTL DEF Spec, ImplementsLease, Promise!LeaseSpec
=============================================================================
