------------------------------- MODULE Lease -------------------------------
(***************************************************************************)
(* What a Pool promises its callers (pool.go): a session has a worker of   *)
(* its own for as long as it lasts, and the worker comes without anything  *)
(* of an earlier session.  Module Pool implements this specification.      *)
(***************************************************************************)
CONSTANTS Client, Worker, NoWorker

VARIABLES
  lease,   \* per client: the worker its session runs on, or NoWorker
  dirty    \* workers whose child holds the state of a session

leaseVars == << lease, dirty >>

Leased(x) == \E c \in Client : lease[c] = x

LeaseInit ==
  /\ lease = [c \in Client |-> NoWorker]
  /\ dirty = {}

\* Checkout
Grant(c) ==
  /\ lease[c] = NoWorker
  /\ \E x \in Worker \ dirty :
       /\ ~Leased(x)
       /\ lease' = [lease EXCEPT ![c] = x]
       /\ dirty' = dirty \cup {x}

\* release: a worker worth keeping is wiped at once, another when discarded.
Return(c) ==
  /\ lease[c] # NoWorker
  /\ lease' = [lease EXCEPT ![c] = NoWorker]
  /\ dirty' \in { dirty, dirty \ {lease[c]} }

\* The instance is closed.
Wipe(x) ==
  /\ ~Leased(x)
  /\ dirty' = dirty \ {x}
  /\ UNCHANGED lease

LeaseNext ==
  \/ \E c \in Client : Grant(c) \/ Return(c)
  \/ \E x \in Worker : Wipe(x)

LeaseSpec == LeaseInit /\ [][LeaseNext]_leaseVars
=============================================================================
