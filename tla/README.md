# go-monty in TLA+

go-monty runs Python code of untrusted origin in a sandbox: the Monty
interpreter, compiled to WebAssembly, inside a Go process. This directory models
the Go side of it: the part that keeps books (which worker belongs to whom, which
call the sandbox waits at, which goroutine still owes an answer, which object an id
stands for, which file the sandbox may see) and the part that converts what crosses
the boundary (values, errors, arguments and results of tools, OS calls). TLC checks
the models on small instances; TLAPS proves the pool, the session, the driver, the
host objects, the overlay filesystem, the calls of a mount, the routing of OS calls and
the numbers and times that cross correct for every instance.

Paths such as `session.go:523` are relative to the root of the repository.

## 1. The system

    caller ── Runtime ── newWorker ──────────────┐
      │                                          ▼
      ├── Pool ── Checkout / release ──►  worker (wasm instance, Monty child)
      │     └─ filler goroutine                  ▲  one request, one event: a turn
      ├── Session ── Start/Run/Feed ─────────────┤
      │     └─ pending Suspension ── Return, Raise, Decline, Defer, Settle
      │            ▲
      │     driver ┤ callbacks of RunOptions, in the caller's goroutine
      │            └ AsyncFunctions, one goroutine per call
      │            ├ objectStore: HostObject, HostClass by id
      │            └ tools.Registry: Go functions behind stubs
      └── OS calls ── Handlers ── FS mount ── WriteQuota ── Overlay ── MemFS, Base

    Whatever crosses to the child or back goes through the value codec and the
    error conversion.

| Component | State | Operations | Talks to | What is hard |
|---|---|---|---|---|
| Pool (`pool.go`) | idle list, closed, fill channel of capacity 1 | Checkout, release, Close, filler | worker, Session | lock given up between steps, wakeups, two closers |
| Worker (`worker.go`) | wasm module, `dead`, number of sessions | `send`: one turn | child | death in any turn, requests that do not encode |
| Session (`session.go`) | `pending`, count and limit of suspensions, clock, closed | NewSession, Restore, Start, Run, Continue, Dump, Reset, Close | worker, driver, Pool | host and child must agree on where the feed stands |
| Suspension (`session.go`) | kind, call id, done | Return, Raise, Decline, Defer, Settle, Resolve | Session | outlives its answer in the caller's hands |
| driver (`session.go`) | pending and settled calls, results channel, done channel | resolve, resolveCall, resolveFutures, close | Suspension, goroutines | outcomes in any order, cancellation, abandoned goroutines |
| Limits, budget (`session.go`) | part of Session | noteBudget, progress | child | counted on both sides |
| Overlay (`fs_extra.go`) | upper layer, whiteouts, opaque marks | the methods of a filesystem, Upper, Deleted | Base, MemFS | lookup, listing and deletion decided by two layers; Remove lets its lock go |
| MemFS (`fs.go`) | a map of names | Stat … Rename | | no lock; Rename changes the map it ranges over |
| Mount (`fs.go`), WriteQuota (`fs_extra.go`) | bytes written | HandleOSCall | filesystem | looks, then acts; several sandboxes share one mount |
| Handlers, Env, Clock, DirRoot (`fs.go`, `fs_extra.go`) | none | HandleOSCall | mounts | first mount that answers wins; one mount's name may begin another's |
| OS call projection (`oscall.go`) | none | osCallFromProto, encodeOSResult | Handlers | a codec without a store |
| Value codec (`value.go`) | none | encode, decode | child | overflow at bounds; four readings of a struct's tags |
| Errors (`errors.go`) | none | Error, Unwrap, raisedFromError, exceptionFromProto, fsError | everything | wrapped errors, errors with two faces |
| Host objects (`objects.go`, `value.go`) | id per class and object; entries and classes sent per session | ID, register, attribute and method calls | Session | ids assigned without a lock; a class noted as sent although the request is not |
| Runtime (`runtime.go`) | engine, compiled module, closed | NewRuntime, newWorker, Close | wazero | Close between the halves of newWorker; a failure half way through NewRuntime |
| Tools (`tools/`) | tools in order, names of classes | Add, AddAsync, Stubs, Options, bind, convert | Session | what the stub allows and what bind takes; numbers |
| CLI (`cmd/monty`), Rust shim, schema, wasm image, examples | | | | not modelled |

What makes each correct:

* **Pool**: an instance is in one place at a time; none leaks; an idle one serves
  (lives, empty, not too old); a session's worker holds that session's state; the
  idle set is topped up and never grows past its size by more than one; Close
  leaves nothing behind.
* **Session**: whenever a method has returned, host and child agree whether the
  feed is paused and where; only the pending suspension can be answered; the
  limit and the clock on the host are the child's.
* **driver**: it waits only for goroutines that will report, loses no outcome,
  delivers none twice, and leaves no goroutine behind.
* **Overlay**: it is a plain filesystem to the sandbox, whatever the layers; what
  changed can be read off `Upper` and `Deleted`.
* **Mount**: a call that nobody interferes with does all it promises or nothing;
  the quota is never overrun.
* **Runtime**: Close, and a NewRuntime that fails, leave no instance behind.
* **Host objects**: an id the sandbox holds reaches the object it was made for or
  nothing; what was noted as sent has arrived.
* **Codec and errors**: a value comes back as Python would compare it, or not at
  all; an exception keeps its type and message.
* **Tools**: what the stub allows is accepted, and arrives as it was, or as near to it as a
  float can be; what a tool
  returns is what its stub says.
* **Routing**: a path is served by the first mount it lies in, and by no other.

The hazards behind these properties, each at its line, are the list "hazards" in
`PROJECT.json`. Where a property leaves out a case, that case is a hazard of its own without a
property, and its note says why: mostly because the code does what the hazard
fears, and nothing in the repository says that it should not (section 6).

## 2. The modules

| Module | Lines of code it stands for | Role |
|---|---|---|
| `Worker` | `worker.go`, the requests of `session.go` | operators: what a turn may return |
| `Session` | `session.go` without the driver | state machine over `Worker` |
| `Driver` | `session.go:905-1130` and the methods that make a driver | state machine |
| `DriverProofs` | | theorems about `Driver` |
| `Pool` | `pool.go`, `newWorker` | state machine |
| `Lease` | comments of `pool.go` | abstract specification of a checkout |
| `PoolProofs` | | theorems about `Pool` |
| `Paths`, `MemFS` | `fs.go` | operators on names and on one tree |
| `Tree` | the interfaces `WriteFileFS` … `RenameFS` of `fs.go` | abstract specification: a plain filesystem |
| `Overlay` | `fs_extra.go` (Overlay) | state machine, implements `Tree` |
| `PathProofs`, `OverlayProofs` | | lemmas about names, theorems about `Overlay` |
| `Mount` | `fs.go` (FS.handle and below), WriteQuota | state machine on a `Tree` |
| `MountProofs` | | theorems about `Mount` |
| `Runtime` | `runtime.go` | actions, used by `Objects` |
| `Objects` | `objects.go`, the store and class encoding of `value.go`, `session.go` | state machine over `Runtime` |
| `ObjectsProofs` | | theorems about `Objects` |
| `Arithmetic` | `value.go`, `tools/tools.go`: numbers, Durations, dates | operators on numbers of constant width |
| `Values` | `value.go`, `types.go` | operators: encode, decode |
| `Tools` | `tools/tools.go` from bind on, pyType | operators: arguments and annotations of a tool |
| `Registry` | `tools/tools.go` up to Options | operators: registration, stubs, options |
| `Errors` | `errors.go`, `fsError` | operators: errors both ways |
| `OSCalls` | `oscall.go`, routing of `fs.go`, MemFS.Rename | state machine of an OS call |
| `HostCall` | the callbacks of `session.go` that answer a call | state machine of one call over the six above |
| `HostCallProofs` | | theorems about `Arithmetic`, `Values`, `Tools`, `OSCalls` and `HostCall` |
| `MCPool`, `MCOverlay`, `MCMount`, `MCObjects`, `MCHostCall` | | instances for TLC |

`Worker` and `Session` are composed (Session extends Worker), `Runtime` and `Objects`
likewise (a session that encodes owns the instance that `Runtime` made for it).
`HostCall` extends `Registry`, which extends `Tools`, `Values` and `Arithmetic`, and `OSCalls`, which
extends `Errors` and takes the steps of an OS call in between. `Pool` sees a session as one holder of a worker, `Driver`
sees a turn as a jump to the next suspension; what they leave out of a turn is what
`Session` has, and what an answer says is what `HostCall` has. `Mount` runs on the
atomic filesystem that `Overlay` is shown to be.

### How state and actions correspond to the code

**Worker.** A worker is a record: `dead`, the protocol child, and the history bit
`torn` (the child's session was sent a request it could not serve). `send` returns
the set of outcomes of one turn: refused because the worker is dead, not sent
because the request does not encode, the worker died, the child reported a fatal
error, or the terminal event with the child after it. The child is the upstream
interpreter. Its code is not in the repository: the states it can be in are read
from the requests the host makes, the events it classifies and the protocol file,
and are marked external in the map. Requests, prints and values are data.

**Session.** `Session.mu` is held from the first to the last line of every method,
so a method is one action, the turns it makes included: `progress` with the abort
of a suspension over the limit, `answer` with the abort that replaces an answer
that does not encode, `Reset` with the configure that follows. `Run` and `Continue`
run callbacks while they hold the lock: they set `running`, every answer of a
callback is a `Drive`, and other methods wait. `sus` is every Suspension the session
made, since callers may keep them all and try to answer them; `Restore` begins a
new list. A method that fails its checks changes nothing and is no action.

**Driver.** One variable per field of `driver`, indexed by the driver, since
goroutines of a method that has returned may still run. `gor[id]` is where the
goroutine of a call is: in the function, at its send on `results`, ended. The
unbuffered channel is a rendezvous (`Receive`), the closed `done` channel lets a
goroutine go (`Abandon`). `pc` separates the steps of `resolve` from the wait in
`select`. Cancellation may come at every wait. The module covers the order of
outcomes; the ways a turn fails are in `Session`.

**Pool.** One action per critical section or channel operation: Checkout takes a
worker, kicks, builds or configures; release resets, parks or discards, kicks; the
filler wakes, measures, builds, warms and parks; Close empties the list, closes the
channel and closes the workers one by one. `pc`, `held`, `fpc` and `fheld` are the
program counters and local variables; `token` is the content of the fill channel;
`starved` notes that the filler gave up on a build; `crashed` that a goroutine
panicked by sending on the closed channel, which ends the process. The refinement
maps `pc` and `held` to the lease of `Lease`, and the worker's `user` to the set of
workers that hold a session's state.

**Overlay.** Every method holds the lock and is one action. Remove of a directory is
three: find it, list it, remove it, with the lock free in between. `upper` is a
MemFS, `whiteout` and `opaque` the sets of the code; `stat`, `readFile`, `ReadDir`
follow the code, each by its own rule. Base never changes and is chosen at the
start. A file's content is a sequence of chunks.

**Mount.** A call of a sandbox is a job that goes through the steps of `FS.handle`:
stat, charge, write; stat, remove; the recursion of mkdir as the stack `names`; the
read and rewrite of an append where the filesystem has no AppendFile. `can` is the
set of optional interfaces the filesystem has (`ReadOnly` hides them all). Each
operation on the filesystem is atomic, as those of `Overlay` and of a real
directory are. `want` is a ghost: what the call would come to if nobody interfered;
any step of another job that changes the tree or the quota erases it. The quota is
reset only between runs, as its comment asks.

**Runtime and Objects.** `boot` walks through NewRuntime: each step may fail, and what
was made until then must be released. `newWorker` is two actions, since it reads
`closed` under the lock and instantiates without it. A class or object belongs to the
caller and may be passed to sessions in several goroutines; its id is assigned at
first use without a lock, so the encoding of one takes a step per use of the id:
find none, assign one and read it back, register, write it to the wire, add the
attributes, note the class as sent. `own` is a ghost: the thing that a uuid was made
for. `given` and `has` are what the sandbox got to know; `lost` and `foreign` tell why it
may not have something: the request was given up, or the sandbox comes from a dump;
`raced` are the things that got two ids.

**Arithmetic, Values, Errors, Tools, Registry.** These are functions of the code, and
operators here. A value is a tuple that begins with its kind; the kinds of Go and of
the wire that are the same share a name. The widths are constants: int64 ends at
MaxInt, a day has Seconds seconds, and so on, so that wrapping, division and the
edges of a Duration are met by small numbers. So is where floats stop being exact: float64 and
float32 are the constants Double and Single, which say how many digits a number has and
what its last digit may stand for, and `Rounded` turns an integer into one of
theirs. What the type switch, reflection and the
json tags do is followed branch by branch. What a conversion from float64 to int64
gives beyond the range is a choice by architecture (`arch`).

The code goes down into values and types by recursion. Here an operator that ends in
`Given` says what becomes of a value given what becomes of its parts (`encodeGiven(of, v)`
is one frame of `codec.encode`, with `of` for the calls it makes), and a function over
all the parts of a value (`Parts`, the levels below it) puts the frames together.
`MaxNesting` bounds the levels; a value within it is `Nested`, and has no level
`MaxNesting + 1`. `IsWire` and `Sent` are the values that the child may send: what the
protocol file allows, in valid UTF-8. `IsType` is the same for the type of a parameter:
the kinds for which `pyType` has an annotation (for any other, Add panics).

**OSCalls.** An OS call walks through the handlers: one is asked and declines
(`PassOver`), answers (`Answer`), or none is left (`Exhausted`). The filesystems
answer at once, but for a rename, whose loop ranges over the map that it changes:
`BeginRange`, a `Visit` for each name that the range produces, `EndRange`. The order
is free, and an entry that the loop itself made may be produced or not, as the Go
specification has it for a map. The names of paths are spelt letter by letter, because
`FS.relative` compares strings. `before` keeps what the mounts held when the call came.

**HostCall.** A behaviour is one call: an event comes in, the driver finds who answers,
and the answer goes back. Most take one step, which applies the operators to the event, as
`resolveCall`, `resolveName` and the calls of a value do. A call with an argument that
does not decode never gets to its function: it fails the run (`Undecoded`). An OS call is decoded
(`TakeOS`, or `RefuseOS` if its default does not decode), takes the steps of `OSCalls`
(`ServeOS`), and its answer is encoded (`AnswerOS`).

## 3. The runs

| Run | Instance | States | Shows |
|---|---|---|---|
| `pool_safety` | 2 clients, 5 workers, Idle 1, MaxRuns 2, builds may fail | 16 k (symmetry) | ownership, cleanliness, age, wakeups; the pool implements Lease |
| `pool_live` | 1 client, 5 workers, Idle 2, fair | 69 k | topping up, Close completes |
| `session` | limits 0 and 1, default 2, 3 suspensions, clock 0..2, payloads that do not decode | 1.7 M | host and child agree in every state |
| `driver` | 4 calls, 3 methods, fair | 236 k | books, outcomes, termination |
| `overlay` | 4 names on 3 levels, all 21 bases, 2 goroutines in Remove, 2 chunks a file | 76 k (symmetry) | refinement of Tree, listing, answers, changes |
| `mount` | 3 names, all 15 trees, 3 sets of interfaces, 2 sandboxes, quota 2 | 3.7 M (symmetry) | undisturbed calls, quota |
| `objects` | 2 sessions, 1 class with attributes, 1 object of it, 3 ids, 1 id a request | 2.0 M (symmetry) | routing of ids, attributes, no leak of instances |
| `host_calls` | every value around the edges (below), 31 types of parameters, registries of up to 3 tools and 1 later, 4 sets of mounts, 11 paths | 140 k, one call each | codec, stubs, arguments, results, lookups, routing, rename |
| `pool_close_panics`, `session_malformed`, `driver_resolve`, `overlay_self` | smaller | | one finding each, section 6 |

**Why the bounds are enough.** *Pool*: two clients and the filler are three
goroutines that compete for one list, which is every pair of roles and both of the
same role; five workers are more than can be in use (two held, one with the filler,
two idle), so building never fails for want of an instance; MaxRuns 2 tells a first
session from a last one. What is proved holds for all sizes anyway. *Session*: with
a limit of 1 and a default of 2 the third suspension is past every limit; three
suspensions are enough for a call that is deferred, the futures it leads to, and one
more, and for a call id that is used again after Reset; the clock advances with every
turn that runs code and stays at 2, which tells a fresh session, a first turn and later
ones apart. *Driver*: four calls give two
awaited and two not; three methods a predecessor and a successor of the one at work.
*Overlay*: a file, a directory, a directory and a file in it are a name, an ancestor
two levels up, and one beside it; every shape on these names is an initial Base,
directories in place of the leaf names included. Two removers race with every other
operation. *Mount*: an own step and a foreign step between any two steps of a call.
*Objects*: one thing raced for by two sessions is the whole race, the second thing is
there since registering an object registers its class; three ids are one each for the
two and one more for the loser. A request that carries one id may be sent, given up,
or followed by the next. *HostCall*: with MaxInt 63, three nanoseconds to the
microsecond and two seconds to the day, a Duration ends at 21 microseconds, between the
third and the fourth day, and sums of timedeltas wrap at 22 days; MaxSmall 7 gives int8
and uint8 an inside and an outside, MaxInt32 31 the fields of a TimeDelta. Double has
four binary digits and Single three, with units up to 32: integers are
exact up to 8 or 4, rounded up or down or to even above that, and too large within the
integers of the instance. Values are nested once, or twice in lists of dicts,
since the codec recurses without looking at depth; `MaxNesting` is 4, the depth of the
deepest annotation. `SentAssumption` and `ToolsAssumption` say that no value is cut off, and a
function applied below the bound would be an error of the run. Paths have empty, `.` and `..`
elements, and mounts `d` and `db`, one a prefix of the other as text only. MaxDepth 4 is one
more than Rename can make in these trees unless it runs into its own entries.

**Symmetry** is used for clients, workers, removers, sandboxes, and in `objects` for
sessions and ids, in runs without liveness only. **Deadlock** is checked for `session` (a session can always be
closed or opened) and `mount`; a pool whose workers are all used up and closed, a
driver with no method left to call, an overlay whose bounds are reached, sessions of
a closed runtime, and a call that was answered may stop.

**Fairness.** `pool_live` assumes weak fairness of every goroutine's next step:
Go's scheduler runs what can run, and no step of the pool waits for anything but a
lock that is held briefly and the channel of the filler. A caller is not obliged to
check out or to close a session, and nobody is obliged to close the pool. `driver`
assumes that the method at work, and every goroutine, goes on, that is, that
callbacks return; nobody is obliged to call a method or to cancel. A function that
never returns is outside what the driver promises, and keeps its goroutine.

The type invariants of the state machines with proofs are theorems (section 4) and not
spent in the runs, nor is that the count of suspensions stays within its limit
(`WithinLimit` in `SessionProofs`).

Each property has a mutant: a plausible slip in one definition of the model, kept
beside it and marked "Mutant:", which the property must catch.

## 4. What is proved

`PoolProofs`, from `PoolAssumption` only (any set of clients, any set of workers, Idle
any number, MaxRuns any option): the type invariant, that an instance has one owner
(`OneOwner`), that nobody holds or stores a closed one (`NeverUsedAfterClose`), that
idle workers serve (`IdleWorkersServe`), that a session's worker holds its state
(`SessionsOwnTheirState`), the age (`AgeIsBounded`), the size of the idle set
(`IdleNeverOverflows`), that no wakeup is lost (`NoWakeupLost`), that no instance is
lost (`NothingIsLost`), and that the pool implements `Lease`
(`PoolImplementsLease`).

The invariant `IInv` is needed because no property of the list is inductive by
itself. That idle workers are clean depends on what is parked, thus on what release
and the filler hold at that point (`HeldServable`), thus on which steps hold
something at all (`ClientHolds`, `FillerHolds`); and a step that changes a worker in
somebody's hands must not change one in another's, which is `Exclusive`. Closing
empties the list (`ClosedEmpty`), so that nothing is parked in a closed pool. One
lemma per action shows that it keeps `IInv`. The size of the idle set, wakeups and
lost instances are invariants of their own, proved on top of it, with lemmas about
appending to and taking from the list. The refinement has one step per action: only
Checkout's configure grants, only a release returns, only closing or a reset wipes;
all else stutters.

`DriverProofs`, from `DriverAssumption` (any number of calls and of methods): the
type invariant, that the driver's books are exactly its goroutines (`DriverBooks`),
that an outcome it keeps is one the child still waits for (`DriverSettlesOnce`), and
that the outcome of a call which the child waits for and the driver deferred is with
the driver or on its way (`DriverKeepsOutcomes`). `IInv` adds to these what relates
them: calls not yet made have no goroutine (`ChildCalls`, `Started`), drivers not
yet made have empty books (`Unmade`), what is pending was deferred
(`PendingDeferred`), and the driver waits only where the child waits for futures
(`SelectsAtFutures`). Most actions end in a turn of the child that leaves the books
alone; one lemma (`TurnKeeps`) serves all of these, another those that pause.

`SessionProofs`, from `SessionAssumption` (any limits, any suspensions and call ids):
the type invariant; that host and child agree on where the feed stands (`BothAgree`); that
only what does not decode tears the protocol (`InTurn`); that one suspension is open at
most, the pending one (`OneOpen`); that the count stays within the limit, which is the
child's (`WithinLimit`, `SameLimit`); that the clock is the child's (`SameClock`); and two
action properties: an answer that resumes the child was given to the suspension it waits at
(`OwnAnswers`), and a run that ends leaves the child answered (`DriveSettles`). A method is
one action with up to three turns, so the proof is about turns first: `Turn` says
what one turn may bring (a sound worker, a child whose state the host has classified),
lemmas carry it through the abort after a suspension over the limit and the abort
that replaces an answer, and each method's lemma uses these. To the properties `IInv`
adds what a child can look like (`Shape`), that only a malformed pause is ever torn
(`Sound`), and that a run in progress has a suspension to answer (`Driven`).

`ObjectsProofs`, from `ObjectsAssumption` (any sessions, classes, objects and ids): that
no id is misrouted (`Routed`), that an id reaches its object unless it comes from a dump or
was raced for (`Reached`), that attributes arrive (`AttrsAgree`), and that a closed runtime
has no live instance (`ClosedIsClosed`). The invariant rests on `own`: a uuid stands
for one thing once and for all, so `Named`, `Entered` and `Paired` tie the fields, the
stores and the sandboxes to it, each by itself; a race leaves two ids of one thing and
never one id of two things. `Placed` is what each step of the encoding has behind it,
`Findable` and `Noted` are the properties with what is still on its way. The runtime's
part needs only its own variables (`RInv`).

`MountProofs`, from the assumptions of `Paths` and `Mount`: the type invariant with the
shape of the tree (what exists has directories above it, whatever the calls of any
number of sandboxes do; it rests on `PathProofs`), and that the quota holds (`QuotaIsKept`). The latter is not
inductive: what a call will write was charged before, so the invariant (`Paid`) adds to
the chunks written so far one for each call that still owes one, and says that the
sum is at most what was charged, which is within the limit. The third result is about
atomicity (`LoneCallsAreAtomic`): a call that nobody interferes with ends as one
atomic operation would have ended when it began. The invariant (`AInv`) says of every call
whose expectation still stands what its step knows (`Noted`): past the charge, that the
charge was paid and the path can be written, so that what is still to come is the write
alone (`Pledge`); of an append that read, that the file still is what was read; of a
mkdir, that the names on its stack are above each other and none is there
(`Stacked`), so that coming down again makes exactly the missing directories. A step
of another call either leaves tree and quota alone, and then all this, or erases the
expectation.

`HostCallProofs` has four parts. About `Arithmetic`, from `ArithmeticAssumption` (any widths for
which the longest Duration and a day fit an int64 of microseconds, and their days an int32, which the
real ones do by far) and `FloatAssumption` (any even number of digits; units that are the
powers of two up to one of them, which the real ones are): a timedelta is the same one when it comes back, and what Go has in between is a
Duration exactly under the conditions that `decodeTimedelta` tests, with the true sum for
the one that may have wrapped (`TimedeltaSurvives`); a Duration goes out in Python's normal
form (`DurationIsNormal`, where the floor of Python's days meets Go's division towards
zero, `FloorOfDays`); a parameter of an integer type gets the number that was passed or
refuses it (`IntegersAreKept`, `UnsignedAreKept`); a number becomes the float nearest to it
among all that the format has, or the infinity beyond them (`FloatsAreNearest`). That one
compares `Rounded`, which takes the unit that a number of this size has and the nearest
multiple of it, with a definition that knows neither (`Nearest`): a number between two
multiples of its unit has no other float between these (`UnitsDivide`), and one that
turns out at the end of its unit is a float of the next (`NearestWithin`). TLC checks the same
with an int64 that ends at 63.

About `Values`, from `ValuesAssumption` besides (any bound on the nesting, any strings, any store):
every value that the sandbox may send is, after decode and encode, the value that Python
would compare equal to it, or an error if something in it has no form in Go
(`RoundTrip`). This is an induction over the depth of values, and the library's
induction takes a predicate as a parameter, which the provers cannot instantiate. Hence
`Induction` and `InductionTo` say it of a set of numbers (a set that has 0 and with
every number the next one has all), proved from the well-foundedness of the numbers, and
`KidsInduction` of a set of parts of a tree: one that has a part as soon as it has all that
the part holds has the tree itself (`TreeInduction` when the tree is a value). The parts of a `Nested` value are closed
(`ChainClosed`, `PartsNested`): what they hold is a part again, since the last level
is empty. That the recursive functions on parts are what their `Given` operators say, and
one and the same function whether they start at a tree or at something that holds it
(`RecExists`, `RecUnique`, `RecIs`), is proved level by level, once for values, types and
annotations alike. Then there is a lemma per kind for
encode, one for decode and one for both in a row, first for values with nothing in them, then
for lists, tuples, dicts, named tuples, sets, given that the theorem holds of
what is in them.

About `OSCalls`, from `SpellingAssumption` and `OSAssumption` (any names spelt without a
slash and each its own way, any sequences of handlers, any trees, any calls):
that a path lies in a mount exactly if its elements begin with the mount's, although the
code compares letters, and that its name in the mount is the rest (`RelativeMeans`); that
the first mount a path lies in answers for it and nobody else does or changes
(`Routed`); that Rename moves exactly what is at the old name and, if the names are nested, touches nothing
outside the two (`Moves`). The first
needs that a clean path can be read back from its letters: with a slash in front of each
element and none inside one, a prefix that ends where a slash begins ends where an
element does (`SegmentsPrefix`, `SlashPrefix`). `Clean` is a recursive function and the text of a path
a fold, so their lemmas are by `Induction` over lengths. The invariant says that the handlers passed over do
not own the path (`Passed`), who answered (`Answered`), what is untouched (`OthersKept`),
and what Rename has moved with the names in `todo` still to come (`Half`): those are where
they were, the others below the old name are where they belong; what is outside the two names
was never touched (`Framed`), which holds of nested names as well. That an entry the range made
is never produced again is a consequence: if neither name is below the other, it is not
below the old name.

About `HostCall`, from `HostAssumption` (what decodes is in `OSRequests`) and `SentAssumption` (what the sandbox
sends is `Sent`, parameters have types): the invariant `CallInv` (`SafeCalls`) says of
every kind of call that the answer is what the code computes from the event
(`Faithful`), that an OS call that is on its way carries what was decoded
(`Defaulted`), and that its handlers are in a state of `IInv`; an OS call is given to `OSCalls` in a
state in which `OSInit` holds and takes `OSNext` steps until it is served, so the
theorems about `OSCalls` hold in `HostCall` (`RoutedCalls`, `MovedCalls`). On it rest: what crosses and comes
back is what it was (`CrossesFaithfully`: what a function gives back by `RoundTrip`; the
default of os.getenv, which goes through `Defaulted`; an exception by `ErrorsKept`); a
tool gets the integers and timedeltas that were passed, and the floats nearest to what was
passed, by position or by name, or the
call fails (`ArgumentsKept`: bind makes argument i from the value at that place or of that
name, `convert` of a leaf is `convertInt` and its like, and what they keep is proved above; `Kept` says what that is, and names
the cases in which a number is lost); and code
that calls a name gets what it gets when it looks the name up and calls that (`LooksUp`).

The longest argument is that a call which a tool's stub allows reaches the Go function
(`StubsAccepted`). Four recursions meet in it: `pyType` makes an annotation of a type,
`Accepts` says which values the annotation allows, `Refused` which of these the code turns
down all the same, and `convert` makes the Go value. Each is shown to be its rule for one
level (`PyTypeIs`, `AcceptsIs`, `RefusedIs`, `ConvertIs`), and an annotation to be no deeper
than its type (`StubShallow`). `TypesHonoured` is then an induction over types
(`TypeInduction`), with a step per kind (leaf, pointer, list, map, struct): what the
annotation allows of a parameter is converted or is `Refused`, if that holds of the types
inside. `AllowedBinds` carries it over to the arguments of a call: each goes to one
parameter, and what is missing has a default (`OptionalIs`); `FunctionReturns` that the
function then runs. The theorem is as strong as `Refused` is narrow: that names the cases in
which the code breaks its own stub (section 6).

`OverlayProofs`, from the assumptions of `Paths` and `Overlay` (any set of names that
contains the directories above each, any trees as Base, any number of goroutines in
Remove): that the upper layer is a tree (`TypeCorrect`), that listing and looking up
agree (`ListingsAgree`), that Upper and Deleted tell all changes (`ChangesAreComplete`),
that operations succeed where a plain filesystem allows them (`AnswersAgreeAlways`), and
that an Overlay implements `Tree` (`ImplementsATree`). The theorems assume that code
renames nothing onto itself or onto a directory (WildRenames FALSE): otherwise the
refinement fails, see section 6; `AnswersAgreeAlways` also assumes NotExistOnly. What
makes the proof possible is that a name can be judged by its own entries. `hidden` walks
through all directories above a name; the invariant (`Layered`) says that whatever it may
meet there (a whiteout, an opaque mark, a file in the upper layer) has everything below
it deleted or replaced already (`Covered`), so `stat` is `View`, which looks at one name
only. One lemma per operation says what it leaves (`Written`, `Erased`, `MadeLayered`,
`Renamed`), always in terms of `View`. A Remove that found its directory empty gives up
the lock and finishes later: `Committed` says that what Base has below the directory stays
covered (nothing ever uncovers a name, `Grows`), so finishing is safe or refused by
the upper layer, whatever was made there since. `PathProofs` has the facts about
chains of directories that keep the proofs free of induction over names.

Liveness (`Refilled`, `CloseCompletes`, `MethodReturns`, `GoroutinesEnd`) is
only checked by TLC, since the prover does not handle fairness and ENABLED. So are two
properties of `HostCall`. `StubsAgree` rests on the names that typedDict makes of a
name and a number (`ToString`) and on `@@`, which the provers cannot expand; `ResultFits` on
structToMap, a fold over the fields whose lemmas would take an operator as a parameter, and
on the sorted keys of what it gives.

## 5. What the runs and proofs do not say

* The interpreter, wazero and the Go runtime are assumed to do what the code
  expects of them. A data race in `MemFS` shared by two sandboxes is a Go map race and
  not modelled: `Mount` assumes a filesystem whose operations are atomic.
* Numbers, texts and depths of values are small. Of fractions there are halves only, so
  that floats are rounded among the large numbers and never among the small ones; a
  float's zero has no sign. Of types that a program defines as a struct of
  the package, only those of NamedTuple are encoded. The text of a stub is its content
  (names, annotations, defaults), without layout and docstrings; json tags beyond the
  name, `-` and `omitempty` are not read by the code either.
* The command line is a sequential program around Run; the Rust shim is glue to
  the interpreter, which is not in the repository; the bindings in `internal/pb` are
  generated; the examples show the use of the package. None of them is modelled.
* NewMemFS fills a MemFS entry by entry, without looking at errors, in the order of a map;
  DirRoot hands its calls on to `os.Root`. Both are left out.
* A callback that calls a method of its own session waits for itself, and a panic in
  an asynchronous function ends the process: both are certain by the code
  (`session.go:946`, `session.go:975`) and need no model.

## 6. Disagreements met while modelling

Shown by a run that TLC refutes, each with the text it contradicts in `PROJECT.json`:

* `pool_close_panics`: closing a session after `Pool.Close` panics
  (`pool.go:159`, and Checkout likewise at 117): it sends on the closed channel.
* `session_malformed`: after a suspension that does not decode no abort is sent, since
  `pending` is not set yet (`session.go:461,523`): the next Feed goes to a paused child.
* `driver_resolve`: `Resolve` closes its driver, so that a function of AsyncFunctions
  which it started has nobody to report to, and the next Resolve aborts the feed.
* `overlay_self`: renaming a file onto itself deletes it (`fs_extra.go:283`).

Visible in the definitions, without a run of their own:

*Filesystems.*

* A directory made over a deleted Base file still reads as that file, since ReadFile
  does not ask the upper layer what stat would (`fs_extra.go:121`; Overlay's
  `OldStaysGone` is false). A mount does not show it: it asks Stat first.
* `open(path, 'a')` truncates a file that appears after its Stat (`fs.go:427`; Mount's
  `AppendModeKeeps` is false).
* MemFS.Rename overwrites what is at the new name without asking what it is, and moves to
  names whose directory does not exist, which then does; what it leaves depends on the
  order of the map if one of the names lies below the other (`fs.go:222`; OSCalls's
  `Visit`; of such names `RenameMoves` says only that nothing else is touched).
* MemFS lists a file as `OSError: not implemented`, not as NotADirectoryError
  (OSCalls's `Listing`).
* ENOTEMPTY is `fs.ErrExist` to Go: a full directory is a FileExistsError, unless the
  filesystem says "not empty" by text, which is an OSError (`fs.go`, fsError; Errors's `Errnos`).
* Overlay.Rename onto a directory that only Base has writes a file over it
  (`fs_extra.go:279`; the guard `Wild` in Overlay's `Move`: with WildRenames TRUE
  `ImplementsTree` fails).
* Overlay.AppendFile fails for a missing file if Base reports an errno, as
  directories of the operating system do (`fs_extra.go:296`; Overlay's `isNotExist`,
  hence NotExistOnly TRUE in `overlay`).
* `mkdir(exist_ok=True)` raises if another sandbox makes the directory between its Stat
  and its Mkdir (`fs.go:457`; Mount's `mkdirMake`).

*Sessions and pools.*

* `MaxRuns: 0` does not keep workers indefinitely, it means 100 (`pool.go:16,42`; Pool's
  `MaxRuns`).
* `ExecutionTime` keeps the last session's clock after Reset until the new one has run
  (`session.go:332`; Session's `Clock`, hence the guard in `ClockAgrees`).
* Restore starts the count of suspensions over, although the limit is said to hold
  "over the life of the session" (`session.go:31,279`; Session's `Restore`).
* Two sessions that are the first to pass one object at the same time leave it with two
  ids, one of which its session no longer finds (`objects.go:49`; `raced` in Objects).
* A class whose attributes were in a request that was not sent counts as sent
  (`value.go:598`; `lost` in Objects).

*Values, errors, calls.* Each is an exception named in a property of HostCall, or a
branch that differs from its neighbours:

* A naive datetime comes back as UTC, an exception with an empty message without its
  argument (Values's `Changed`).
* An exception loses frames and data when it is raised again; one in a wrapper becomes
  a RuntimeError from a function and keeps its type from a filesystem (Errors's
  `raisedFromError` asserts, `fsError` unwraps).
* A Duration less than a day above the lower end comes back as a TimeDelta although it
  fits, since its days are compared before its sum (`value.go:804`; `TimedeltaSurvives` has the
  condition).
* A float64 beyond int64 is converted before it is compared, so that what arrives depends
  on the processor (`tools.go:269`; `arch`, and the exception in `Kept`). A whole float or a bool for a Duration are
  nanoseconds, an int is seconds and may wrap (`convertInt`).
* An int for a float parameter is not refused where it is not exact: above 2^53 it is rounded,
  and beyond the largest float it becomes an infinity (`tools.go:293`; `Rounded`). For a float32 it is
  rounded to a float64 first, so that it may miss the nearest float32 (`KeptAsFloat`).
* The fields of a TimeDelta are narrowed to int32 on the way out, without a check
  (`value.go:401`; `encodeDelta`). A type defined as a Dict goes out as a list of its pairs,
  one defined as a NamedTuple as a dict of its fields (`encodeReflect`).
* A `*big.Int` parameter refuses an int that fits int64, a Dict one whose keys are
  strings, a Date a datetime, a uint or float a bool; the stub allows them
  (Tools's `convert`; the exceptions of `StubAccepted`).
* A FrozenSet is `set[Any]` in a stub, a TimeDelta a TypedDict; embedded structs are
  flattened by encode and not by convert and the stub; a field left out by omitempty is a
  key that the TypedDict requires (the exceptions of `ResultFits`, `Misfit`).
* bind takes a missing slice, map or interface for its zero value wherever it stands; the stub
  gives a default to trailing pointers only (`bind` against `optionalFrom`).
* Options writes into the caller's maps, so that a tool registered again as
  asynchronous stays callable as it was (Registry's `Options`).
* A FunctionRef or an object registered as a value is called differently by
  `f()` and by `g = f; g()` (the exception in `CallLikeLookup`).
* `os.getenv` with a host object as its default raises, because its codec has no store
  (HostCall's `osCallFromProto`).

## 7. Plan

Done, in this order: Worker and Session; Pool with Lease and its proofs; Driver and its
proofs; Paths, MemFS, Tree and Overlay; Mount with the quota; Runtime and Objects with their
proofs; Values, Tools, Registry, Errors, OSCalls and HostCall; the proofs about Session, about
the quota, about Overlay, about undisturbed calls of a mount, about OSCalls, about
Arithmetic, about values, and about host calls.

Left to model: Runtime.Close against the pool's goroutines (Pool takes newWorker as one
step); NewMemFS; the size parser of the command line (`main.go:165`, which may overflow).

Left to prove: `ResultFits`, if structToMap is written without a fold, and `StubsAgree`, if
the names that typedDict makes are more abstract than texts.
