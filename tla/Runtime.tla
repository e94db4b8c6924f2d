------------------------------- MODULE Runtime -------------------------------
(***************************************************************************)
(* Runtime (runtime.go): the compiled sandbox module, from which goroutines *)
(* make workers, and which one of them closes.                             *)
(*                                                                         *)
(* newWorker reads closed under the lock and instantiates without it, so   *)
(* Close may come in between.  wazero, which is external, keeps its own    *)
(* books: a closed engine instantiates nothing, and closing it closes its  *)
(* instances.                                                              *)
(***************************************************************************)
EXTENDS Naturals

CONSTANT Session   \* the sessions, one worker each

VARIABLES
  boot,     \* how far NewRuntime is
  engine,   \* wazero's runtime
  probe,    \* the instance NewRuntime makes to read the versions
  closed,   \* Runtime.closed
  mod       \* the instance of each session, or how far newWorker is with it

runtimeVars == << boot, engine, probe, closed, mod >>

Instance == {"none", "live", "gone"}

RuntimeInit ==
  /\ boot = "cache"
  /\ engine = "none"
  /\ probe = "none"
  /\ closed = FALSE
  /\ mod = [s \in Session |-> "none"]

(***************************************************************************)
(* NewRuntime                                                              *)
(***************************************************************************)

After == [ cache |-> "wasi", wasi |-> "host", host |-> "compile",
           compile |-> "probe", probe |-> "versions", versions |-> "ready" ]

\* The cache directory is made before the engine, so a failure leaves nothing.
BootCache ==
  /\ boot = "cache"
  /\ \/ boot' = "wasi" /\ engine' = "open"
     \/ boot' = "failed" /\ UNCHANGED engine
  /\ UNCHANGED << probe, closed, mod >>

\* WASI, the host module with the event callback, the sandbox module.
BootModules ==
  /\ boot \in {"wasi", "host", "compile"}
  /\ \/ boot' = After[boot] /\ UNCHANGED engine
     \/ boot' = "failed" /\ engine' = "closed"
  /\ UNCHANGED << probe, closed, mod >>

BootProbe ==
  /\ boot = "probe"
  /\ \/ boot' = "versions" /\ probe' = "live" /\ UNCHANGED engine
     \/ boot' = "failed" /\ engine' = "closed" /\ UNCHANGED probe
  /\ UNCHANGED << closed, mod >>

\* Mutant: the probe is closed only if its versions could be read.
BootVersionsLeaks ==
  /\ boot = "versions"
  /\ \/ boot' = "ready" /\ UNCHANGED << probe, engine >>
     \/ boot' = "failed" /\ engine' = "closed" /\ probe' = "gone"
  /\ UNCHANGED << closed, mod >>

\* The probe is closed whether or not its versions are those expected.
BootVersions ==
  /\ boot = "versions"
  /\ probe' = "gone"
  /\ \/ boot' = "ready" /\ UNCHANGED engine
     \/ boot' = "failed" /\ engine' = "closed"
  /\ UNCHANGED << closed, mod >>

NewRuntime == BootCache \/ BootModules \/ BootProbe \/ BootVersions

(***************************************************************************)
(* newWorker and Close                                                     *)
(***************************************************************************)

\* newWorker, first half: what closed was when the lock was given back.
NewWorkerLooks(s) ==
  /\ boot = "ready"
  /\ mod[s] \in {"none", "gone"}
  /\ ~closed
  /\ mod' = [mod EXCEPT ![s] = "looked"]
  /\ UNCHANGED << boot, engine, probe, closed >>

\* Second half: the engine may refuse, or the module may lack an export.
NewWorkerMakes(s) ==
  /\ mod[s] = "looked"
  /\ \/ engine = "open" /\ mod' = [mod EXCEPT ![s] = "live"]
     \/ mod' = [mod EXCEPT ![s] = "none"]
  /\ UNCHANGED << boot, engine, probe, closed >>

WorkerClose(s) ==
  /\ mod[s] = "live"
  /\ mod' = [mod EXCEPT ![s] = "gone"]
  /\ UNCHANGED << boot, engine, probe, closed >>

\* Close: the engine takes its instances with it.
RuntimeClose ==
  /\ boot = "ready"
  /\ ~closed
  /\ closed' = TRUE
  /\ engine' = "closed"
  /\ mod' = [s \in Session |-> IF mod[s] = "live" THEN "gone" ELSE mod[s]]
  /\ UNCHANGED << boot, probe >>

\* "Close releases the runtime and every Session created from it", those that
\* were being made included; and a NewRuntime that fails, or succeeds, leaves
\* no instance and no engine behind that the caller could not close.
NothingLeaks ==
  /\ closed => engine = "closed" /\ \A s \in Session : mod[s] # "live"
  /\ boot = "failed" => engine # "open"
  /\ boot \in {"ready", "failed"} => probe # "live"
=============================================================================
