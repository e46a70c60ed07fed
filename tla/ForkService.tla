----------------------------- MODULE ForkService -----------------------------
(***************************************************************************)
(* Deployments to a local fork: ForkLabService's deploy, runDeployment,    *)
(* stop and reconcileOrphaned (apps/studio/src/fork/service.ts), the       *)
(* phases of runForkDeployment (fork/deployer.ts), the Anvil provider      *)
(* (packages/studio-reality/src/fork.ts) and the server's shutdown         *)
(* (server.ts).  One event loop: workers and stop requests interleave at   *)
(* their awaits.  runForkDeployment works on a copy of the record, which   *)
(* replaces live.record only when it returns or throws.                    *)
(***************************************************************************)
EXTENDS Naturals, FiniteSets

CONSTANTS
  Deployment, Project,
  projectOf,           \* the project each deployment is asked for
  SetupPhases,         \* the phases between VERIFYING_ANCHOR and STARTING_RUNTIME
  maxConcurrentForks,
  MaxStops,            \* bound: stop requests of a deployment that overlap
  MaxRestarts          \* bound: restarts of the server

ASSUME ForkServiceAssumption ==
  /\ projectOf \in [Deployment -> Project]
  /\ SetupPhases \in Nat \ {0} /\ maxConcurrentForks \in Nat
  /\ MaxStops \in Nat /\ MaxRestarts \in Nat

VARIABLES
  row,          \* studio_fork_deployments: state
  named,        \* studio_fork_deployments: the record names its fork
  live,         \* keys of this.live
  known,        \* live.record names the fork
  worker,       \* where runDeployment is
  setupPhase,   \* the phase of its setup
  fork,         \* the provider's map: descriptor.state, "none" when not in it
  anvil,        \* the Anvil process runs
  runtime,      \* live.runtime
  stopping,     \* stop requests between destroy and persist
  restarts,
  stoppedEarly  \* history: a stop was answered while the worker went on

serviceVars == <<live, known, worker, setupPhase, runtime, stopping>>
vars == <<row, named, serviceVars, fork, anvil, restarts, stoppedEarly>>

Active == {"DEPLOYING", "READY_TO_ACTIVATE"}
Awaiting == {"FORKING_MAINNET", "WAITING_RPC", "VERIFYING_ANCHOR", "SETUP",
             "HEALTH_CHECKS", "READING_POLICY"}
Working == Awaiting \cup {"CONCLUDING", "FAILING"}

Init ==
  /\ row = [d \in Deployment |-> "none"]
  /\ named = [d \in Deployment |-> FALSE]
  /\ live = {}
  /\ known = [d \in Deployment |-> FALSE]
  /\ worker = [d \in Deployment |-> "none"]
  /\ setupPhase = [d \in Deployment |-> 1]
  /\ fork = [d \in Deployment |-> "none"]
  /\ anvil = [d \in Deployment |-> FALSE]
  /\ runtime = [d \in Deployment |-> "none"]
  /\ stopping = [d \in Deployment |-> 0]
  /\ restarts = 0
  /\ stoppedEarly = {}

\* persist: the upsert of the row, with the record it is given.
persist(d, state, naming) ==
  /\ row' = [row EXCEPT ![d] = state]
  /\ named' = [named EXCEPT ![d] = naming]

goTo(d, where) == worker' = [worker EXCEPT ![d] = where]

\* AnvilForkProvider.destroy: a fork this process does not know is left alone.
destroy(d) ==
  IF fork[d] = "none" THEN UNCHANGED <<fork, anvil>>
  ELSE /\ fork' = [fork EXCEPT ![d] = "DESTROYED"]
       /\ anvil' = [anvil EXCEPT ![d] = FALSE]

stopRuntime(d) ==
  runtime' = [runtime EXCEPT ![d] = IF @ = "running" THEN "stopped" ELSE @]

-----------------------------------------------------------------------------
(* Deploying.                                                              *)

\* Mutant: only a deployment that is ready blocks another.
deployUnlessReady(d) ==
  /\ row[d] = "none"
  /\ \A e \in Deployment : projectOf[e] = projectOf[d] => row[e] # "READY_TO_ACTIVATE"
  /\ persist(d, "DEPLOYING", FALSE)
  /\ live' = live \cup {d}
  /\ goTo(d, "FORKING_MAINNET")
  /\ UNCHANGED <<known, setupPhase, runtime, stopping, fork, anvil, restarts, stoppedEarly>>

\* deploy: no await lies between reading the rows and inserting one.
deploy(d) ==
  /\ row[d] = "none"
  /\ \A e \in Deployment : projectOf[e] = projectOf[d] => row[e] \notin Active
  /\ persist(d, "DEPLOYING", FALSE)
  /\ live' = live \cup {d}
  /\ goTo(d, "FORKING_MAINNET")
  /\ UNCHANGED <<known, setupPhase, runtime, stopping, fork, anvil, restarts, stoppedEarly>>

\* assertForkQuota counts the forks that are READY.
underQuota ==
  Cardinality({d \in Deployment : fork[d] = "READY"}) < maxConcurrentForks

\* Upstream has answered: create spawns Anvil, which may not come up.
create(d) ==
  /\ worker[d] = "FORKING_MAINNET"
  /\ underQuota
  /\ fork' = [fork EXCEPT ![d] = "CREATING"]
  /\ \E up \in BOOLEAN : anvil' = [anvil EXCEPT ![d] = up]
  /\ goTo(d, "WAITING_RPC")
  /\ UNCHANGED <<row, named, live, known, setupPhase, runtime, stopping, restarts, stoppedEarly>>

\* waitForRpc returns, and verifyAnchor begins.
rpcAnswers(d) ==
  /\ worker[d] = "WAITING_RPC" /\ anvil[d]
  /\ fork' = [fork EXCEPT ![d] = "VERIFYING_ANCHOR"]
  /\ persist(d, "DEPLOYING", known[d])
  /\ goTo(d, "VERIFYING_ANCHOR")
  /\ UNCHANGED <<live, known, setupPhase, runtime, stopping, anvil, restarts, stoppedEarly>>

anchorMatches(d) ==
  /\ worker[d] = "VERIFYING_ANCHOR" /\ anvil[d]
  /\ fork' = [fork EXCEPT ![d] = "READY"]
  /\ persist(d, "DEPLOYING", known[d])
  /\ goTo(d, "SETUP")
  /\ UNCHANGED <<live, known, setupPhase, runtime, stopping, anvil, restarts, stoppedEarly>>

\* A phase of contracts, policy, position, snapshot and read-back is done.
nextPhase(d) ==
  /\ worker[d] = "SETUP" /\ anvil[d] /\ setupPhase[d] < SetupPhases
  /\ setupPhase' = [setupPhase EXCEPT ![d] = @ + 1]
  /\ persist(d, "DEPLOYING", known[d])
  /\ UNCHANGED <<live, known, worker, runtime, stopping, fork, anvil, restarts, stoppedEarly>>

\* runForkDeployment returns its record; the runtime starts and ticks.
startRuntime(d) ==
  /\ worker[d] = "SETUP" /\ anvil[d] /\ setupPhase[d] = SetupPhases
  /\ known' = [known EXCEPT ![d] = TRUE]
  /\ persist(d, "DEPLOYING", TRUE)
  /\ runtime' = [runtime EXCEPT ![d] = "running"]
  /\ goTo(d, "HEALTH_CHECKS")
  /\ UNCHANGED <<live, setupPhase, stopping, fork, anvil, restarts, stoppedEarly>>

firstTick(d) ==
  /\ worker[d] = "HEALTH_CHECKS" /\ anvil[d]
  /\ goTo(d, "READING_POLICY")
  /\ UNCHANGED <<row, named, live, known, setupPhase, runtime, stopping, fork, anvil,
                 restarts, stoppedEarly>>

\* The policy read back disabled; the answer is on its way to the worker.
policyReads(d) ==
  /\ worker[d] = "READING_POLICY" /\ anvil[d]
  /\ goTo(d, "CONCLUDING")
  /\ UNCHANGED <<row, named, live, known, setupPhase, runtime, stopping, fork, anvil,
                 restarts, stoppedEarly>>

conclude(d) ==
  /\ worker[d] = "CONCLUDING"
  /\ persist(d, "READY_TO_ACTIVATE", TRUE)
  /\ goTo(d, "done")
  /\ UNCHANGED <<live, known, setupPhase, runtime, stopping, fork, anvil, restarts, stoppedEarly>>

\* Any await fails: the inner catch marks the phase, the outer one stops the
\* runtime and destroys the fork its record names.
\* Mutant: the record that is looked at is live's, not the one thrown along.
failForgetting(d) ==
  /\ worker[d] \in Awaiting
  /\ IF worker[d] \in {"HEALTH_CHECKS", "READING_POLICY"} THEN UNCHANGED <<row, named>>
     ELSE persist(d, "DEPLOYING", known[d])
  /\ stopRuntime(d)
  /\ IF known[d] THEN destroy(d) ELSE UNCHANGED <<fork, anvil>>
  /\ goTo(d, "FAILING")
  /\ UNCHANGED <<live, known, setupPhase, stopping, restarts, stoppedEarly>>
\* Mutant: the runtime is left to itself.
failRunning(d) ==
  /\ worker[d] \in Awaiting
  /\ IF worker[d] \in {"HEALTH_CHECKS", "READING_POLICY"} THEN UNCHANGED <<row, named>>
     ELSE persist(d, "DEPLOYING", known[d])
  /\ destroy(d)
  /\ known' = [known EXCEPT ![d] = fork[d] # "none"]
  /\ goTo(d, "FAILING")
  /\ UNCHANGED <<live, setupPhase, runtime, stopping, restarts, stoppedEarly>>
fail(d) ==
  /\ worker[d] \in Awaiting
  /\ IF worker[d] \in {"HEALTH_CHECKS", "READING_POLICY"} THEN UNCHANGED <<row, named>>
     ELSE persist(d, "DEPLOYING", known[d])
  /\ stopRuntime(d)
  /\ destroy(d)
  /\ known' = [known EXCEPT ![d] = fork[d] # "none"]
  /\ goTo(d, "FAILING")
  /\ UNCHANGED <<live, setupPhase, stopping, restarts, stoppedEarly>>

failed(d) ==
  /\ worker[d] = "FAILING"
  /\ persist(d, "FAILED", known[d])
  /\ goTo(d, "done")
  /\ UNCHANGED <<live, known, setupPhase, runtime, stopping, fork, anvil, restarts, stoppedEarly>>

-----------------------------------------------------------------------------
(* Stopping.                                                               *)

noteEarly(d) ==
  stoppedEarly' = IF worker[d] \in Working THEN stoppedEarly \cup {d} ELSE stoppedEarly

\* The record stop looks at: live's, or the row's when there is no live one.
namesFork(d) == IF d \in live THEN known[d] ELSE named[d]

\* stop of a deployment whose record names no fork: nothing is awaited.
stop(d) ==
  /\ row[d] # "none" /\ ~namesFork(d)
  /\ IF d \in live THEN stopRuntime(d) ELSE UNCHANGED runtime
  /\ persist(d, "STOPPED", FALSE)
  /\ live' = live \ {d}
  /\ noteEarly(d)
  /\ UNCHANGED <<known, worker, setupPhase, stopping, fork, anvil, restarts>>

\* stop up to the await of destroy ...
stopFork(d) ==
  /\ row[d] # "none" /\ namesFork(d)
  /\ stopping[d] < MaxStops
  /\ stopping' = [stopping EXCEPT ![d] = @ + 1]
  /\ IF d \in live THEN stopRuntime(d) ELSE UNCHANGED runtime
  /\ destroy(d)
  /\ UNCHANGED <<row, named, live, known, worker, setupPhase, restarts, stoppedEarly>>

\* ... and from there.
\* Mutant: the request that stopped the fork forgets to say so.
stoppedSilently(d) ==
  /\ stopping[d] > 0
  /\ stopping' = [stopping EXCEPT ![d] = @ - 1]
  /\ live' = live \ {d}
  /\ noteEarly(d)
  /\ UNCHANGED <<row, named, known, worker, setupPhase, runtime, fork, anvil, restarts>>
stopped(d) ==
  /\ stopping[d] > 0
  /\ stopping' = [stopping EXCEPT ![d] = @ - 1]
  /\ persist(d, "STOPPED", TRUE)
  /\ live' = live \ {d}
  /\ noteEarly(d)
  /\ UNCHANGED <<known, worker, setupPhase, runtime, fork, anvil, restarts>>

\* reconcileOrphaned, over the rows as the last process left them.
\* Mutant: only the deployments that were ready are looked for.
reconciledReady(r) ==
  [d \in Deployment |-> IF r[d] = "READY_TO_ACTIVATE" THEN "STOPPED" ELSE r[d]]
reconciled(r) == [d \in Deployment |-> IF r[d] \in Active THEN "STOPPED" ELSE r[d]]

\* The server ends and starts again: it crashed, or a signal had stopAll stop
\* what is live.  Anvil processes nobody killed go on.
restart ==
  /\ restarts < MaxRestarts
  /\ restarts' = restarts + 1
  /\ \/ row' = reconciled(row) /\ UNCHANGED <<named, anvil>>
     \/ /\ row' = reconciled([d \in Deployment |-> IF d \in live THEN "STOPPED" ELSE row[d]])
        /\ named' = [d \in Deployment |-> IF d \in live THEN known[d] ELSE named[d]]
        /\ anvil' = [d \in Deployment |-> anvil[d] /\ ~(d \in live /\ known[d])]
  /\ live' = {}
  /\ worker' = [d \in Deployment |-> "none"]
  /\ fork' = [d \in Deployment |-> "none"]
  /\ runtime' = [d \in Deployment |-> "none"]
  /\ stopping' = [d \in Deployment |-> 0]
  /\ UNCHANGED <<known, setupPhase, stoppedEarly>>

\* An Anvil process ends by itself.
anvilDies(d) ==
  /\ anvil[d]
  /\ anvil' = [anvil EXCEPT ![d] = FALSE]
  /\ UNCHANGED <<row, named, serviceVars, fork, restarts, stoppedEarly>>

-----------------------------------------------------------------------------
work(d) ==
  \/ create(d) \/ rpcAnswers(d) \/ anchorMatches(d) \/ nextPhase(d) \/ startRuntime(d)
  \/ firstTick(d) \/ policyReads(d) \/ conclude(d) \/ fail(d) \/ failed(d)

Next ==
  \/ restart
  \/ \E d \in Deployment :
       deploy(d) \/ work(d) \/ stop(d) \/ stopFork(d) \/ stopped(d) \/ anvilDies(d)

\* Every await answers or throws: the RPC clients time out, waitForRpc gives
\* up after 120 tries.  Nobody has to deploy, stop or restart.
Fairness == \A d \in Deployment : WF_vars(work(d)) /\ WF_vars(stopped(d))

Spec == Init /\ [][Next]_vars /\ Fairness

-----------------------------------------------------------------------------
(* Properties.                                                             *)

TypeOK ==
  /\ row \in [Deployment -> Active \cup {"none", "STOPPED", "FAILED"}]
  /\ named \in [Deployment -> BOOLEAN] /\ known \in [Deployment -> BOOLEAN]
  /\ live \subseteq Deployment
  /\ worker \in [Deployment -> Working \cup {"none", "done"}]
  /\ setupPhase \in [Deployment -> 1..SetupPhases]
  /\ fork \in [Deployment -> {"none", "CREATING", "VERIFYING_ANCHOR", "READY", "DESTROYED"}]
  /\ anvil \in [Deployment -> BOOLEAN]
  /\ runtime \in [Deployment -> {"none", "running", "stopped"}]
  /\ stopping \in [Deployment -> 0..MaxStops]
  /\ restarts \in 0..MaxRestarts
  /\ stoppedEarly \subseteq Deployment

\* Every Anvil process this server started has somebody who ends it: a worker
\* under way, or a ready row that names the fork, which a stop can destroy;
\* stops, failures and early answers included (service.ts runDeployment, stop).
EveryForkHasAnOwner ==
  \A d \in Deployment :
    anvil[d] /\ fork[d] # "none" =>
      worker[d] \in Working \/ (row[d] = "READY_TO_ACTIVATE" /\ named[d])

\* A ready row has a fork that was verified and still stands, except where a
\* stop is under way or was answered before the worker ended.
ReadyHasItsFork ==
  \A d \in Deployment :
    row[d] = "READY_TO_ACTIVATE" =>
      fork[d] = "READY" \/ stopping[d] > 0 \/ d \in stoppedEarly

\* No runtime goes on once its deployment is over, except behind a stop that
\* was answered before the runtime was started.
NoRuntimeOutlives ==
  \A d \in Deployment :
    runtime[d] = "running" =>
      worker[d] \in Working \/ row[d] = "READY_TO_ACTIVATE" \/ d \in stoppedEarly

\* A project has one active deployment: a second one takes a stop that was
\* answered while the first was still deploying.
OneActivePerProject ==
  \A d, e \in Deployment :
    d # e /\ projectOf[d] = projectOf[e] /\ {row[d], row[e]} \subseteq Active =>
      d \in stoppedEarly \/ e \in stoppedEarly

\* What ties a deployment's worker, row, record, fork and runtime together; the
\* inductive invariant behind the four above.  A worker that was stopped early
\* is the only one whose row is not active and who is not in this.live, and
\* nobody can name a fork before its worker has returned its record.
Early == {"FORKING_MAINNET", "WAITING_RPC", "VERIFYING_ANCHOR", "SETUP"}
Late == {"HEALTH_CHECKS", "READING_POLICY", "CONCLUDING"}

WorkerMatches(d) ==
  /\ worker[d] \in Early => ~known[d] /\ ~named[d] /\ stopping[d] = 0 /\ runtime[d] = "none"
  /\ worker[d] = "FORKING_MAINNET" => fork[d] = "none"
  /\ worker[d] = "SETUP" => fork[d] = "READY"
  /\ worker[d] \in Late =>
       known[d] /\ (fork[d] = "READY" \/ stopping[d] > 0 \/ d \in stoppedEarly)
  /\ worker[d] = "FAILING" => runtime[d] # "running" /\ fork[d] \in {"none", "DESTROYED"}
  /\ worker[d] = "none" => fork[d] = "none" /\ runtime[d] = "none" /\ row[d] \notin Active
  /\ worker[d] \in Working => d \in stoppedEarly \/ (d \in live /\ row[d] = "DEPLOYING")

RowMatches(d) ==
  /\ row[d] = "none" => worker[d] = "none" /\ d \notin live /\ stopping[d] = 0
                          /\ ~known[d] /\ ~named[d]
  /\ row[d] = "READY_TO_ACTIVATE" => worker[d] = "done" /\ known[d] /\ named[d]
  /\ row[d] = "DEPLOYING" => worker[d] \in Working

StopMatches(d) ==
  /\ fork[d] = "DESTROYED" => ~anvil[d]
  /\ stopping[d] > 0 => fork[d] \in {"none", "DESTROYED"}
  /\ stopping[d] > 0 /\ runtime[d] = "running" => d \in stoppedEarly
  /\ runtime[d] = "running" /\ d \notin live => d \in stoppedEarly

ForkServiceInv ==
  /\ \A d \in Deployment : WorkerMatches(d) /\ RowMatches(d) /\ StopMatches(d)
  /\ EveryForkHasAnOwner
  /\ ReadyHasItsFork
  /\ NoRuntimeOutlives
  /\ OneActivePerProject

\* No deployment stays DEPLOYING for ever, where it would block its project:
\* the worker ends it, or the server that comes after a crash does.
DeployingEnds ==
  \A d \in Deployment : row[d] = "DEPLOYING" ~> row[d] # "DEPLOYING"
=============================================================================
