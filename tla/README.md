# ContextLock: TLA+ models, checks and proofs

ContextLock lets an AI agent act on chain only through single-use capabilities.
A request goes to a **broker**, a private policy is evaluated and its verdict
recorded on chain, the broker signs a **capability**, and an **executor**
contract checks everything again before it calls the target. A **studio**
around this designs, builds, simulates, deploys and operates such agents: its
pipeline generates them, its orchestrator deploys them, a fork service runs
them on private forks of the chain, a control plane commands and stops them,
and an organization's ledger limits what they spend. Paths below are relative
to the repository (`src/`).

This directory holds the models of the parts that carry the system's
guarantees, the TLC runs that check them on small instances, and TLAPS proofs
of the most important results for every instance. `PROJECT.json` lists
components, runs, the source lines of every definition, hazards, findings and
theorems.

    tlc -workers 2 -config MCExecutor.cfg MCExecutor
    tlapm ExecutorProofs.tla

## 1. Inventory

| Component | State | Operations | Hard behaviour | What makes it correct |
|---|---|---|---|---|
| Policy registry (`contracts/src/ContextLockPolicyRegistry.sol`) | admin, policies, allow flags and binding version by identity | claim or transfer admin, set policy, set flags, bump | first-come claiming | nothing is open for an identity nobody administers |
| Identity verifier (`contracts/src/identity/EnsAgentIdentityVerifier.sol`) | bindings, outage switch; reads ENSv2 | bind, unbind, live check | the name changes under the binding | an identity whose token id was regenerated is dead |
| CRE consumer and authorization registry | write-once verdict records, forwarder, authorizer, expected commitment | onReport, recordAuthorization, rotations | reports in any order | a verdict never changes |
| Approval registry | approvals by capability, consumed set, approver, executor | submit, consume, rotations | rotations between signing, submitting and consuming | only signed approvals, each used once |
| Executor (`ContextLockExecutor.sol`) | used nonces, reentrancy flag | execute | the target re-enters; every check reads state that may have changed since signing | one execution per slot, on a verdict for exactly this call |
| Gateway | request counter, event | requestEvaluation | repeated requests | counts and announces |
| Broker (`apps/broker/src`) | tables requests, cre_authorizations, capabilities; nonce counter in memory | createRequest, getRequest | calls interleave at awaits, chain calls fail or time out, restarts | one capability per key, unique nonces, nothing untracked |
| Deployment orchestrator (`packages/studio-orchestrator`, `scripts/studio/group-e-deploy.ts`) | the run: phase, step status, transaction records, addresses; saved on disk | resume, executeStep by kind, save, load | lost answers, deadlines, late mining, crashes, resumption | no repeated write, dependencies first, ready means complete |
| Fork agent runtime (`apps/studio/src/fork/runtime.ts`) | loop and timer, the tick in flight, decisions, pending escalations, approvals on the fork | start, tick, approve, decline, pause, resume, stop | a timer, HTTP requests and approvals interleave at awaits; any await throws, also after its transaction was mined | no escalated step without a person, true records, a stop that quiesces, a loop that survives |
| Control plane (`packages/studio-control-plane`, `apps/studio/src/control`, `fork/service.ts` execute) | the command log, the lock | issue, validate, begin, execute, complete; emergency lock | repeated and concurrent commands, steps of the lock that throw | an intent counts once, a lock is settled, nothing moves after it |
| Fork service (`apps/studio/src/fork/service.ts`, `packages/studio-reality/src/fork.ts`) | deployment rows, live records, Anvil children, quota | deploy, the worker's phases, stop, reconcile, shut down | stop during a deployment, failing phases, crash | no leaked fork, ready means standing, no deployment stays DEPLOYING |
| Build pipeline and quota (`apps/studio/src/pipeline.ts`, `quota.ts`) | builds, Blueprints, reservations, passes, sandboxes | create, design, approve, edit, abandon, build, reconcile | overlapping requests on one build, failing model calls, ceilings at their edge, restarts | reservations balance, completion is earned, sandboxes end, slots are let go |
| Organization budget (`packages/studio-org/src/budget.ts`) | table org_spend, revocations, the write lock | reserve, settle, release, revoke | several processes over one file; a moving window | no window is overspent, a revoked agent spends no more |
| Activation, verification, receipt | the deployed system | activate, verify | partial activation | activation only of a ready deployment |
| Private policy (`packages/policy`, `workflows/cre-policy`) | none | evaluatePolicy | none (pure) | deny before escalate before allow |
| Plan and strategy machines, CRE simulator, broadcast, bridge | plan state; trigger queue; pairing codes and nonces | transitions, scheduling, sending, bounded local operations | ordering, lost answers | legal transitions only, deterministic order |
| Runtimes, studio routes, data packages, adapters, clients, frontend | documents, processes, UI | see `PROJECT.json` | I/O | not modelled |

How they interact. An agent calls the broker's HTTP API. The broker reads ENS,
calls `requestEvaluation` on the gateway, has the context evaluated, sends the
report to the consumer, which records it in the authorization registry, and
signs a capability that names that record. For an ESCALATE a person signs the
capability's digest on a Ledger and anybody may submit it to the approval
registry. Anybody may present a capability to the executor, which reads the
four registries. The pipeline builds an agent; the deployment script puts the
contracts on chain and leaves the policy disabled; the fork service does the
same on an Anvil child and starts a runtime there, whose ticks propose actions
and take them through the same contracts. Commands of the control plane, the
emergency lock among them, act on that runtime and on its contracts while ticks
and approvals are under way.

## 2. Modules

| Module | Models | Uses |
|---|---|---|
| `ChainTypes` | the capability, the request hash, replay slots, block time | |
| `PolicyRegistry`, `EnsIdentity`, `AuthorizationRegistry`, `ApprovalRegistry` | one contract (or contract pair) each | `ChainTypes` |
| `Registries`, `RegistryProofs` | policy and identity registry side by side; theorems | the two registries |
| `Executor`, `ExecutorProofs` | the executor, composed with the four; theorems | all of the above |
| `OneShotAuthority` | abstract: what the contracts promise together | |
| `Broker`, `BrokerProofs` | the broker with its database and its view of the chain; theorems | |
| `DeploymentOrchestrator`, `DeploymentProofs` | the orchestrator, its script and its environment; theorems | |
| `ForkRuntime` | one agent's runtime on its fork | |
| `ControlPlane` | commands and emergency lock, composed with the runtime | `ForkRuntime` |
| `ControlProofs` | theorems of the runtime, and of the control plane over it | `ControlPlane` |
| `ForkService`, `ForkServiceProofs` | deployments, stops and Anvil children; theorems | |
| `StudioPipeline`, `PipelineProofs` | builds and the quota ledger; theorems | |
| `OrgBudget`, `OrgBudgetProofs` | the organization's spend ledger; theorems | |
| `MC*` | instances for TLC | |

**Contracts.** A transaction is atomic, so every external function is one
action whose guard is the conjunction of its require conditions, and a call
that reverts is no step: the state it would leave is the state before it. The
one place where foreign code runs inside a transaction is the executor's call
of the target, so `execute` is two steps, up to the call and from its return.
In between the target is the only `msg.sender` and may call anything, `execute`
included. A target that reverts takes the whole transaction back to a state
that was already reachable. Hashes are the values they are hashes of (no
collisions); a signature is membership in the set of what was signed. ENSv2 is
external: names are registered, transferred, have roles changed (which
regenerates the token id) and expire, as far as the three reads of the verifier
can tell.

**Node processes.** In the broker, the runtime, the control plane, the fork
service and the pipeline one stretch of code between two awaits runs at a time.
The position of a handler (`pc`, `tick.at`, `request[r].at`, `run[r].at`) is
the await it is suspended in, its other fields are the handler's locals, and
each action is one stretch. Every await may also fail; where it is a
transaction or a remote call, it may fail after it took effect.

* *Broker*: the tables and the chain survive a `restart`; calls in flight and
  the nonce counter do not. Identity reads are one step; the policy commitment
  is configuration and constant; a verdict is any of the three.
* *Fork runtime*: `loop`, `timer` and `tick` are the scheduling fields of the
  class, so that a tick asked for over HTTP is joined and not doubled.
  `decisions` is the list of DecisionRecords with what the fork knows of each:
  the steps used and the approvals relayed. What a driver reads and proposes is
  the verdict its need is given. `asked`, `declined` and `raced` are history.
* *Control plane*: `commands` is the table, `request` the endpoint's handlers.
  Its steps on the runtime are `ForkRuntime`'s own actions, so its next-state
  relation is the runtime's together with the handlers'. A lock goes through
  its steps in order, each may throw, and its outcome is what was verified.
* *Fork service*: `row` and `named` are the table, `live` and `known` the map
  of live deployments and whether a record names the fork, `worker` and
  `setupPhase` where `runDeployment` is, `fork` the provider's map and `anvil`
  the child processes. `stopping` counts the stops between destroying the fork
  and writing the row. A crash leaves the children running: they are ended by
  the signal handlers only.
* *Pipeline*: `run` holds every design and build request. A Blueprint is
  whether validation calls it buildable; the three model budgets are the one
  that counts requests. `overlapped`, `astray` and `orphaned` are history: they
  name the circumstances under which the code promises less.

**Orchestrator.** `run` is the object in memory, `saved` the file. `invoke`
loads and enters `resume`, whose two loops visit one step per action, since
each visit awaits a read. A write is split at its awaits: the nonce and
calldata, the send, the receipt, the observation. Underneath, the chain mines
what is in the mempool, in nonce order, successfully or not, at any time. The
`Fault` constant says which faults an instance may meet: `lostAnswer` (the
call took effect and its answer is lost), `readFails` (a read after a found
receipt throws), `crash` (the process is killed). Deadlines, reverts, declined
signatures, expired sessions and reads that throw before anything happened are
not faults in this sense: they may always happen. `effects` counts how often
the world was really changed as a step intends.

**Organization budget.** Processes share a SQLite file. A reservation is a
transaction that takes the write lock when it begins, reads the totals and
commits its insert later; a process may die in between. Totals are sums over
the rows of the moving window; `cents` states such a sum as the number of pairs
of a row and a cent it holds, which the provers can reason about without
induction over the rows.

## 3. Runs

Passing runs:

| Run | Checks | Shows |
|---|---|---|
| `registries` | `UnclaimedIsClosed`, `RegeneratedIsDead` | no order of claims and writes opens an unclaimed identity; a binding to a regenerated token id never comes back |
| `executor` | `SlotExecutesOnce`, `ExecutedStandsOnVerdict`, `NeverNested`, `SentWhatWasJudged`, `SpentStaysSpent`, `ImplementsOneShotAuthority` | the contracts together are a one-shot authority |
| `broker` | `OneCapabilityPerKey`, `NoncesAreUnique`, `ReturnedIsTracked`, `OutcomesAreFinal`, `DisagreementNeedsARace` | idempotency and tracking survive interleavings and restarts |
| `deployment` | `RepeatNeedsAFault`, `EffectsFollowDependencies`, `ReadyIsComplete` | resumption is sound unless a fault hides an outcome |
| `fork_runtime` | `EscalationNeedsHuman`, `RecordsAreTrue`, `OneOpenQuestion`, `QuietDeclineIsFinal`, `StopQuiesces`, `KeepsLooking` | escalations wait for people, records match the fork, stop stops, the loop outlives failures |
| `control` | `OncePerIntent`, `NothingMovesAfterLock`, `LockIsSettled`, `LockStopsTheRuntime` | commands are idempotent, and the emergency lock works although its steps fail |
| `pipeline` | `HeldIsInFlight`, `OvershootIsBounded`, `CompletedIsProven`, `PassesAreCapped`, `SandboxHasItsRun`, `RunLetsGo` | budget, gate, ceiling, sandboxes and slots survive overlapping requests and a restart |
| `org_budget` | `EveryWindowHolds`, `RevokedSpendsNoMore`, `ResolvedOnce` | no window of any past moment is overspent |
| `fork_service` | `EveryForkHasAnOwner`, `ReadyHasItsFork`, `NoRuntimeOutlives`, `OneActivePerProject`, `DeployingEnds` | what goes wrong takes a stop that was answered before the worker ended |

Each property has a mutant, an operator that changes one mapped definition the
way a plausible bug would, under which TLC finds the property violated.

Runs that refute a statement of the repository (quoted in `PROJECT.json`):

| Run | Statement | What the code does |
|---|---|---|
| `retry` | a write is retried only when it is proven that nothing was mined | a record left SUBMITTED by a failed read is sent again |
| `lock_restores` | while an emergency lock is in force, what restores capability is refused | the endpoint never says that a lock is in force, and ENABLE_POLICY or RESUME_RUNTIME is begun |
| `unbuildable` | a build advances only when the stage's gate passed | a Blueprint edited into an unbuildable one after its approval is built |

The `retry` run allows the fault `readFails`. With `Fault = {"lostAnswer"}` or
`Fault = {"crash"}` in its configuration TLC violates `NoDuplicateWrite` in two
further ways: a transaction whose hash was lost is declared absent by its nonce
while it is still in the mempool (`receipts.ts:181`), and a killed invocation
has saved nothing (`group-e-deploy.ts:425`).

### Bounds

* `registries`: two accounts, one name whose identity one of them can claim,
  one policy, binding versions up to 2, two token ids, times 0 and 1:
  registration, regeneration, expiry and a second registration all happen.
* `executor`: one identity, three accounts (governance, the human, the target),
  three capabilities of which two share a slot and one needs a person, an
  ALLOW and a DENY that compete for one record and an ESCALATE under another,
  two calldatas, times 0 to 2. `MaxGovernance` (1) bounds changes of
  configuration after deployment and `MaxSignatures` (1) the approvals signed.
  The initial state of this run is the one the deployment scripts leave, since
  the many orders in which they configure the contracts are not the question;
  the proofs start from the empty contracts (`Init`).
* `broker`: three calls over two keys, so that two share one, two identities,
  a refused and an accepted action, seconds of two milliseconds, times 0 to 3,
  `MaxMints` (2) capabilities per process. Calls and keys are interchangeable,
  and symmetry is used.
* `deployment`: seven steps in three branches (a contract and its policy, a
  CRE workflow and its pause, an image and its scan) joined by a verification,
  `MaxSends` (3) transactions and `MaxFaults` (1) faults. Two writes suffice
  for one to depend on another, three sends for each to be sent and one to be
  repeated.
* `fork_runtime`: one driver, proposals of two steps (so that one can fail
  between two), `MaxProposals` (2) for a second question to be possible, two
  callers that approve at once, `MaxMoves` (4) changes by the operator
  and by the world, `MaxFaults` (1) awaits that fail.
* `control`: one driver, one step, one proposal, one approving caller, two
  requests over all seven operations, `MaxMoves` (1), `MaxFaults` (1): two
  handlers, a tick and an approval suffice for every overlap the lock can meet.
* `pipeline`: one build (builds share nothing but the concurrency cap), two
  requests, two Blueprint and two build revisions, calls that use 1 or 2 of 3
  model requests, one repair loop, one pass, `MaxRestarts` (1): each ceiling is
  reached and each crossing of two requests happens.
* `org_budget`: two agents in two processes, 0 to 2 cents, a day of two time
  units, `MaxTime` (3) for windows that overlap in part, `MaxRows` (3),
  symmetry of agents and of processes.
* `fork_service`: two deployments of one project, two setup phases, a quota of
  one fork, `MaxStops` (2), `MaxRestarts` (1).

### Deadlock and fairness

Deadlock checking is off because these systems really stop: time, faults and
users' moves are bounded, `READY_TO_ACTIVATE` is final, an idle runtime that
was told to stop does nothing more.

Liveness is checked under weak fairness of what the event loop does by itself:
an await that is pending settles, with an answer or an exception (model calls,
sandbox commands, RPC and Anvil calls have timeouts), a timer that is set
fires, and a handler whose await has settled goes on. Nothing is assumed of
users, operators, the verdicts or the chain's state. The `control` run needs
the fairness of its request handlers only. `KeepsLooking` is stated for a
runtime that is started and neither paused nor stopping; `DeployingEnds` needs
no restart to happen, because the reconciliation is part of starting, and a
crash is a start that follows. The broker and the orchestrator have no retry
loop of their own (a broker row stays PENDING, a deployment waits for its next
invocation), so nothing is claimed of their progress.

## 4. Proofs

All constants are arbitrary, subject to the named assumptions of the modules.
The inductive invariants of the Node processes and of the ledger were also
checked by TLC on the instance of their run.

**`ExecutorProofs`.** `TypeCorrect` first: each contract's operations keep its
types, proved once per contract and combined per step. Then `Invariant`:
`SlotExecutesOnce` and `ExecutedStandsOnVerdict` are not inductive. A target
that returns adds an execution, so the invariant has to say of the *running*
call that its slot is used and nothing was executed in it, that it stands on
its verdict (`RunningHoldsItsSlot`), that executed capabilities have used slots
(`ExecutedSlotsUsed`), that there is one running call at most (`NeverNested`),
and that approvals on record were signed (`ApprovalsAreSigned`). The verdict
part survives other contracts' steps because records are write-once, consumed
approvals and signatures only grow. `SpentForever` is an action property, and
`Refinement` shows that every step is a step of `OneShotAuthority` or leaves its
variables unchanged: recording is `Decide`, signing on the device is `Consent`,
and the target's return is `Execute`.

**`RegistryProofs`.** `UnclaimedAuthorisesNothing` is an invariant that every
setter's admin check maintains. `RegenerationKills` says that an
identity is never current again once its name's token id has passed the one it
was bound to; it rests on `TokenIdsRise`: no registration, transfer, change of
roles or expiry makes a name's token id smaller.

**`BrokerProofs`.** The key idea is `KeyHasOneOwner`: the lookup and the INSERT
are in one stretch, so one call owns a key for ever, and while it is in flight
the row is PENDING. From that come `OnePerKey` and `NoOutcomeIsReopened`;
`CapabilityHasItsCall` gives `NoUntrackedAuthority`. `FreshNonces` rests on
`NoncesRise`: the next nonce exceeds all earlier ones although the counter is
reset, because a restart takes at least one millisecond and one process makes
at most `NonceScale` capabilities between two clock ticks (`BrokerAssumption`
makes `MaxMints` at most `NonceScale`; without it the property is false).
`OnlyRacesDisagree` rests on `RaceInv`: every verdict on the chain has a call
that evaluated it (`Witness`), a call whose report was mined, reverted or not,
finds a verdict under its id (`Landed`), and a capability's call evaluated ALLOW
under the capability's id. So a capability's id has a record; if it is another
verdict, its witness is another call, and since a key has one owner it has
another key.

**`OrgBudgetProofs`.** `Exclusive` proves that a transaction past its reads
holds the one lock and its agent is not revoked; `RevocationHolds` and
`ResolvedForGood` follow step by step. `EveryWindowIsWithin` is about windows
that a reservation never looked at: those that ended in the past, or end
between two rows. `WindowInv` adds that no row is dated later than now, and that
what a transaction read covers the window that ends now, although time went on
since (`SeenCovers`): that makes the check before the insert good at the time
of the insert. The sums are handled as cardinalities: settling or releasing
shrinks a set of pairs, an insert adds a disjoint one.

**`ForkServiceProofs`.** `Invariant` ties, for every deployment, the worker's
phase, the row, the live record, the fork, the runtime and the stops under way
together (`WorkerMatches`, `RowMatches`, `StopMatches`); the four safety
properties are then read off it.

**`ControlProofs`, the runtime.** The properties speak of what was done to a proposal, so
the invariant says what each suspended tick (`TickSound`) and each approval
(`ApproveSound`) may still do to it: which step is next, that earlier ones are
used, whether a person asked. `DecisionSound` says of every record how its
verdict, approvals and used steps fit. `OneOpenQuestion` is itself part of the
induction: the tick that is about to ask has seen no open question of its
driver, and only one tick is in flight.

**`ControlProofs`, the control plane.** Every control step is a runtime step or leaves the runtime
alone (`ControlMovesTheRuntime`), so `RuntimeInv` carries over, and
`ControlImplementsRuntime` shows the refinement of the runtime with its
fairness: what the `fork_runtime` run checks of a runtime by itself, liveness
included, holds of one under commands and locks. For
`IntentsAreIdempotent` the log knows every key that was started and a handler
that is about to perform is the one that began it. For `LocksHold` the
invariant `enabled => enabledSince` is enough: after a lock that verified the
disabled policy, the executor on the fork lets no step through until a command
enables it again, whatever was in flight.

**`PipelineProofs`.** `PipelineInv` says what the locals of a request know of
its build (`RunSound`), what a row promises (`BuildSound`), and for builds whose
runs never overlapped that there is one run (`OneRun`) and where its sandbox is
(`SandboxSound`, `AliveSound`). `HeldIsInFlight` counts: every stretch moves the
held reservations as it moves the set of requests in a call (`HeldKeeps`).
`CompletedIsProven` needs that a reviewer's answer finds the green pass that
was recorded before it was asked, and `PassesAreCapped` that green passes are
no more than the counter and are added below the ceiling only.
`OvershootHolds` counts again (`SpentInv`): what is used and held, with what
each call in flight may still cost beyond its reservation, exceeds the limit by
no more than all requests together could. A reservation within the limit, a
settlement and a release each keep that (`SpendMove`). `PipelineAssumption`
says that a largest usage exists.

**`DeploymentProofs`.** Each action is first reduced to what the invariants can
tell of it (the `...Moves` lemmas: which step's entry it touches, whether the
run is saved, what happens to the world), and with that to `DeploymentTyped`,
which also says where an await may be resumed. Two invariants build on it.
`OrderInv`: what the run in memory *or* on disk calls done exists
(`Truthful`), the step being sent has all it depends on (`Grounded`), and so
has everything in the mempool; since effects are never undone,
`EffectsAreOrdered` and `ReadyIsTrue` follow. `OnceInv`, for
`NothingIsRepeated`: a step that no fault has touched has one transaction in
the mempool or one effect, not both, and once it has either it is closed
(`Closed`: done, failed, or confirmed with a record that `assertSafeToRetry`
refuses) or its receipt is being waited for. What makes this survive a crash is
that the disk never calls such a step SUBMITTED, so a step whose status is the
same in memory and on disk is closed on disk too; where they differ, the crash
is the fault. `NoDuplicateWithoutFault` is the promise the `retry` run refutes,
restricted to deployments without a fault, where it holds. `ProgressIsKept` is
an action property: the saved run never loses a done step, and after
READY_TO_ACTIVATE nothing is run, saved or sent.

Only model-checked: liveness (`StopQuiesces`, `KeepsLooking`, `LockIsSettled`,
`LockStopsTheRuntime`, `RunLetsGo`, `DeployingEnds`), which is out of the
prover's reach, as is ENABLED. Every other property of a passing run is also a
theorem.

## 5. Observations

What modelling showed and no run is spent on:

* *Contracts*: bumping the binding version does not touch outstanding
  capabilities, since the executor does not read it; a DENY after an ALLOW for
  the same request leaves the ALLOW executable; the consumer stores the
  expected policy commitment and never compares it; rebinding a name leaves the
  former binding current as well.
* *Broker*: when `evaluate` throws or the process dies the row stays PENDING for
  ever (`broker.ts:236`); an answer that carried the capability and was lost
  cannot be had again (`broker.ts:351`); an identity is three chain reads
  (`ens-live.ts:69`).
* *Orchestrator*: `policyWritten` is set before the send, so a declined
  signature hides the step; a FAILED step is never chosen again; the CRE status
  read back is not compared (`orchestrator.ts:454`); VERIFIED steps are not
  observed again (`:201`); a refusal is recognised by the error's text (`:341`);
  phases only move forward while the plan's order is not theirs
  (`machine.ts:94`).
* *Runtime and control*: a decline that races an approval does not stop it; a
  repeated stop or lock is answered from the log, because the revision of a
  fork, which is part of the key, never changes.
* *Fork service*: the quota counts READY forks only, so forks that are
  being created do not count (`packages/studio-reality/src/fork.ts:390`); `reapExpired` has no caller; Anvil children survive a
  crash of the server, while `apps/studio/src/server.ts:45` says that a fork
  goes when its parent does.
* *Pipeline*: a design that fails leaves its build RUNNING, and starting a build
  again does not ask the concurrency cap.
* *Organization budget*: an agent's daily limit is applied over the aggregate's
  window (`budget.ts:132`, `schema.ts:43`), and only the tightest aggregate is
  enforced.

## 6. Not modelled, and simplifications

* A chain that reorganises: mined is final, so confirmation counts are absent.
* The text of errors; gas, balances and value transfer (the value is compared,
  not moved).
* A fresh start of the deployment script (`--fresh`, or a changed manifest),
  and the drift checks that throw before anything is changed.
* Alerts, metrics, sample history and events, which nothing reads back;
  user-requested simulations; the content of Blueprints and files.
* Control operations of deployments that are not forks.
* The frontend (more than a third of the repository's lines), data packages,
  code generators, schemas, adapters, encoders, HTTP plumbing, device
  transport, tests and vendored code: they transform data or draw screens and
  keep no protocol state. A model of them would be a transcription, so the
  lines the map covers stay a small share of the whole; the share of the
  stateful code (contracts, broker, orchestrator, fork, control, pipeline,
  quota and budget) is what the models are for.
* The broker's transition table (`state-machine.ts`) is used by tests only.

## 7. Plan

1. *(done)* contracts, executor, abstract one-shot authority, proofs.
2. *(done)* broker and proofs; orchestrator under faults.
3. *(done)* fork runtime, control plane over it, fork service, pipeline and
   quota, organization budget; liveness; proofs for each.
4. *(done)* orchestrator proofs; the sums of the budget and the quota; the race
   behind a disagreeing verdict. Every safety property of a run is proved.
5. A chain that reorganises under the orchestrator; the ENS reads split.
6. The bridge daemon: pairing codes, nonces and bounded operations.
7. Activation: from READY_TO_ACTIVATE through partial failures.
