----------------------- MODULE DeploymentOrchestrator -----------------------
(***************************************************************************)
(* The deployment orchestrator (packages/studio-orchestrator/src) as the   *)
(* deployment script drives it: one invocation at a time loads the run,    *)
(* resumes it, executes steps until one throws or none is left, and saves  *)
(* the run.  The chain, the CRE registry and the image registry go on by   *)
(* themselves between any two awaits, and the process may be killed.  A    *)
(* step is its position in the plan.  Approval and manifest are fixed: the *)
(* drift checks throw before anything changes.                             *)
(***************************************************************************)
EXTENDS Integers, FiniteSets

CONSTANTS
  N,          \* steps in the plan
  Type,       \* the type of each step
  Deps,       \* dependencyIds of each step
  Fault,      \* what may go wrong: see the actions that mention it
  MaxSends,   \* bound: transactions the wallet sends
  MaxFaults,  \* bound: faults over the life of the deployment
  None

Step == 1..N

ObservationType == {"VERIFY_CHAIN", "VERIFY_CORE", "CHECK_CRE_ACCESS",
                    "BUILD_CRE_WASM", "VERIFY_CRE_HASH", "POST_DEPLOY_VERIFY"}
WriteType == {"DEPLOY_CONTRACT", "CONFIGURE_CONTRACT",
              "REGISTER_POLICY_DISABLED", "REGISTER_ENS_IDENTITY"}
ImageType == {"BUILD_RUNTIME_IMAGE", "SCAN_RUNTIME_IMAGE",
              "PUBLISH_RUNTIME_IMAGE", "CREATE_RUNTIME_DISABLED"}
StepType == ObservationType \cup WriteType \cup ImageType
              \cup {"DEPLOY_CRE_PRIVATE", "PAUSE_CRE"}

\* No step waits for itself or for a later one, and none is an ACTIVATE.
validatePlan ==
  /\ Type \in [Step -> StepType]
  /\ Deps \in [Step -> SUBSET Step]
  /\ \A s \in Step : \A d \in Deps[s] : d < s

ASSUME PlanAssumption ==
  /\ N \in Nat /\ MaxSends \in Nat /\ MaxFaults \in Nat /\ None \notin Int
  /\ validatePlan
  /\ Fault \subseteq {"lostAnswer", "readFails", "crash"}

VARIABLES
  run,       \* the DeploymentRun in memory
  saved,     \* the run on disk
  pc,        \* the await the invocation is suspended in, or "down"
  todo,      \* resume: the steps its current loop has still to visit
  current, nonce,   \* the step executeWrite is sending and the nonce it read
  accountNonce, mempool, mined,   \* the chain, as the deployer's account sees it
  effects,   \* how often the world was changed the way each step intends
  cre,       \* the workflow's real state
  sends,     \* transactions sent so far
  faults,    \* faults so far
  unlearned  \* steps whose outcome a fault kept from the orchestrator

local     == <<current, nonce>>
history   == <<faults, unlearned>>
chainVars == <<accountNonce, mempool, mined>>
vars == <<run, saved, pc, todo, local, chainVars, effects, cre, sends, history>>
-----------------------------------------------------------------------------
HAPPY_PATH == <<"DEPLOYMENT_APPROVED", "DEPLOYING_CHAIN_COMPONENTS",
                "CONFIGURING_POLICY_DISABLED", "DEPLOYING_CRE",
                "PAUSING_OR_CONFIRMING_CRE_STATE", "BUILDING_RUNTIME_IMAGE",
                "VERIFYING_DEPLOYMENT", "READY_TO_ACTIVATE">>
Happy  == {HAPPY_PATH[i] : i \in 1..8}
PAUSES == {"DEPLOYMENT_PAUSED_USER", "DEPLOYMENT_PAUSED_SIGNER",
           "DEPLOYMENT_PAUSED_CRE_AUTH", "DEPLOYMENT_FAILED_RECOVERABLE",
           "DEPLOYMENT_PARTIAL"}
DEPLOYMENT_STATES == Happy \cup PAUSES \cup {"DEPLOYMENT_FAILED_TERMINAL"}
RESUMABLE_STATES  == (Happy \ {"READY_TO_ACTIVATE"}) \cup PAUSES

Position(state) == CHOOSE i \in 1..8 : HAPPY_PATH[i] = state

\* buildTransitions: forward to any later phase, READY_TO_ACTIVATE only from
\* verification, a pause from anywhere and from a pause anywhere else.
CanMove(from, to) ==
  \/ /\ from \in Happy \ {"READY_TO_ACTIVATE"}
     /\ \/ to \in PAUSES \cup {"DEPLOYMENT_FAILED_TERMINAL"}
        \/ /\ to \in Happy /\ Position(from) < Position(to)
           /\ to = "READY_TO_ACTIVATE" => from = "VERIFYING_DEPLOYMENT"
  \/ /\ from \in PAUSES
     /\ to \in (DEPLOYMENT_STATES \ {"READY_TO_ACTIVATE"}) \ {from}

phaseFor(type) ==
  CASE type \in {"VERIFY_CHAIN", "VERIFY_CORE", "DEPLOY_CONTRACT"} ->
         "DEPLOYING_CHAIN_COMPONENTS"
    [] type \in WriteType \ {"DEPLOY_CONTRACT"} -> "CONFIGURING_POLICY_DISABLED"
    [] type \in {"CHECK_CRE_ACCESS", "BUILD_CRE_WASM", "VERIFY_CRE_HASH",
                 "DEPLOY_CRE_PRIVATE"} -> "DEPLOYING_CRE"
    [] type = "PAUSE_CRE" -> "PAUSING_OR_CONFIRMING_CRE_STATE"
    [] type \in ImageType -> "BUILDING_RUNTIME_IMAGE"
    [] type = "POST_DEPLOY_VERIFY" -> "VERIFYING_DEPLOYMENT"

StepStatus == {"PENDING", "READY", "SUBMITTED", "UNKNOWN_SUBMISSION_STATE",
               "CONFIRMED", "VERIFIED", "SKIPPED_ALREADY_SATISFIED", "FAILED"}
SubmissionState == {"NOT_SUBMITTED", "SUBMITTED", "UNKNOWN_SUBMISSION_STATE",
                    "MINED_SUCCESS", "MINED_REVERTED", "CONFIRMED_ABSENT"}
TxRecord == [state : SubmissionState, nonce : Nat, hash : Nat \cup {None}]
Tx       == [step : Step, nonce : Nat, hash : Nat]
Run == [state : DEPLOYMENT_STATES, status : [Step -> StepStatus],
        transactions : [Step -> TxRecord \cup {None}],
        createdAddresses : SUBSET Step, policyWritten : SUBSET Step,
        creStatus : {"PAUSED", "ACTIVE", None}, imageBuilt : SUBSET {"digest"}]

newRun == [state |-> "DEPLOYMENT_APPROVED", status |-> [s \in Step |-> "PENDING"],
           transactions |-> [s \in Step |-> None], createdAddresses |-> {},
           policyWritten |-> {}, creStatus |-> None, imageBuilt |-> {}]

Init ==
  /\ run = newRun /\ saved = newRun /\ pc = "down" /\ todo = {} /\ current = None /\ nonce = 0
  /\ accountNonce = 0 /\ mempool = {} /\ mined = {}
  /\ effects = [s \in Step |-> 0] /\ cre = None /\ sends = 0
  /\ faults = 0 /\ unlearned = {}
-----------------------------------------------------------------------------
First(S) == CHOOSE s \in S : \A t \in S : s <= t

setStatus(r, s, status) == [r EXCEPT !.status[s] = status]
setTransaction(r, s, tx) == [r EXCEPT !.transactions[s] = tx]
TxState(r, s) == IF r.transactions[s] = None THEN "none" ELSE r.transactions[s].state

DoneStatus == {"VERIFIED", "SKIPPED_ALREADY_SATISFIED"}
Done(r) == {s \in Step : r.status[s] \in DoneStatus}

\* Mutant: the order of the plan alone decides.
RunnableInOrder(r) == {s \in Step \ Done(r) : r.status[s] # "FAILED"}
\* The steps nextStep chooses the first of.
Runnable(r) == {s \in Step \ Done(r) : r.status[s] # "FAILED" /\ Deps[s] \subseteq Done(r)}

\* The invocation ends, with or without an exception, and the script saves.
Stop(r) ==
  /\ run' = r /\ saved' = r
  /\ pc' = "down" /\ todo' = {} /\ current' = None /\ nonce' = 0
\* It goes on: in one of resume's loops, to the next step, or within a write.
Visit(r, loop, steps) == run' = r /\ pc' = loop /\ todo' = steps /\ UNCHANGED <<saved, local>>
Proceed(r) ==
  /\ run' = r /\ UNCHANGED saved
  /\ pc' = "next" /\ todo' = {} /\ current' = None /\ nonce' = 0
Await(r, label) == run' = r /\ pc' = label /\ UNCHANGED <<saved, todo, local>>

\* A fault of this kind happens, to one of these steps.
Faulty(kind, steps) ==
  /\ kind \in Fault /\ faults < MaxFaults
  /\ faults' = faults + 1
  /\ unlearned' = unlearned \cup steps

\* observe answers from the world.  It may be behind (a lagging node), never
\* ahead; a creation is only seen once its address is known.  A policy that was
\* never registered reads as disabled too, so for it observe relies on the flag
\* set when its calldata was built (the binding version it also reads is not 0
\* by then: claiming the identity is a dependency).
Visible(s, r) ==
  \/ Type[s] \in ObservationType \ {"POST_DEPLOY_VERIFY"}
  \/ Type[s] = "DEPLOY_CONTRACT" /\ effects[s] > 0 /\ s \in r.createdAddresses
  \/ Type[s] \in {"CONFIGURE_CONTRACT", "REGISTER_ENS_IDENTITY"} /\ effects[s] > 0
  \/ Type[s] = "REGISTER_POLICY_DISABLED" /\ s \in r.policyWritten
  \/ /\ Type[s] = "POST_DEPLOY_VERIFY"
     /\ \A t \in Step :
          /\ Type[t] \in WriteType \ {"REGISTER_POLICY_DISABLED"} => effects[t] > 0
          /\ Type[t] = "DEPLOY_CONTRACT" => t \in r.createdAddresses

\* receipts.ts: what reconcile makes of a record.
reconcile(tx) ==
  IF tx.hash # None
  THEN [tx EXCEPT !.state =
         IF \E m \in mined : m.hash = tx.hash /\ m.ok THEN "MINED_SUCCESS"
         ELSE IF \E m \in mined : m.hash = tx.hash THEN "MINED_REVERTED"
         ELSE "UNKNOWN_SUBMISSION_STATE"]
  ELSE [tx EXCEPT !.state = IF accountNonce <= tx.nonce THEN "CONFIRMED_ABSENT"
                            ELSE "UNKNOWN_SUBMISSION_STATE"]

\* The address a receipt carries becomes known with it.
learnAddress(r, s) ==
  IF TxState(r, s) = "MINED_SUCCESS" /\ Type[s] = "DEPLOY_CONTRACT"
  THEN [r EXCEPT !.createdAddresses = @ \cup {s}] ELSE r

\* A retry is refused while an outcome is unknown and after a success.
assertSafeToRetry(r, s) ==
  TxState(r, s) \notin {"UNKNOWN_SUBMISSION_STATE", "MINED_SUCCESS"}
-----------------------------------------------------------------------------
\* The script starts, loads the run and calls runToCompletion, whose resume
\* first looks at every record with an unknown outcome...
invoke ==
  /\ pc = "down" /\ saved.state \in RESUMABLE_STATES
  /\ run' = saved
  /\ todo' = {s \in Step : TxState(saved, s) = "UNKNOWN_SUBMISSION_STATE"}
  /\ pc' = "reconcile"
  /\ UNCHANGED <<saved, local, chainVars, effects, cre, sends, history>>

resumeReconcile ==
  /\ pc = "reconcile"
  /\ \/ /\ todo # {}
        /\ LET s == First(todo)
               r == setTransaction(run, s, reconcile(run.transactions[s]))
           IN  Visit(learnAddress(r, s), "reconcile", todo \ {s})
     \/ /\ todo = {}
        /\ Visit(run, "observe", {s \in Step \ Done(run) :
                                   TxState(run, s) # "UNKNOWN_SUBMISSION_STATE"})
     \/ todo # {} /\ Stop(run)    \* the read throws
  /\ UNCHANGED <<chainVars, effects, cre, sends, history>>

\* ...and then at the world, for every step that is not done.
resumeObserve ==
  /\ pc = "observe"
  /\ \/ /\ todo # {}
        /\ LET s == First(todo) IN
           \/ /\ Visible(s, run)
              /\ Visit(setStatus(run, s, IF TxState(run, s) = "MINED_SUCCESS"
                         THEN "VERIFIED" ELSE "SKIPPED_ALREADY_SATISFIED"),
                       "observe", todo \ {s})
           \/ Visit(run, "observe", todo \ {s})
     \/ todo = {} /\ Proceed(run)
     \/ todo # {} /\ Stop(run)    \* observe throws
  /\ UNCHANGED <<chainVars, effects, cre, sends, history>>

\* Mutant: a deployment with no step to run is taken for a finished one.
finishAnyway ==
  /\ pc = "next" /\ Runnable(run) = {}
  /\ Stop([run EXCEPT !.state = "READY_TO_ACTIVATE"])
  /\ UNCHANGED <<chainVars, effects, cre, sends, history>>

\* Nothing is left to run: READY_TO_ACTIVATE if nothing is left at all.
finish ==
  /\ pc = "next" /\ Runnable(run) = {}
  /\ Stop(IF Done(run) = Step THEN [run EXCEPT !.state = "READY_TO_ACTIVATE"] ELSE run)
  /\ UNCHANGED <<chainVars, effects, cre, sends, history>>

Ready(s) == pc = "next" /\ Runnable(run) # {} /\ s = First(Runnable(run))
PhaseIsLegal(s) ==
  \/ run.state = phaseFor(Type[s])
  \/ CanMove(run.state, phaseFor(Type[s]))
moved(s) == [run EXCEPT !.state = phaseFor(Type[s])]

\* executeStep refuses: an illegal phase change, or an unsafe retry.
executeStepThrows(s) ==
  /\ Ready(s)
  /\ \/ ~PhaseIsLegal(s) /\ Stop(run)
     \/ PhaseIsLegal(s) /\ ~assertSafeToRetry(run, s) /\ Stop(moved(s))
  /\ UNCHANGED <<chainVars, effects, cre, sends, history>>

Executes(s, types) ==
  Ready(s) /\ PhaseIsLegal(s) /\ assertSafeToRetry(run, s) /\ Type[s] \in types

\* A handler that throws before it did anything: a read failed, the artifact
\* drifted, there is no image to work on.
executeThrows(s) ==
  /\ Executes(s, StepType)
  /\ Stop(moved(s))
  /\ UNCHANGED <<chainVars, effects, cre, sends, history>>

executeObservation(s) ==
  /\ Executes(s, ObservationType)
  /\ \/ Visible(s, run) /\ Proceed(setStatus(moved(s), s, "VERIFIED"))
     \/ Stop(setStatus(moved(s), s, "FAILED"))
  /\ UNCHANGED <<chainVars, effects, cre, sends, history>>

\* executeWrite up to sendTransaction: the nonce is read, the calldata resolved.
executeWrite(s) ==
  /\ Executes(s, WriteType)
  /\ run' = [setStatus(moved(s), s, "SUBMITTED") EXCEPT !.policyWritten =
               IF Type[s] = "REGISTER_POLICY_DISABLED" THEN @ \cup {s} ELSE @]
  /\ pc' = "send" /\ current' = s /\ nonce' = accountNonce
  /\ UNCHANGED <<saved, todo, chainVars, effects, cre, sends, history>>

\* The record a send updates: the step's own, or a new one with this nonce.
record == IF run.transactions[current] # None THEN run.transactions[current]
          ELSE [state |-> "NOT_SUBMITTED", nonce |-> nonce, hash |-> None]

\* A node takes the transaction.
Broadcast ==
  /\ sends < MaxSends /\ accountNonce <= nonce
  /\ sends' = sends + 1
  /\ mempool' = mempool \cup {[step |-> current, nonce |-> nonce, hash |-> sends]}

\* sendTransaction answers with a hash, or the signer declines, or an error says
\* nothing about whether the transaction left.
sendAccepted ==
  /\ pc = "send" /\ Broadcast
  /\ Await(setTransaction(run, current,
             [record EXCEPT !.hash = sends, !.state = "SUBMITTED"]), "receipt")
  /\ UNCHANGED <<accountNonce, mined, effects, cre, history>>

sendRejected ==
  /\ pc = "send"
  /\ Stop([setStatus(setTransaction(run, current,
             [record EXCEPT !.state = "NOT_SUBMITTED"]), current, "READY")
           EXCEPT !.state = "DEPLOYMENT_PAUSED_SIGNER"])
  /\ UNCHANGED <<chainVars, effects, cre, sends, history>>

sendUnknown ==
  /\ pc = "send"
  /\ \/ /\ Faulty("lostAnswer", {current})
        /\ Broadcast \/ UNCHANGED <<sends, mempool>>
     \/ /\ nonce < accountNonce    \* the node refuses a nonce that is used
        /\ UNCHANGED <<sends, mempool, history>>
  /\ Stop([setStatus(setTransaction(run, current,
             [record EXCEPT !.state = "UNKNOWN_SUBMISSION_STATE"]),
             current, "UNKNOWN_SUBMISSION_STATE")
           EXCEPT !.state = "DEPLOYMENT_PARTIAL"])
  /\ UNCHANGED <<accountNonce, mined, effects, cre>>

\* Mutant: no receipt by the deadline is taken for proof that nothing was mined.
waitForFinalityOrRetry ==
  /\ pc = "receipt"
  /\ Stop([setStatus(setTransaction(run, current,
             [state |-> "CONFIRMED_ABSENT", nonce |-> nonce, hash |-> None]),
             current, "READY") EXCEPT !.state = "DEPLOYMENT_PARTIAL"])
  /\ UNCHANGED <<chainVars, effects, cre, sends, history>>

\* waitForFinality: a receipt, or the deadline.  What is not a success fails the
\* step and leaves the deployment PARTIAL.
waitForFinality ==
  /\ pc = "receipt"
  /\ LET settled == setTransaction(run, current, reconcile(run.transactions[current]))
     IN  IF TxState(settled, current) = "MINED_SUCCESS"
         THEN Await(setStatus(learnAddress(settled, current), current, "CONFIRMED"), "verify")
         ELSE Stop([setStatus(settled, current, "FAILED")
                    EXCEPT !.state = "DEPLOYMENT_PARTIAL"])
  /\ UNCHANGED <<chainVars, effects, cre, sends, history>>

\* reconcile found the receipt and then throws: getBlockNumber failed.
receiptReadFails ==
  /\ pc = "receipt" /\ Faulty("readFails", {current})
  /\ \E m \in mined : m.hash = run.transactions[current].hash
  /\ Stop(run)
  /\ UNCHANGED <<chainVars, effects, cre, sends>>

\* Mined is not done: the effect is observed before the step is VERIFIED.
verifyWrite ==
  /\ pc = "verify"
  /\ \/ Visible(current, run) /\ Proceed(setStatus(run, current, "VERIFIED"))
     \/ Stop([setStatus(run, current, "FAILED") EXCEPT !.state = "DEPLOYMENT_PARTIAL"])
     \/ Stop(run)    \* observe throws
  /\ UNCHANGED <<chainVars, effects, cre, sends, history>>

Affect(s) == effects' = [effects EXCEPT ![s] = @ + 1]

\* A service did what the step asks for and its answer is lost: the step throws.
AnswerLost(s) == Faulty("lostAnswer", {s}) /\ Stop(moved(s))

\* DEPLOY_CRE_PRIVATE: the session has expired, or the workflow is registered in
\* whatever state the registry gives it.
executeCreDeploy(s) ==
  /\ Executes(s, {"DEPLOY_CRE_PRIVATE"})
  /\ \/ /\ Stop([run EXCEPT !.state = "DEPLOYMENT_PAUSED_CRE_AUTH"])
        /\ UNCHANGED <<effects, cre, history>>
     \/ /\ Affect(s) /\ cre' \in {"PAUSED", "ACTIVE"}
        /\ \/ /\ Proceed(setStatus([moved(s) EXCEPT !.creStatus = cre'], s, "VERIFIED"))
              /\ UNCHANGED history
           \/ AnswerLost(s)
  /\ UNCHANGED <<chainVars, sends>>

\* PAUSE_CRE: the state is read back, recorded, and the step is VERIFIED.
executeCrePause(s) ==
  /\ Executes(s, {"PAUSE_CRE"}) /\ cre # None
  /\ cre' \in {cre, "PAUSED"}
  /\ Affect(s)
  /\ \/ /\ Proceed(setStatus([moved(s) EXCEPT !.creStatus = cre'], s, "VERIFIED"))
        /\ UNCHANGED history
     \/ AnswerLost(s)
  /\ UNCHANGED <<chainVars, sends>>

\* The image pipeline: only a scan that is not promotable fails its step.
executeImageStep(s) ==
  /\ Executes(s, ImageType)
  /\ Type[s] # "BUILD_RUNTIME_IMAGE" => run.imageBuilt # {}
  /\ \/ /\ Proceed(setStatus([moved(s) EXCEPT !.imageBuilt = {"digest"}], s, "VERIFIED"))
        /\ Affect(s) /\ UNCHANGED history
     \/ Affect(s) /\ AnswerLost(s)
     \/ /\ Type[s] = "SCAN_RUNTIME_IMAGE"
        /\ Stop([setStatus(run, s, "FAILED")
                 EXCEPT !.state = "DEPLOYMENT_FAILED_RECOVERABLE"])
        /\ UNCHANGED <<effects, history>>
  /\ UNCHANGED <<chainVars, cre, sends>>

\* The process is killed: what it had not saved is gone.
crash ==
  /\ pc # "down" /\ Stop(saved)
  /\ Faulty("crash", {s \in Step : run.status[s] # saved.status[s]})
  /\ UNCHANGED <<chainVars, effects, cre, sends>>

\* A block takes one of the transactions with the account's next nonce.
mine(t, ok) ==
  /\ t \in mempool /\ t.nonce = accountNonce
  /\ accountNonce' = accountNonce + 1
  /\ mempool' = {u \in mempool : u.nonce > t.nonce}
  /\ mined' = mined \cup {[step |-> t.step, hash |-> t.hash, ok |-> ok]}
  /\ effects' = IF ok THEN [effects EXCEPT ![t.step] = @ + 1] ELSE effects
  /\ UNCHANGED <<run, saved, pc, todo, local, cre, sends, history>>

Execute(s) ==
  \/ executeStepThrows(s) \/ executeThrows(s) \/ executeObservation(s)
  \/ executeWrite(s) \/ executeCreDeploy(s) \/ executeCrePause(s)
  \/ executeImageStep(s)

Next ==
  \/ invoke \/ resumeReconcile \/ resumeObserve \/ finish
  \/ \E s \in Step : Execute(s)
  \/ sendAccepted \/ sendRejected \/ sendUnknown
  \/ waitForFinality \/ receiptReadFails \/ verifyWrite
  \/ crash
  \/ \E t \in mempool, ok \in BOOLEAN : mine(t, ok)

Spec == Init /\ [][Next]_vars
-----------------------------------------------------------------------------
TypeOK ==
  /\ run \in Run /\ saved \in Run
  /\ pc \in {"down", "reconcile", "observe", "next", "send", "receipt", "verify"}
  /\ todo \subseteq Step /\ current \in Step \cup {None} /\ nonce \in Nat
  /\ accountNonce \in Nat /\ mempool \subseteq Tx
  /\ mined \subseteq [step : Step, hash : Nat, ok : BOOLEAN]
  /\ effects \in [Step -> Nat] /\ cre \in {"PAUSED", "ACTIVE", None}
  /\ sends \in Nat /\ faults \in 0..MaxFaults /\ unlearned \subseteq Step

\* No step takes effect twice unless a fault hid the outcome of its first try:
\* resuming, re-observing and timing out never repeat what was done.
RepeatNeedsAFault ==
  \A s \in Step : s \notin unlearned => effects[s] <= 1

\* What observe and the services vouch for: everything that changes the world,
\* but for the policy's registration: the script notes it before the send, so a
\* declined signature leaves it believed.
Witnessed(s) == Type[s] \notin ObservationType \cup {"REGISTER_POLICY_DISABLED"}

\* Nothing the plan builds exists before everything it depends on: in no order
\* of failures, late receipts and restarts is a step sent ahead of the effects
\* of its dependencies.
EffectsFollowDependencies ==
  \A s \in Step : effects[s] > 0 \/ (\E t \in mempool : t.step = s) =>
    \A d \in Deps[s] : Witnessed(d) => effects[d] > 0

\* READY_TO_ACTIVATE is claimed only of a deployment that is really there.
ReadyIsComplete ==
  saved.state = "READY_TO_ACTIVATE" =>
    \A s \in Step : Witnessed(s) => effects[s] > 0

\* "A transaction may be retried only when we have PROVEN nothing was mined":
\* one deployment never performs a write twice.
NoDuplicateWrite == \A s \in Step : Type[s] \in WriteType => effects[s] <= 1
=============================================================================
