-------------------------- MODULE DeploymentProofs --------------------------
(***************************************************************************)
(* What the orchestrator promises of every plan, whatever its length, its  *)
(* dependencies and the number of faults.  The properties speak of the     *)
(* world; what makes them inductive is how much the run in memory and the  *)
(* run on disk know of it, and where the invocation in progress stands.    *)
(***************************************************************************)
EXTENDS DeploymentOrchestrator, WellFoundedInduction, TLAPS

\* A write is under way only for a step that writes; waiting for its receipt,
\* the step is SUBMITTED under a record, and after it CONFIRMED.
WriteSound ==
  /\ pc \in {"send", "receipt", "verify"} => current \in Step /\ Type[current] \in WriteType
  /\ pc \in {"send", "receipt"} => run.status[current] = "SUBMITTED"
  /\ pc = "receipt" => run.transactions[current] \in TxRecord
  /\ pc = "verify" => run.status[current] = "CONFIRMED"

\* Resume's first loop has only records with an unknown outcome before it.
LoopSound ==
  pc = "reconcile" => \A s \in todo : TxState(run, s) = "UNKNOWN_SUBMISSION_STATE"

\* Between invocations memory and disk agree.
DiskSound == pc = "down" => run = saved

TypeInv == TypeOK /\ WriteSound /\ LoopSound /\ DiskSound

\* What a run says is done exists, and so does everything it calls ready.
Truthful(r) ==
  /\ \A s \in Done(r) : Witnessed(s) => effects[s] > 0
  /\ r.state = "READY_TO_ACTIVATE" => \A s \in Step : Witnessed(s) => effects[s] > 0

Grounded(s) == \A d \in Deps[s] : Witnessed(d) => effects[d] > 0

\* The steps a transaction or an effect stands for, and the one being sent, have
\* everything they depend on.
OrderInv ==
  /\ TypeInv
  /\ Truthful(run) /\ Truthful(saved)
  /\ EffectsFollowDependencies
  /\ pc = "send" => Grounded(current)

Sent(s) == effects[s] > 0 \/ \E t \in mempool : t.step = s

\* A step no invocation will execute again: nextStep passes it over, or
\* assertSafeToRetry refuses it.
Closed(r, s) == r.status[s] \in DoneStatus \cup {"FAILED", "CONFIRMED"}

ConfirmedIsMined(r) ==
  \A s \in Step : r.status[s] = "CONFIRMED" => TxState(r, s) = "MINED_SUCCESS"

\* What is so of a step whose every outcome reached the orchestrator.
Learned(s) ==
  /\ effects[s] <= 1
  /\ \A t \in mempool : t.step = s => effects[s] = 0
  /\ \A t, u \in mempool : t.step = s /\ u.step = s => t = u
  /\ Sent(s) => Closed(run, s) \/ (pc = "receipt" /\ current = s)
  /\ saved.status[s] # "SUBMITTED"
  /\ run.status[s] = "SUBMITTED" => pc \in {"send", "receipt"} /\ current = s

OnceInv ==
  /\ TypeInv
  /\ ConfirmedIsMined(run) /\ ConfirmedIsMined(saved)
  /\ \A s \in Step \ unlearned : Learned(s)
  /\ faults = 0 => unlearned = {}
-----------------------------------------------------------------------------
\* The phases are the eight of HAPPY_PATH.
LEMMA PhasesOfThePath ==
  Happy = {"DEPLOYMENT_APPROVED", "DEPLOYING_CHAIN_COMPONENTS",
           "CONFIGURING_POLICY_DISABLED", "DEPLOYING_CRE",
           "PAUSING_OR_CONFIRMING_CRE_STATE", "BUILDING_RUNTIME_IMAGE",
           "VERIFYING_DEPLOYMENT", "READY_TO_ACTIVATE"}
<1>1. \A i \in 1..8 : i = 1 \/ i = 2 \/ i = 3 \/ i = 4 \/ i = 5 \/ i = 6 \/ i = 7 \/ i = 8
  OBVIOUS
<1>2. 1 \in 1..8 /\ 2 \in 1..8 /\ 3 \in 1..8 /\ 4 \in 1..8 /\ 5 \in 1..8 /\ 6 \in 1..8
      /\ 7 \in 1..8 /\ 8 \in 1..8
  OBVIOUS
<1> QED BY <1>1, <1>2 DEF Happy, HAPPY_PATH

\* phaseFor sends every step to a phase, and none to READY_TO_ACTIVATE.
LEMMA PhaseIsAPhase ==
  ASSUME NEW type \in StepType
  PROVE  phaseFor(type) \in DEPLOYMENT_STATES /\ phaseFor(type) # "READY_TO_ACTIVATE"
BY PhasesOfThePath DEF StepType, ObservationType, WriteType, ImageType, phaseFor,
   DEPLOYMENT_STATES

\* The states the script ends in are states of a run.
LEMMA StatesAreStates ==
  {"READY_TO_ACTIVATE", "DEPLOYMENT_PAUSED_SIGNER", "DEPLOYMENT_PARTIAL",
   "DEPLOYMENT_PAUSED_CRE_AUTH", "DEPLOYMENT_FAILED_RECOVERABLE"} \subseteq DEPLOYMENT_STATES
BY PhasesOfThePath DEF DEPLOYMENT_STATES, PAUSES

\* What an assignment to one field of a run leaves of it.
LEMMA StateSet ==
  ASSUME NEW r \in Run, NEW x \in DEPLOYMENT_STATES
  PROVE  LET q == [r EXCEPT !.state = x] IN
         q \in Run /\ q.state = x /\ q.status = r.status /\ q.transactions = r.transactions
BY DEF Run

\* setStatus changes the status of one step.
LEMMA StatusSet ==
  ASSUME NEW r \in Run, NEW s \in Step, NEW x \in StepStatus
  PROVE  LET q == setStatus(r, s, x) IN
         /\ q \in Run /\ q.state = r.state /\ q.transactions = r.transactions
         /\ q.status[s] = x /\ \A t \in Step \ {s} : q.status[t] = r.status[t]
         /\ q.createdAddresses = r.createdAddresses /\ q.policyWritten = r.policyWritten
BY DEF Run, setStatus

\* setTransaction changes the record of one step.
LEMMA TransactionSet ==
  ASSUME NEW r \in Run, NEW s \in Step, NEW x \in TxRecord
  PROVE  LET q == setTransaction(r, s, x) IN
         /\ q \in Run /\ q.state = r.state /\ q.status = r.status
         /\ q.transactions[s] = x
         /\ \A t \in Step \ {s} : q.transactions[t] = r.transactions[t]
BY DEF Run, setTransaction

\* learnAddress changes no status and no record.
LEMMA AddressLearned ==
  ASSUME NEW r \in Run, NEW s \in Step
  PROVE  LET q == learnAddress(r, s) IN
         q \in Run /\ q.state = r.state /\ q.status = r.status /\ q.transactions = r.transactions
BY DEF Run, learnAddress

\* A record is a record after reconcile, and one with a known outcome says so.
LEMMA Reconciled ==
  ASSUME NEW tx \in TxRecord
  PROVE  reconcile(tx) \in TxRecord /\ reconcile(tx).state # "NOT_SUBMITTED"
BY DEF TxRecord, reconcile, SubmissionState

\* No record is None.
LEMMA RecordsAreSome ==
  ASSUME NEW r \in Run, NEW s \in Step, r.transactions[s] # None
  PROVE  r.transactions[s] \in TxRecord /\ TxState(r, s) = r.transactions[s].state
BY DEF Run, TxState

\* The first of a set of steps is one of them.
LEMMA FirstIsOne ==
  ASSUME NEW S \in SUBSET Step, S # {}
  PROVE  First(S) \in S
<1> DEFINE less == OpToRel(<, Nat)
<1>1. S \subseteq Nat
  BY PlanAssumption DEF Step
<1>2. \A y, z \in Nat : y < z => <<y, z>> \in less
  BY DEF OpToRel
<1>3. IsWellFoundedOn(less, Nat)
  BY NatLessThanWellFounded
<1> HIDE DEF less
<1>4. PICK x \in S : \A y \in S : <<y, x>> \notin less
  BY <1>1, <1>3, WFMin
<1>5. x \in Nat /\ \A y \in S : y \in Nat
  BY <1>1
<1>6. \A y \in S : ~(y < x)
  BY <1>2, <1>4, <1>5
<1>7. \A y \in S : x <= y
  BY <1>5, <1>6
<1> QED BY <1>7 DEF First

\* The step executeStep is given is one of the plan that is not done, has not
\* failed and has everything it depends on.
LEMMA ReadyIsRunnable ==
  ASSUME NEW s \in Step, Ready(s)
  PROVE  /\ pc = "next" /\ s \notin Done(run) /\ run.status[s] # "FAILED"
         /\ Deps[s] \subseteq Done(run)
<1>1. Runnable(run) \in SUBSET Step
  BY DEF Runnable
<1>2. s \in Runnable(run)
  BY <1>1, FirstIsOne DEF Ready
<1> QED BY <1>2 DEF Runnable, Ready
-----------------------------------------------------------------------------
\* What a step may do to the run in memory: change one step's entry, and claim
\* that the deployment is ready only if it was ready.
Touches(s) ==
  /\ run' \in Run
  /\ run'.state = run.state \/ run'.state # "READY_TO_ACTIVATE"
  /\ \A t \in Step \ {s} : /\ run'.status[t] = run.status[t]
                           /\ run'.transactions[t] = run.transactions[t]

\* The invocation ends and is saved, or goes on.
Ends == saved' = run' /\ pc' = "down" /\ todo' = {} /\ current' = None /\ nonce' = 0
Proceeds == saved' = saved /\ pc' = "next" /\ todo' = {} /\ current' = None /\ nonce' = 0

\* Everything TypeOK says of the world and of the history.
WorldOK ==
  /\ accountNonce \in Nat /\ mempool \subseteq Tx
  /\ mined \subseteq [step : Step, hash : Nat, ok : BOOLEAN]
  /\ effects \in [Step -> Nat] /\ cre \in {"PAUSED", "ACTIVE", None}
  /\ sends \in Nat /\ faults \in 0..MaxFaults /\ unlearned \subseteq Step

\* An invocation that ends, or goes on to the next step, keeps the types.
LEMMA EndsTyped ==
  ASSUME TypeInv, WorldOK', run' \in Run, Ends \/ Proceeds
  PROVE  TypeInv'
<1>1. TypeOK'
  BY DEF TypeInv, TypeOK, WorldOK, Ends, Proceeds
<1>2. WriteSound' /\ LoopSound' /\ DiskSound'
  BY DEF WriteSound, LoopSound, DiskSound, Ends, Proceeds
<1> QED BY <1>1, <1>2 DEF TypeInv

\* The world is typed when nothing in it changed...
LEMMA SameWorld ==
  ASSUME TypeInv, UNCHANGED <<chainVars, effects, cre, sends, history>>
  PROVE  WorldOK'
BY DEF TypeInv, TypeOK, WorldOK, chainVars, history

\* ...and after a fault.
LEMMA FaultTyped ==
  ASSUME TypeInv, NEW kind, NEW S \in SUBSET Step, Faulty(kind, S)
  PROVE  faults' \in 0..MaxFaults /\ unlearned' \subseteq Step /\ S \subseteq unlearned'
         /\ unlearned \subseteq unlearned' /\ faults' # 0
BY PlanAssumption DEF TypeInv, TypeOK, Faulty

\* A step takes effect, and no other does.
LEMMA EffectTyped ==
  ASSUME TypeInv, NEW s \in Step, Affect(s)
  PROVE  effects' \in [Step -> Nat] /\ effects'[s] = effects[s] + 1
         /\ \A t \in Step \ {s} : effects'[t] = effects[t]
BY DEF TypeInv, TypeOK, Affect

\* moved changes only the phase.
LEMMA MovedIsRun ==
  ASSUME TypeInv, NEW s \in Step
  PROVE  /\ moved(s) \in Run /\ moved(s).state # "READY_TO_ACTIVATE"
         /\ moved(s).status = run.status /\ moved(s).transactions = run.transactions
<1>1. Type[s] \in StepType
  BY PlanAssumption DEF validatePlan
<1>2. phaseFor(Type[s]) \in DEPLOYMENT_STATES /\ phaseFor(Type[s]) # "READY_TO_ACTIVATE"
  BY <1>1, PhaseIsAPhase
<1> HIDE DEF phaseFor
<1> QED BY <1>2, StateSet DEF moved, TypeInv, TypeOK
-----------------------------------------------------------------------------
\* What each action does, as far as the invariants can tell.  Each lemma also
\* shows that the action keeps the types.

\* A run that is invoked again is the one that was saved.
LEMMA invokeMoves ==
  ASSUME TypeInv, invoke
  PROVE  TypeInv' /\ run' = run /\ saved' = saved /\ pc = "down" /\ pc' = "reconcile"
<1>1. run' = run /\ saved' = saved /\ pc = "down" /\ pc' = "reconcile"
      /\ UNCHANGED <<local, chainVars, effects, cre, sends, history>>
  BY DEF TypeInv, DiskSound, invoke
<1>2. todo' \subseteq Step /\ \A s \in todo' : TxState(run, s) = "UNKNOWN_SUBMISSION_STATE"
  BY DEF TypeInv, DiskSound, invoke
<1>3. TypeOK'
  BY <1>1, <1>2 DEF TypeInv, TypeOK, local, chainVars, history
<1>4. WriteSound' /\ LoopSound' /\ DiskSound'
  BY <1>1, <1>2 DEF WriteSound, LoopSound, DiskSound, TxState
<1> QED BY <1>1, <1>3, <1>4 DEF TypeInv

\* Resume goes on with a loop, having changed the run or not.
LEMMA VisitTyped ==
  ASSUME TypeInv, NEW r \in Run, NEW S \in SUBSET Step, NEW loop \in {"reconcile", "observe"},
         UNCHANGED <<chainVars, effects, cre, sends, history>>,
         loop = "reconcile" => \A s \in S : TxState(r, s) = "UNKNOWN_SUBMISSION_STATE",
         Visit(r, loop, S)
  PROVE  TypeInv'
<1>1. run' = r /\ pc' = loop /\ todo' = S /\ saved' = saved /\ current' = current /\ nonce' = nonce
  BY DEF Visit, local
<1>2. TypeOK'
  BY <1>1, SameWorld DEF TypeInv, TypeOK, WorldOK
<1>3. WriteSound' /\ LoopSound' /\ DiskSound'
  BY <1>1 DEF WriteSound, LoopSound, DiskSound, TxState
<1> QED BY <1>2, <1>3 DEF TypeInv

\* Resume's first loop changes records with an unknown outcome, and no status.
LEMMA resumeReconcileMoves ==
  ASSUME TypeInv, resumeReconcile
  PROVE  /\ TypeInv' /\ pc = "reconcile" /\ pc' \in {"reconcile", "observe", "down"}
         /\ saved' = saved \/ saved' = run'
         /\ \E s : /\ Touches(s) /\ run'.status = run.status
                   /\ run' = run \/ TxState(run, s) = "UNKNOWN_SUBMISSION_STATE"
<1>1. run \in Run /\ saved \in Run /\ todo \in SUBSET Step /\ pc = "reconcile"
      /\ UNCHANGED <<chainVars, effects, cre, sends, history>>
  BY DEF TypeInv, TypeOK, resumeReconcile
<1>2. ASSUME todo # {},
             LET s == First(todo)
                 r == setTransaction(run, s, reconcile(run.transactions[s]))
             IN  Visit(learnAddress(r, s), "reconcile", todo \ {s})
      PROVE  /\ TypeInv' /\ pc' = "reconcile" /\ saved' = saved
             /\ Touches(First(todo)) /\ run'.status = run.status
             /\ TxState(run, First(todo)) = "UNKNOWN_SUBMISSION_STATE"
  <2> DEFINE s == First(todo)
             r == setTransaction(run, s, reconcile(run.transactions[s]))
             q == learnAddress(r, s)
  <2>1. s \in todo /\ s \in Step
    BY <1>1, <1>2, FirstIsOne
  <2>2. \A t \in todo : TxState(run, t) = "UNKNOWN_SUBMISSION_STATE"
    BY <1>1 DEF TypeInv, LoopSound
  <2>3. run.transactions[s] \in TxRecord
    BY <1>1, <2>1, <2>2, RecordsAreSome DEF TxState
  <2>4. reconcile(run.transactions[s]) \in TxRecord
    BY <2>3, Reconciled
  <2>5. /\ r \in Run /\ r.state = run.state /\ r.status = run.status
        /\ \A t \in Step \ {s} : r.transactions[t] = run.transactions[t]
    BY <1>1, <2>1, <2>4, TransactionSet
  <2>6. q \in Run /\ q.state = r.state /\ q.status = r.status /\ q.transactions = r.transactions
    BY <2>1, <2>5, AddressLearned
  <2>7. Visit(q, "reconcile", todo \ {s})
    BY <1>2
  <2> HIDE DEF s, r, q
  <2>8. \A t \in todo \ {s} : TxState(q, t) = "UNKNOWN_SUBMISSION_STATE"
    BY <1>1, <2>2, <2>5, <2>6 DEF TxState
  <2>9. TypeInv'
    BY <1>1, <2>6, <2>7, <2>8, VisitTyped
  <2>10. Touches(s) /\ run'.status = run.status
    BY <2>5, <2>6, <2>7 DEF Touches, Visit
  <2> QED BY <2>1, <2>2, <2>7, <2>9, <2>10 DEF s, Visit
<1>3. ASSUME Visit(run, "observe", {s \in Step \ Done(run) :
                                     TxState(run, s) # "UNKNOWN_SUBMISSION_STATE"})
      PROVE  TypeInv' /\ pc' = "observe" /\ saved' = saved /\ run' = run
  <2>1. TypeInv'
    BY <1>1, <1>3, VisitTyped
  <2> QED BY <1>3, <2>1 DEF Visit
<1>4. ASSUME Stop(run)
      PROVE  TypeInv' /\ pc' = "down" /\ saved' = run' /\ run' = run
  BY <1>1, <1>4, SameWorld, EndsTyped DEF Stop, Ends
<1>5. run' = run => Touches(None) /\ run'.status = run.status
  BY <1>1 DEF Touches
<1> QED BY <1>1, <1>2, <1>3, <1>4, <1>5 DEF resumeReconcile

\* Resume's second loop marks steps the world shows to be done.
LEMMA resumeObserveMoves ==
  ASSUME TypeInv, resumeObserve
  PROVE  /\ TypeInv' /\ pc = "observe" /\ pc' \in {"observe", "next", "down"}
         /\ saved' = saved \/ saved' = run'
         /\ \E s : /\ Touches(s) /\ run'.transactions = run.transactions
                   /\ \/ run' = run
                      \/ s \in Step /\ Visible(s, run) /\ run'.status[s] \in DoneStatus
<1>1. run \in Run /\ saved \in Run /\ todo \in SUBSET Step /\ pc = "observe"
      /\ UNCHANGED <<chainVars, effects, cre, sends, history>>
  BY DEF TypeInv, TypeOK, resumeObserve
<1>2. ASSUME todo # {}, Visible(First(todo), run),
             Visit(setStatus(run, First(todo), IF TxState(run, First(todo)) = "MINED_SUCCESS"
                     THEN "VERIFIED" ELSE "SKIPPED_ALREADY_SATISFIED"),
                   "observe", todo \ {First(todo)})
      PROVE  /\ TypeInv' /\ pc' = "observe" /\ saved' = saved
             /\ Touches(First(todo)) /\ run'.transactions = run.transactions
             /\ First(todo) \in Step /\ run'.status[First(todo)] \in DoneStatus
  <2> DEFINE s == First(todo)
  <2>1. s \in Step
    BY <1>1, <1>2, FirstIsOne
  <2>2. PICK x \in DoneStatus : Visit(setStatus(run, s, x), "observe", todo \ {s})
    BY <1>2 DEF DoneStatus
  <2>3. x \in StepStatus
    BY <2>2 DEF DoneStatus, StepStatus
  <2> DEFINE q == setStatus(run, s, x)
  <2>4. /\ q \in Run /\ q.state = run.state /\ q.transactions = run.transactions
        /\ q.status[s] = x /\ \A t \in Step \ {s} : q.status[t] = run.status[t]
    BY <1>1, <2>1, <2>3, StatusSet
  <2>5. Visit(q, "observe", todo \ {s})
    BY <2>2
  <2> HIDE DEF s, q
  <2>6. TypeInv'
    BY <1>1, <2>4, <2>5, VisitTyped
  <2>7. Touches(s) /\ run'.transactions = run.transactions /\ run'.status[s] \in DoneStatus
    BY <2>2, <2>4, <2>5 DEF Touches, Visit
  <2> QED BY <2>1, <2>5, <2>6, <2>7 DEF s, Visit
<1>3. ASSUME Visit(run, "observe", todo \ {First(todo)})
      PROVE  TypeInv' /\ pc' = "observe" /\ saved' = saved /\ run' = run
  <2>1. TypeInv'
    BY <1>1, <1>3, VisitTyped
  <2> QED BY <1>3, <2>1 DEF Visit
<1>4. ASSUME Proceed(run)
      PROVE  TypeInv' /\ pc' = "next" /\ saved' = saved /\ run' = run
  BY <1>1, <1>4, SameWorld, EndsTyped DEF Proceed, Proceeds
<1>5. ASSUME Stop(run)
      PROVE  TypeInv' /\ pc' = "down" /\ saved' = run' /\ run' = run
  BY <1>1, <1>5, SameWorld, EndsTyped DEF Stop, Ends
<1>6. run' = run => Touches(None) /\ run'.transactions = run.transactions
  BY <1>1 DEF Touches
<1> QED BY <1>1, <1>2, <1>3, <1>4, <1>5, <1>6 DEF resumeObserve

\* The last invocation changes no step, and claims readiness only of a finished
\* deployment.
LEMMA finishMoves ==
  ASSUME TypeInv, finish
  PROVE  /\ TypeInv' /\ pc = "next" /\ Ends /\ run' \in Run
         /\ run'.status = run.status /\ run'.transactions = run.transactions
         /\ run'.state = "READY_TO_ACTIVATE" => run.state = run'.state \/ Done(run) = Step
<1>1. run \in Run /\ pc = "next" /\ UNCHANGED <<chainVars, effects, cre, sends, history>>
  BY DEF TypeInv, TypeOK, finish
<1> DEFINE q == [run EXCEPT !.state = "READY_TO_ACTIVATE"]
<1>2. q \in Run /\ q.status = run.status /\ q.transactions = run.transactions
  BY <1>1, StatesAreStates, StateSet
<1>3. (Done(run) = Step /\ Stop(q)) \/ Stop(run)
  BY DEF finish
<1> HIDE DEF q
<1>4. /\ Ends /\ run' \in Run
      /\ run'.status = run.status /\ run'.transactions = run.transactions
      /\ run' = run \/ Done(run) = Step
  BY <1>1, <1>2, <1>3 DEF Stop, Ends
<1> QED BY <1>1, <1>4, SameWorld, EndsTyped

\* What the end of a step that changed no step's entry looks like.
QuietEnd(s) ==
  Ends /\ Touches(s) /\ run'.status = run.status /\ run'.transactions = run.transactions

\* Stopping in the phase of a step, or where the run was, is such an end.
LEMMA StopsMoved ==
  ASSUME TypeInv, NEW s \in Step, Stop(moved(s)) \/ Stop(run)
  PROVE  QuietEnd(s)
<1>1. run \in Run
  BY DEF TypeInv, TypeOK
<1>2. PICK q \in Run : /\ Stop(q)
                       /\ q.state = run.state \/ q.state # "READY_TO_ACTIVATE"
                       /\ q.status = run.status /\ q.transactions = run.transactions
  BY <1>1, MovedIsRun
<1> QED BY <1>2 DEF QuietEnd, Stop, Ends, Touches

\* A step that throws before it did anything.
LEMMA executeThrowsMoves ==
  ASSUME TypeInv, NEW s \in Step, executeStepThrows(s) \/ executeThrows(s)
  PROVE  TypeInv' /\ pc = "next" /\ QuietEnd(s)
         /\ UNCHANGED <<chainVars, effects, cre, sends, history>>
<1>1. Stop(moved(s)) \/ Stop(run)
  BY DEF executeStepThrows, executeThrows
<1>2. UNCHANGED <<chainVars, effects, cre, sends, history>> /\ pc = "next"
  BY DEF executeStepThrows, executeThrows, Executes, Ready
<1>3. QuietEnd(s)
  BY <1>1, StopsMoved
<1> QED BY <1>2, <1>3, SameWorld, EndsTyped DEF QuietEnd, Touches

\* A step's entry changes in its status only.
Marks(s, x) ==
  /\ Touches(s) /\ run'.transactions = run.transactions
  /\ run'.status[s] = x

\* Setting a step's status, in the phase of the step or not, marks it.
LEMMA MarksStep ==
  ASSUME TypeInv, NEW s \in Step, NEW x \in StepStatus, NEW r \in Run,
         r.state = run.state \/ r.state # "READY_TO_ACTIVATE",
         r.status = run.status, r.transactions = run.transactions,
         run' = setStatus(r, s, x)
  PROVE  Marks(s, x)
<1> DEFINE q == setStatus(r, s, x)
<1>1. /\ q \in Run /\ q.state = r.state /\ q.transactions = r.transactions
      /\ q.status[s] = x /\ \A t \in Step \ {s} : q.status[t] = r.status[t]
  BY StatusSet
<1>2. run' = q
  OBVIOUS
<1> HIDE DEF q
<1> QED BY <1>1, <1>2 DEF Marks, Touches

\* An observation succeeds on what it sees, or fails its step.
LEMMA executeObservationMoves ==
  ASSUME TypeInv, NEW s \in Step, executeObservation(s)
  PROVE  /\ TypeInv' /\ pc = "next" /\ ~Witnessed(s)
         /\ UNCHANGED <<chainVars, effects, cre, sends, history>>
         /\ (Proceeds /\ Marks(s, "VERIFIED")) \/ (Ends /\ Marks(s, "FAILED"))
<1>1. /\ pc = "next" /\ Type[s] \in ObservationType
      /\ UNCHANGED <<chainVars, effects, cre, sends, history>>
  BY DEF executeObservation, Executes, Ready
<1>2. \/ Proceed(setStatus(moved(s), s, "VERIFIED"))
      \/ Stop(setStatus(moved(s), s, "FAILED"))
  BY DEF executeObservation
<1>3. (Proceeds /\ Marks(s, "VERIFIED")) \/ (Ends /\ Marks(s, "FAILED"))
  <2>1. "VERIFIED" \in StepStatus /\ "FAILED" \in StepStatus
    BY DEF StepStatus
  <2>2. CASE Proceed(setStatus(moved(s), s, "VERIFIED"))
    <3>1. run' = setStatus(moved(s), s, "VERIFIED") /\ Proceeds
      BY <2>2 DEF Proceed, Proceeds
    <3> QED BY <2>1, <3>1, MovedIsRun, MarksStep
  <2>3. CASE Stop(setStatus(moved(s), s, "FAILED"))
    <3>1. run' = setStatus(moved(s), s, "FAILED") /\ Ends
      BY <2>3 DEF Stop, Ends
    <3> QED BY <2>1, <3>1, MovedIsRun, MarksStep
  <2> QED BY <1>2, <2>2, <2>3
<1>4. TypeInv'
  BY <1>1, <1>3, SameWorld, EndsTyped DEF Marks, Touches
<1> QED BY <1>1, <1>3, <1>4 DEF Witnessed

\* A write is begun: its step is SUBMITTED and nothing is sent yet.
LEMMA executeWriteMoves ==
  ASSUME TypeInv, NEW s \in Step, executeWrite(s)
  PROVE  /\ TypeInv' /\ Ready(s) /\ assertSafeToRetry(run, s) /\ Marks(s, "SUBMITTED")
         /\ saved' = saved /\ pc' = "send" /\ current' = s
         /\ UNCHANGED <<chainVars, effects, cre, sends, history>>
<1>1. /\ Ready(s) /\ assertSafeToRetry(run, s) /\ Type[s] \in WriteType /\ pc = "next"
      /\ saved' = saved /\ pc' = "send" /\ current' = s /\ todo' = todo
      /\ nonce' = accountNonce /\ UNCHANGED <<chainVars, effects, cre, sends, history>>
  BY DEF executeWrite, Executes, Ready
<1>2. Marks(s, "SUBMITTED")
  <2> DEFINE q == setStatus(moved(s), s, "SUBMITTED")
  <2>1. "SUBMITTED" \in StepStatus
    BY DEF StepStatus
  <2>2. /\ q \in Run /\ q.state # "READY_TO_ACTIVATE" /\ q.transactions = run.transactions
        /\ q.status[s] = "SUBMITTED" /\ \A t \in Step \ {s} : q.status[t] = run.status[t]
    BY <2>1, MovedIsRun, StatusSet
  <2>3. PICK P \in SUBSET Step : run' = [q EXCEPT !.policyWritten = P]
    <3>1. q.policyWritten \in SUBSET Step
      BY <2>2 DEF Run
    <3>2. run' = [q EXCEPT !.policyWritten =
                   IF Type[s] = "REGISTER_POLICY_DISABLED" THEN @ \cup {s} ELSE @]
      BY DEF executeWrite
    <3> HIDE DEF q
    <3>3. CASE Type[s] = "REGISTER_POLICY_DISABLED"
      BY <3>1, <3>2, <3>3
    <3>4. CASE Type[s] # "REGISTER_POLICY_DISABLED"
      BY <3>1, <3>2, <3>4
    <3> QED BY <3>3, <3>4
  <2> HIDE DEF q
  <2>4. /\ run' \in Run /\ run'.state = q.state /\ run'.transactions = q.transactions
        /\ run'.status = q.status
    BY <2>2, <2>3 DEF Run
  <2> QED BY <2>2, <2>4 DEF Marks, Touches
<1>3. TypeOK'
  BY <1>1, <1>2, SameWorld DEF TypeInv, TypeOK, WorldOK, Marks, Touches
<1>4. WriteSound' /\ LoopSound' /\ DiskSound'
  BY <1>1, <1>2 DEF WriteSound, LoopSound, DiskSound, Marks
<1> QED BY <1>1, <1>2, <1>3, <1>4 DEF TypeInv

\* A service step: nothing happened, or the step failed with nothing done, or it
\* was done and is VERIFIED, or it was done and its answer was lost.
Serves(s) ==
  \/ /\ QuietEnd(s) \/ (Ends /\ Marks(s, "FAILED"))
     /\ UNCHANGED <<effects, history>>
  \/ Affect(s) /\ Proceeds /\ Marks(s, "VERIFIED") /\ UNCHANGED history
  \/ Affect(s) /\ QuietEnd(s) /\ Faulty("lostAnswer", {s})

\* The parts of a service step keep the types.
LEMMA ServesTyped ==
  ASSUME TypeInv, NEW s \in Step, Serves(s), UNCHANGED <<chainVars, sends>>,
         cre' \in {"PAUSED", "ACTIVE", None}
  PROVE  TypeInv'
<1>1. run' \in Run /\ (Ends \/ Proceeds)
  BY DEF Serves, QuietEnd, Marks, Touches
<1>2. effects' \in [Step -> Nat]
  BY EffectTyped DEF Serves, TypeInv, TypeOK
<1>3. faults' \in 0..MaxFaults /\ unlearned' \subseteq Step
  BY FaultTyped DEF Serves, TypeInv, TypeOK, history
<1>4. WorldOK'
  BY <1>2, <1>3 DEF WorldOK, TypeInv, TypeOK, chainVars
<1> QED BY <1>1, <1>4, EndsTyped

\* A CRE step that is done records the workflow's state and is VERIFIED.
LEMMA CreRecorded ==
  ASSUME TypeInv, NEW s \in Step, NEW c \in {"PAUSED", "ACTIVE"},
         Proceed(setStatus([moved(s) EXCEPT !.creStatus = c], s, "VERIFIED"))
  PROVE  Proceeds /\ Marks(s, "VERIFIED")
<1> DEFINE q == [moved(s) EXCEPT !.creStatus = c]
<1>1. /\ moved(s) \in Run /\ moved(s).state # "READY_TO_ACTIVATE"
      /\ moved(s).status = run.status /\ moved(s).transactions = run.transactions
  BY MovedIsRun
<1>2. /\ q \in Run /\ q.state # "READY_TO_ACTIVATE"
      /\ q.status = run.status /\ q.transactions = run.transactions
  BY <1>1 DEF Run
<1>3. run' = setStatus(q, s, "VERIFIED") /\ Proceeds
  BY DEF Proceed, Proceeds
<1> HIDE DEF q
<1> QED BY <1>2, <1>3, MarksStep DEF StepStatus

\* DEPLOY_CRE_PRIVATE is a service step.
LEMMA executeCreDeployMoves ==
  ASSUME TypeInv, NEW s \in Step, executeCreDeploy(s)
  PROVE  TypeInv' /\ Ready(s) /\ assertSafeToRetry(run, s) /\ Serves(s) /\ UNCHANGED chainVars
<1>1. run \in Run /\ cre \in {"PAUSED", "ACTIVE", None}
      /\ Ready(s) /\ assertSafeToRetry(run, s) /\ UNCHANGED <<chainVars, sends>>
  BY DEF TypeInv, TypeOK, executeCreDeploy, Executes
<1>2. ASSUME Stop([run EXCEPT !.state = "DEPLOYMENT_PAUSED_CRE_AUTH"])
      PROVE  QuietEnd(s)
  <2> DEFINE q == [run EXCEPT !.state = "DEPLOYMENT_PAUSED_CRE_AUTH"]
  <2>1. /\ q \in Run /\ q.state # "READY_TO_ACTIVATE"
        /\ q.status = run.status /\ q.transactions = run.transactions
    BY <1>1, StatesAreStates, StateSet
  <2>2. Stop(q)
    BY <1>2
  <2> HIDE DEF q
  <2> QED BY <2>1, <2>2 DEF QuietEnd, Stop, Ends, Touches
<1>3. \A c \in {"PAUSED", "ACTIVE"} :
        Proceed(setStatus([moved(s) EXCEPT !.creStatus = c], s, "VERIFIED"))
        => Proceeds /\ Marks(s, "VERIFIED")
  BY CreRecorded
<1>4. AnswerLost(s) => QuietEnd(s) /\ Faulty("lostAnswer", {s})
  BY StopsMoved DEF AnswerLost
<1>5. /\ Serves(s) /\ cre' \in {"PAUSED", "ACTIVE", None}
  BY <1>1, <1>2, <1>3, <1>4 DEF executeCreDeploy, Serves
<1> QED BY <1>1, <1>5, ServesTyped

\* PAUSE_CRE is a service step.
LEMMA executeCrePauseMoves ==
  ASSUME TypeInv, NEW s \in Step, executeCrePause(s)
  PROVE  TypeInv' /\ Ready(s) /\ assertSafeToRetry(run, s) /\ Serves(s) /\ UNCHANGED chainVars
<1>1. run \in Run /\ cre' \in {"PAUSED", "ACTIVE"}
      /\ Ready(s) /\ assertSafeToRetry(run, s) /\ UNCHANGED <<chainVars, sends>>
  BY DEF TypeInv, TypeOK, executeCrePause, Executes
<1>2. \A c \in {"PAUSED", "ACTIVE"} :
        Proceed(setStatus([moved(s) EXCEPT !.creStatus = c], s, "VERIFIED"))
        => Proceeds /\ Marks(s, "VERIFIED")
  BY CreRecorded
<1>3. AnswerLost(s) => QuietEnd(s) /\ Faulty("lostAnswer", {s})
  BY StopsMoved DEF AnswerLost
<1>4. Serves(s)
  BY <1>1, <1>2, <1>3 DEF executeCrePause, Serves
<1> QED BY <1>1, <1>4, ServesTyped

\* The image steps are service steps.
LEMMA executeImageStepMoves ==
  ASSUME TypeInv, NEW s \in Step, executeImageStep(s)
  PROVE  TypeInv' /\ Ready(s) /\ assertSafeToRetry(run, s) /\ Serves(s) /\ UNCHANGED chainVars
<1>1. run \in Run /\ cre' \in {"PAUSED", "ACTIVE", None}
      /\ Ready(s) /\ assertSafeToRetry(run, s) /\ UNCHANGED <<chainVars, sends>>
  BY DEF TypeInv, TypeOK, executeImageStep, Executes
<1>2. ASSUME Proceed(setStatus([moved(s) EXCEPT !.imageBuilt = {"digest"}], s, "VERIFIED"))
      PROVE  Proceeds /\ Marks(s, "VERIFIED")
  <2> DEFINE q == [moved(s) EXCEPT !.imageBuilt = {"digest"}]
  <2>1. /\ moved(s) \in Run /\ moved(s).state # "READY_TO_ACTIVATE"
        /\ moved(s).status = run.status /\ moved(s).transactions = run.transactions
    BY MovedIsRun
  <2>2. /\ q \in Run /\ q.state # "READY_TO_ACTIVATE"
        /\ q.status = run.status /\ q.transactions = run.transactions
    BY <2>1 DEF Run
  <2>3. run' = setStatus(q, s, "VERIFIED") /\ Proceeds
    BY <1>2 DEF Proceed, Proceeds
  <2> HIDE DEF q
  <2> QED BY <2>2, <2>3, MarksStep DEF StepStatus
<1>3. ASSUME Stop([setStatus(run, s, "FAILED")
                   EXCEPT !.state = "DEPLOYMENT_FAILED_RECOVERABLE"])
      PROVE  Ends /\ Marks(s, "FAILED")
  <2> DEFINE p == setStatus(run, s, "FAILED")
             q == [p EXCEPT !.state = "DEPLOYMENT_FAILED_RECOVERABLE"]
  <2>1. /\ p \in Run /\ p.transactions = run.transactions
        /\ p.status[s] = "FAILED" /\ \A t \in Step \ {s} : p.status[t] = run.status[t]
    BY <1>1, StatusSet DEF StepStatus
  <2>2. Stop(q)
    BY <1>3
  <2> HIDE DEF p
  <2>3. /\ q \in Run /\ q.state # "READY_TO_ACTIVATE"
        /\ q.status = p.status /\ q.transactions = p.transactions
    BY <2>1, StatesAreStates, StateSet
  <2> HIDE DEF q
  <2> QED BY <2>1, <2>2, <2>3 DEF Marks, Stop, Ends, Touches
<1>4. AnswerLost(s) => QuietEnd(s) /\ Faulty("lostAnswer", {s})
  BY StopsMoved DEF AnswerLost
<1>5. Serves(s)
  BY <1>1, <1>2, <1>3, <1>4 DEF executeImageStep, Serves
<1> QED BY <1>1, <1>5, ServesTyped

\* The record a send updates is one.
LEMMA RecordTyped ==
  ASSUME TypeInv, current \in Step
  PROVE  record \in TxRecord
<1>1. CASE run.transactions[current] # None
  BY <1>1, RecordsAreSome DEF TypeInv, TypeOK, record
<1>2. CASE run.transactions[current] = None
  BY <1>2 DEF record, TypeInv, TypeOK, TxRecord, SubmissionState
<1> QED BY <1>1, <1>2

\* A write that ends settles its step's status and record.
Settles(s, x) ==
  Ends /\ Touches(s) /\ run'.status[s] = x

\* Stopping with a new status and record for one step settles it.
LEMMA StopSettles ==
  ASSUME TypeInv, NEW s \in Step, NEW tx \in TxRecord, NEW x \in StepStatus,
         NEW st \in DEPLOYMENT_STATES \ {"READY_TO_ACTIVATE"},
         Stop([setStatus(setTransaction(run, s, tx), s, x) EXCEPT !.state = st])
  PROVE  Settles(s, x)
<1> DEFINE p == setTransaction(run, s, tx)
           q == setStatus(p, s, x)
           r == [q EXCEPT !.state = st]
<1>1. /\ p \in Run /\ p.status = run.status
      /\ \A t \in Step \ {s} : p.transactions[t] = run.transactions[t]
  BY TransactionSet DEF TypeInv, TypeOK
<1> HIDE DEF p
<1>2. /\ q \in Run /\ q.transactions = p.transactions
      /\ q.status[s] = x /\ \A t \in Step \ {s} : q.status[t] = p.status[t]
  BY <1>1, StatusSet
<1> HIDE DEF q
<1>3. r \in Run /\ r.state = st /\ r.status = q.status /\ r.transactions = q.transactions
  BY <1>2, StateSet
<1>4. Stop(r)
  BY DEF p, q, r
<1> HIDE DEF r
<1>5. Ends /\ run' = r
  BY <1>4 DEF Stop, Ends
<1>6. \A t \in Step \ {s} : r.status[t] = run.status[t] /\ r.transactions[t] = run.transactions[t]
  BY <1>1, <1>2, <1>3
<1>7. Touches(s)
  BY <1>3, <1>5, <1>6 DEF Touches
<1> QED BY <1>2, <1>3, <1>5, <1>7 DEF Settles

\* A transaction of the step being written joins the mempool.
Joins == \E t \in Tx : t.step = current /\ mempool' = mempool \cup {t}

\* Broadcast lets such a transaction join.
LEMMA BroadcastJoins ==
  ASSUME TypeInv, current \in Step, Broadcast
  PROVE  Joins /\ mempool' \subseteq Tx /\ sends' \in Nat
<1> DEFINE t == [step |-> current, nonce |-> nonce, hash |-> sends]
<1>1. t \in Tx /\ t.step = current
  BY DEF TypeInv, TypeOK, Tx
<1>2. mempool' = mempool \cup {t} /\ sends' = sends + 1
  BY DEF Broadcast
<1> HIDE DEF t
<1> QED BY <1>1, <1>2 DEF TypeInv, TypeOK, Joins

\* A send that is answered has its step wait for the receipt.
LEMMA sendAcceptedMoves ==
  ASSUME TypeInv, sendAccepted
  PROVE  /\ TypeInv' /\ pc = "send" /\ current \in Step /\ Touches(current)
         /\ run'.status = run.status /\ saved' = saved /\ pc' = "receipt" /\ current' = current
         /\ Joins /\ UNCHANGED <<effects, history>>
<1>1. /\ pc = "send" /\ run \in Run /\ saved \in Run /\ current \in Step
      /\ run.status[current] = "SUBMITTED" /\ Type[current] \in WriteType /\ sends \in Nat
  BY DEF TypeInv, TypeOK, WriteSound, sendAccepted
<1> DEFINE tx == [record EXCEPT !.hash = sends, !.state = "SUBMITTED"]
           q  == setTransaction(run, current, tx)
<1>2. record \in TxRecord
  BY <1>1, RecordTyped
<1>3. tx \in TxRecord
  BY <1>1, <1>2 DEF TxRecord, SubmissionState
<1>4. /\ Await(q, "receipt") /\ Broadcast
      /\ UNCHANGED <<accountNonce, mined, effects, cre, history>>
  BY DEF sendAccepted
<1> HIDE DEF tx
<1>5. /\ q \in Run /\ q.state = run.state /\ q.status = run.status
      /\ q.transactions[current] = tx
      /\ \A t \in Step \ {current} : q.transactions[t] = run.transactions[t]
  BY <1>1, <1>3, TransactionSet
<1> HIDE DEF q
<1>6. /\ run' = q /\ pc' = "receipt" /\ saved' = saved /\ todo' = todo
      /\ current' = current /\ nonce' = nonce
  BY <1>4 DEF Await, local
<1>7. Touches(current)
  BY <1>5, <1>6 DEF Touches
<1>8. Joins /\ mempool' \subseteq Tx /\ sends' \in Nat
  BY <1>1, <1>4, BroadcastJoins
<1>9. TypeOK'
  BY <1>4, <1>5, <1>6, <1>8 DEF TypeInv, TypeOK, history
<1>10. WriteSound' /\ LoopSound' /\ DiskSound'
  BY <1>1, <1>3, <1>5, <1>6 DEF WriteSound, LoopSound, DiskSound
<1> QED BY <1>1, <1>4, <1>5, <1>6, <1>7, <1>8, <1>9, <1>10 DEF TypeInv

\* A send the signer declines leaves its step READY.
LEMMA sendRejectedMoves ==
  ASSUME TypeInv, sendRejected
  PROVE  /\ TypeInv' /\ pc = "send" /\ current \in Step /\ Settles(current, "READY")
         /\ UNCHANGED <<chainVars, effects, history>>
<1>1. pc = "send" /\ current \in Step /\ UNCHANGED <<chainVars, effects, cre, sends, history>>
  BY DEF TypeInv, WriteSound, sendRejected
<1> DEFINE tx == [record EXCEPT !.state = "NOT_SUBMITTED"]
<1>2. record \in TxRecord
  BY <1>1, RecordTyped
<1>3. tx \in TxRecord
  BY <1>2 DEF TxRecord, SubmissionState
<1>4. Stop([setStatus(setTransaction(run, current, tx), current, "READY")
            EXCEPT !.state = "DEPLOYMENT_PAUSED_SIGNER"])
  BY DEF sendRejected
<1> HIDE DEF tx
<1>5. "READY" \in StepStatus
  BY DEF StepStatus
<1>6. "DEPLOYMENT_PAUSED_SIGNER" \in DEPLOYMENT_STATES \ {"READY_TO_ACTIVATE"}
  BY StatesAreStates
<1>7. Settles(current, "READY")
  BY <1>1, <1>3, <1>4, <1>5, <1>6, StopSettles
<1>8. TypeInv'
  BY <1>1, <1>7, SameWorld, EndsTyped DEF Settles, Touches
<1> QED BY <1>1, <1>7, <1>8

\* A send without an answer left a transaction only if a fault took the answer.
LEMMA sendUnknownMoves ==
  ASSUME TypeInv, sendUnknown
  PROVE  /\ TypeInv' /\ pc = "send" /\ current \in Step
         /\ Settles(current, "UNKNOWN_SUBMISSION_STATE") /\ effects' = effects
         /\ \/ mempool' = mempool /\ UNCHANGED history
            \/ Faulty("lostAnswer", {current}) /\ (Joins \/ mempool' = mempool)
<1>1. pc = "send" /\ current \in Step /\ UNCHANGED <<accountNonce, mined, effects, cre>>
  BY DEF TypeInv, WriteSound, sendUnknown
<1> DEFINE tx == [record EXCEPT !.state = "UNKNOWN_SUBMISSION_STATE"]
<1>2. record \in TxRecord
  BY <1>1, RecordTyped
<1>3. tx \in TxRecord
  BY <1>2 DEF TxRecord, SubmissionState
<1>4. Stop([setStatus(setTransaction(run, current, tx), current, "UNKNOWN_SUBMISSION_STATE")
            EXCEPT !.state = "DEPLOYMENT_PARTIAL"])
  BY DEF sendUnknown
<1>5. \/ UNCHANGED <<sends, mempool, history>>
      \/ Faulty("lostAnswer", {current}) /\ (Broadcast \/ UNCHANGED <<sends, mempool>>)
  BY DEF sendUnknown
<1> HIDE DEF tx
<1>6. "UNKNOWN_SUBMISSION_STATE" \in StepStatus
  BY DEF StepStatus
<1>7. "DEPLOYMENT_PARTIAL" \in DEPLOYMENT_STATES \ {"READY_TO_ACTIVATE"}
  BY StatesAreStates
<1>8. Settles(current, "UNKNOWN_SUBMISSION_STATE")
  BY <1>1, <1>3, <1>4, <1>6, <1>7, StopSettles
<1>9. Broadcast => Joins /\ mempool' \subseteq Tx /\ sends' \in Nat
  BY <1>1, BroadcastJoins
<1>10. /\ \/ mempool' = mempool /\ UNCHANGED history
          \/ Faulty("lostAnswer", {current}) /\ (Joins \/ mempool' = mempool)
       /\ mempool' \subseteq Tx /\ sends' \in Nat
  BY <1>5, <1>9 DEF TypeInv, TypeOK
<1>11. faults' \in 0..MaxFaults /\ unlearned' \subseteq Step
  BY <1>1, <1>10, FaultTyped DEF TypeInv, TypeOK, history
<1>12. WorldOK'
  BY <1>1, <1>10, <1>11 DEF WorldOK, TypeInv, TypeOK
<1>13. TypeInv'
  BY <1>8, <1>12, EndsTyped DEF Settles, Touches
<1> QED BY <1>1, <1>8, <1>10, <1>13

\* A receipt confirms its step; no receipt, or a revert, fails it.
LEMMA waitForFinalityMoves ==
  ASSUME TypeInv, waitForFinality
  PROVE  /\ TypeInv' /\ pc = "receipt" /\ current \in Step
         /\ \/ Settles(current, "FAILED")
            \/ /\ Touches(current) /\ run'.status[current] = "CONFIRMED"
               /\ TxState(run', current) = "MINED_SUCCESS"
               /\ saved' = saved /\ pc' = "verify" /\ current' = current
         /\ UNCHANGED <<chainVars, effects, history>>
<1>1. /\ pc = "receipt" /\ run \in Run /\ saved \in Run /\ current \in Step
      /\ Type[current] \in WriteType /\ run.transactions[current] \in TxRecord
      /\ UNCHANGED <<chainVars, effects, cre, sends, history>>
  BY DEF TypeInv, TypeOK, WriteSound, waitForFinality
<1> DEFINE tx == reconcile(run.transactions[current])
           settled == setTransaction(run, current, tx)
           p == learnAddress(settled, current)
           q == setStatus(p, current, "CONFIRMED")
<1>2. tx \in TxRecord
  BY <1>1, Reconciled
<1>3. \/ TxState(settled, current) = "MINED_SUCCESS" /\ Await(q, "verify")
      \/ Stop([setStatus(settled, current, "FAILED") EXCEPT !.state = "DEPLOYMENT_PARTIAL"])
  BY DEF waitForFinality
<1> HIDE DEF tx
<1>4. ASSUME Stop([setStatus(settled, current, "FAILED") EXCEPT !.state = "DEPLOYMENT_PARTIAL"])
      PROVE  TypeInv' /\ Settles(current, "FAILED")
  <2>1. "FAILED" \in StepStatus
    BY DEF StepStatus
  <2>2. "DEPLOYMENT_PARTIAL" \in DEPLOYMENT_STATES \ {"READY_TO_ACTIVATE"}
    BY StatesAreStates
  <2>3. Settles(current, "FAILED")
    BY <1>1, <1>2, <1>4, <2>1, <2>2, StopSettles
  <2> QED BY <1>1, <2>3, SameWorld, EndsTyped DEF Settles, Touches
<1>5. ASSUME TxState(settled, current) = "MINED_SUCCESS", Await(q, "verify")
      PROVE  /\ TypeInv' /\ Touches(current) /\ run'.status[current] = "CONFIRMED"
             /\ TxState(run', current) = "MINED_SUCCESS"
             /\ saved' = saved /\ pc' = "verify" /\ current' = current
  <2>1. /\ settled \in Run /\ settled.state = run.state /\ settled.status = run.status
        /\ \A t \in Step \ {current} : settled.transactions[t] = run.transactions[t]
    BY <1>1, <1>2, TransactionSet
  <2>2. TxState(settled, current) = "MINED_SUCCESS"
    BY <1>5
  <2> HIDE DEF settled
  <2>3. /\ p \in Run /\ p.state = settled.state /\ p.status = settled.status
        /\ p.transactions = settled.transactions
    BY <1>1, <2>1, AddressLearned
  <2> HIDE DEF p
  <2>4. /\ q \in Run /\ q.state = p.state /\ q.transactions = p.transactions
        /\ q.status[current] = "CONFIRMED"
        /\ \A t \in Step \ {current} : q.status[t] = p.status[t]
    <3>1. "CONFIRMED" \in StepStatus
      BY DEF StepStatus
    <3> QED BY <1>1, <2>3, <3>1, StatusSet
  <2>5. /\ run' = q /\ pc' = "verify" /\ saved' = saved /\ todo' = todo
        /\ current' = current /\ nonce' = nonce
    BY <1>5 DEF Await, local, p, settled, q
  <2> HIDE DEF q
  <2>6. /\ q.state = run.state
        /\ \A t \in Step \ {current} : /\ q.status[t] = run.status[t]
                                       /\ q.transactions[t] = run.transactions[t]
    BY <2>1, <2>3, <2>4
  <2>7. Touches(current)
    BY <2>4, <2>5, <2>6 DEF Touches
  <2>8. TxState(run', current) = "MINED_SUCCESS"
    BY <2>2, <2>3, <2>4, <2>5 DEF TxState
  <2>9. TypeOK'
    BY <1>1, <2>4, <2>5, SameWorld DEF TypeInv, TypeOK, WorldOK
  <2>10. WriteSound' /\ LoopSound' /\ DiskSound'
    BY <1>1, <2>4, <2>5 DEF WriteSound, LoopSound, DiskSound
  <2> QED BY <2>4, <2>5, <2>7, <2>8, <2>9, <2>10 DEF TypeInv
<1> QED BY <1>1, <1>3, <1>4, <1>5

\* A receipt that could not be read is an outcome the orchestrator never learned.
LEMMA receiptReadFailsMoves ==
  ASSUME TypeInv, receiptReadFails
  PROVE  /\ TypeInv' /\ pc = "receipt" /\ current \in Step
         /\ Ends /\ run' = run /\ Faulty("readFails", {current})
         /\ UNCHANGED <<chainVars, effects>>
<1>1. /\ pc = "receipt" /\ run \in Run /\ current \in Step
      /\ Ends /\ run' = run /\ Faulty("readFails", {current})
      /\ UNCHANGED <<chainVars, effects, cre, sends>>
  BY DEF TypeInv, TypeOK, WriteSound, receiptReadFails, Stop, Ends
<1>2. faults' \in 0..MaxFaults /\ unlearned' \subseteq Step
  BY <1>1, FaultTyped
<1>3. WorldOK'
  BY <1>1, <1>2 DEF WorldOK, TypeInv, TypeOK, chainVars
<1> QED BY <1>1, <1>3, EndsTyped

\* The effect of a write is seen, or its step fails, or observe throws.
LEMMA verifyWriteMoves ==
  ASSUME TypeInv, verifyWrite
  PROVE  /\ TypeInv' /\ pc = "verify" /\ current \in Step
         /\ \/ Visible(current, run) /\ Proceeds /\ Marks(current, "VERIFIED")
            \/ Ends /\ Marks(current, "FAILED")
            \/ QuietEnd(current)
         /\ UNCHANGED <<chainVars, effects, history>>
<1>1. /\ pc = "verify" /\ run \in Run /\ current \in Step
      /\ UNCHANGED <<chainVars, effects, cre, sends, history>>
  BY DEF TypeInv, TypeOK, WriteSound, verifyWrite
<1>2. ASSUME Proceed(setStatus(run, current, "VERIFIED"))
      PROVE  Proceeds /\ Marks(current, "VERIFIED")
  <2>1. Proceeds /\ run' = setStatus(run, current, "VERIFIED")
    BY <1>2 DEF Proceed, Proceeds
  <2> QED BY <1>1, <2>1, MarksStep DEF StepStatus
<1>3. ASSUME Stop([setStatus(run, current, "FAILED") EXCEPT !.state = "DEPLOYMENT_PARTIAL"])
      PROVE  Ends /\ Marks(current, "FAILED")
  <2> DEFINE p == setStatus(run, current, "FAILED")
             q == [p EXCEPT !.state = "DEPLOYMENT_PARTIAL"]
  <2>1. /\ p \in Run /\ p.transactions = run.transactions
        /\ p.status[current] = "FAILED" /\ \A t \in Step \ {current} : p.status[t] = run.status[t]
    BY <1>1, StatusSet DEF StepStatus
  <2>2. Stop(q)
    BY <1>3
  <2> HIDE DEF p
  <2>3. /\ q \in Run /\ q.state # "READY_TO_ACTIVATE"
        /\ q.status = p.status /\ q.transactions = p.transactions
    BY <2>1, StatesAreStates, StateSet
  <2> HIDE DEF q
  <2> QED BY <2>1, <2>2, <2>3 DEF Marks, Stop, Ends, Touches
<1>4. Stop(run) => QuietEnd(current)
  BY <1>1, StopsMoved
<1>5. \/ Visible(current, run) /\ Proceeds /\ Marks(current, "VERIFIED")
      \/ Ends /\ Marks(current, "FAILED")
      \/ QuietEnd(current)
  BY <1>2, <1>3, <1>4 DEF verifyWrite
<1>6. run' \in Run /\ (Ends \/ Proceeds)
  BY <1>5 DEF Marks, QuietEnd, Touches
<1> QED BY <1>1, <1>5, <1>6, SameWorld, EndsTyped

\* A crash goes back to the disk; what memory knew better was not learned.
LEMMA crashMoves ==
  ASSUME TypeInv, crash
  PROVE  /\ TypeInv' /\ run' = saved /\ saved' = saved /\ pc' = "down"
         /\ Faulty("crash", {s \in Step : run.status[s] # saved.status[s]})
         /\ UNCHANGED <<chainVars, effects>>
<1>1. /\ saved \in Run /\ run' = saved /\ saved' = saved /\ Ends
      /\ Faulty("crash", {s \in Step : run.status[s] # saved.status[s]})
      /\ UNCHANGED <<chainVars, effects, cre, sends>>
  BY DEF TypeInv, TypeOK, crash, Stop, Ends
<1>2. faults' \in 0..MaxFaults /\ unlearned' \subseteq Step
  BY <1>1, FaultTyped
<1>3. WorldOK'
  BY <1>1, <1>2 DEF WorldOK, TypeInv, TypeOK, chainVars
<1> QED BY <1>1, <1>3, EndsTyped DEF Ends

\* A block takes a transaction and drops those it replaces.
LEMMA mineMoves ==
  ASSUME TypeInv, NEW t \in mempool, NEW ok \in BOOLEAN, mine(t, ok)
  PROVE  /\ TypeInv' /\ UNCHANGED <<run, saved, pc, current, history>>
         /\ t.step \in Step /\ mempool' \subseteq mempool \ {t}
         /\ effects'[t.step] \in {effects[t.step], effects[t.step] + 1}
         /\ \A s \in Step \ {t.step} : effects'[s] = effects[s]
<1>1. /\ t \in Tx /\ mempool' = {u \in mempool : u.nonce > t.nonce}
      /\ accountNonce' = accountNonce + 1
      /\ mined' = mined \cup {[step |-> t.step, hash |-> t.hash, ok |-> ok]}
      /\ effects' = IF ok THEN [effects EXCEPT ![t.step] = @ + 1] ELSE effects
      /\ UNCHANGED <<run, saved, pc, todo, local, cre, sends, history>>
  BY DEF TypeInv, TypeOK, mine
<1>2. t.step \in Step /\ t.hash \in Nat /\ t.nonce \in Nat
  BY <1>1 DEF Tx
<1>3. mempool' \subseteq mempool \ {t}
  BY <1>1, <1>2
<1>4. /\ effects' \in [Step -> Nat]
      /\ effects'[t.step] \in {effects[t.step], effects[t.step] + 1}
      /\ \A s \in Step \ {t.step} : effects'[s] = effects[s]
  BY <1>1, <1>2 DEF TypeInv, TypeOK
<1>5. mined' \subseteq [step : Step, hash : Nat, ok : BOOLEAN]
  BY <1>1, <1>2 DEF TypeInv, TypeOK
<1>6. TypeOK'
  BY <1>1, <1>3, <1>4, <1>5 DEF TypeInv, TypeOK, local, history
<1>7. WriteSound' /\ LoopSound' /\ DiskSound'
  BY <1>1 DEF TypeInv, WriteSound, LoopSound, DiskSound, local, TxState
<1> QED BY <1>1, <1>2, <1>3, <1>4, <1>6, <1>7 DEF TypeInv, local
-----------------------------------------------------------------------------
\* A new deployment is typed.
LEMMA InitTyped == Init => TypeInv
<1> SUFFICES ASSUME Init PROVE TypeInv
  OBVIOUS
<1>1. newRun \in Run
  BY PhasesOfThePath DEF newRun, Run, DEPLOYMENT_STATES, StepStatus
<1>2. TypeOK
  BY <1>1, PlanAssumption DEF Init, TypeOK
<1>3. WriteSound /\ LoopSound /\ DiskSound
  BY DEF Init, WriteSound, LoopSound, DiskSound
<1> QED BY <1>2, <1>3 DEF TypeInv

\* The actions of one step keep the types.
LEMMA ExecuteTyped ==
  ASSUME TypeInv, NEW s \in Step, Execute(s)
  PROVE  TypeInv'
BY executeThrowsMoves, executeObservationMoves, executeWriteMoves, executeCreDeployMoves,
   executeCrePauseMoves, executeImageStepMoves DEF Execute

\* Every step keeps the types.
LEMMA StepTyped == TypeInv /\ [Next]_vars => TypeInv'
<1> SUFFICES ASSUME TypeInv, [Next]_vars PROVE TypeInv'
  OBVIOUS
<1>1. CASE UNCHANGED vars
  BY <1>1 DEF TypeInv, TypeOK, WriteSound, LoopSound, DiskSound, TxState, vars, local,
              chainVars, history
<1>2. CASE Next
  BY <1>2, invokeMoves, resumeReconcileMoves, resumeObserveMoves, finishMoves, ExecuteTyped,
     sendAcceptedMoves, sendRejectedMoves, sendUnknownMoves, waitForFinalityMoves,
     receiptReadFailsMoves, verifyWriteMoves, crashMoves, mineMoves DEF Next
<1> QED BY <1>1, <1>2

\* The run, the disk and the chain keep their types, and every await knows its
\* step: no continuation of executeWrite works on a step that is not being
\* written, no loop of resume on a record that is not there.
THEOREM DeploymentTyped == Spec => [](TypeOK /\ WriteSound /\ LoopSound /\ DiskSound)
<1>1. Init => TypeInv
  BY InitTyped
<1>2. TypeInv /\ [Next]_vars => TypeInv'
  BY StepTyped
<1>3. TypeInv => TypeOK /\ WriteSound /\ LoopSound /\ DiskSound
  BY DEF TypeInv
<1> QED BY <1>1, <1>2, <1>3, PTL DEF Spec
-----------------------------------------------------------------------------
\* A step that Visible vouches for exists.
LEMMA VisibleExists ==
  ASSUME NEW s \in Step, NEW r, Visible(s, r), Witnessed(s)
  PROVE  effects[s] > 0
BY DEF Visible, Witnessed, ObservationType

\* No effect is ever undone.
Grows == \A t \in Step : effects'[t] >= effects[t]

\* So what exists stays, and what a step depends on stays with it.
LEMMA GroundStays ==
  ASSUME TypeInv, TypeInv', Grows
  PROVE  \A t \in Step : /\ effects[t] > 0 => effects'[t] > 0
                         /\ Grounded(t) => Grounded(t)'
<1>1. effects \in [Step -> Nat] /\ effects' \in [Step -> Nat]
  BY DEF TypeInv, TypeOK
<1>2. \A t \in Step : effects[t] > 0 => effects'[t] > 0
  BY <1>1 DEF Grows
<1>3. \A t \in Step : Deps[t] \subseteq Step
  BY PlanAssumption DEF validatePlan
<1>4. ASSUME NEW t \in Step, Grounded(t) PROVE Grounded(t)'
  BY <1>2, <1>3, <1>4 DEF Grounded, Witnessed
<1> QED BY <1>2, <1>4

\* What everything that exists or is on its way rests on is there.
LEMMA SentIsGrounded ==
  ASSUME OrderInv, NEW t \in Step, Sent(t)
  PROVE  Grounded(t)
BY DEF OrderInv, EffectsFollowDependencies, Sent, Grounded

\* What a step of the orchestrator or of the chain must see to: a step it marks
\* done exists, and nothing goes out that does not have what it depends on.
LEMMA OrderMove ==
  ASSUME OrderInv, TypeInv', Grows, NEW s, Touches(s),
         saved' = saved \/ saved' = run',
         s \in Step /\ Witnessed(s) /\ run'.status[s] \in DoneStatus
           => run.status[s] \in DoneStatus \/ effects'[s] > 0,
         \A t \in Step : effects'[t] > 0 => Sent(t) \/ Grounded(t),
         \A t \in mempool' : t \in mempool \/ Grounded(t.step),
         pc' = "send" => Grounded(current')
  PROVE  OrderInv'
<1>1. \A t \in Step : /\ effects[t] > 0 => effects'[t] > 0
                      /\ Grounded(t) => Grounded(t)'
  BY GroundStays DEF OrderInv
<1>2. Truthful(run)'
  <2>1. ASSUME NEW t \in Step, run'.status[t] \in DoneStatus, Witnessed(t)
        PROVE  effects'[t] > 0
    <3>1. CASE t = s
      BY <1>1, <2>1, <3>1 DEF OrderInv, Truthful, Done
    <3>2. CASE t # s
      BY <1>1, <2>1, <3>2 DEF OrderInv, Truthful, Done, Touches
    <3> QED BY <3>1, <3>2
  <2>2. ASSUME run'.state = "READY_TO_ACTIVATE", NEW t \in Step, Witnessed(t)
        PROVE  effects'[t] > 0
    BY <1>1, <2>2 DEF OrderInv, Truthful, Touches
  <2> QED BY <2>1, <2>2 DEF Truthful, Done, Witnessed
<1>3. Truthful(saved)'
  <2>1. CASE saved' = run'
    BY <1>2, <2>1 DEF Truthful, Done
  <2>2. CASE saved' = saved
    BY <1>1, <2>2 DEF OrderInv, Truthful, Done, Witnessed
  <2> QED BY <2>1, <2>2
<1>4. EffectsFollowDependencies'
  <2>1. ASSUME NEW t \in Step, effects'[t] > 0 \/ \E u \in mempool' : u.step = t
        PROVE  Grounded(t)
    <3>1. CASE effects'[t] > 0
      BY <3>1, SentIsGrounded
    <3>2. ASSUME NEW u \in mempool', u.step = t PROVE Grounded(t)
      BY <3>2, SentIsGrounded DEF Sent
    <3> QED BY <2>1, <3>1, <3>2
  <2>2. ASSUME NEW t \in Step, effects'[t] > 0 \/ \E u \in mempool' : u.step = t
        PROVE  Grounded(t)'
    BY <1>1, <2>1, <2>2
  <2> QED BY <2>2 DEF EffectsFollowDependencies, Grounded
<1>5. pc' = "send" => Grounded(current)'
  <2> SUFFICES ASSUME pc' = "send" PROVE Grounded(current)'
    OBVIOUS
  <2>1. current' \in Step
    BY DEF TypeInv, WriteSound
  <2>2. PICK c \in Step : c = current'
    BY <2>1
  <2>3. Grounded(c)'
    BY <1>1, <2>2
  <2> QED BY <2>2, <2>3 DEF Grounded
<1> QED BY <1>2, <1>3, <1>4, <1>5 DEF OrderInv

\* The same for a step that leaves the world alone and begins no write.
LEMMA OrderQuiet ==
  ASSUME OrderInv, TypeInv', effects' = effects, mempool' = mempool, NEW s, Touches(s),
         saved' = saved \/ saved' = run', pc' # "send",
         s \in Step /\ Witnessed(s) /\ run'.status[s] \in DoneStatus
           => run.status[s] \in DoneStatus \/ effects[s] > 0
  PROVE  OrderInv'
<1>1. \A t \in Step : effects[t] \in Nat
  BY DEF OrderInv, TypeInv, TypeOK
<1>2. Grows /\ \A t \in Step : effects'[t] > 0 => Sent(t)
  BY <1>1 DEF Grows, Sent
<1> QED BY <1>2, OrderMove

\* A step that is executed has everything it depends on.
LEMMA ReadyIsGrounded ==
  ASSUME OrderInv, NEW s \in Step, Ready(s)
  PROVE  Grounded(s)
<1>1. Deps[s] \subseteq Done(run)
  BY ReadyIsRunnable
<1> QED BY <1>1 DEF OrderInv, Truthful, Grounded

\* A service step is done only after what it depends on.
LEMMA ServesInOrder ==
  ASSUME OrderInv, TypeInv', NEW s \in Step, Ready(s), Serves(s), UNCHANGED chainVars
  PROVE  OrderInv'
<1>1. Grounded(s) /\ mempool' = mempool
  BY ReadyIsGrounded DEF chainVars
<1>2. TypeInv
  BY DEF OrderInv
<1>3. CASE (QuietEnd(s) \/ (Ends /\ Marks(s, "FAILED"))) /\ UNCHANGED <<effects, history>>
  BY <1>1, <1>3, OrderQuiet DEF QuietEnd, Ends, Marks, DoneStatus
<1>4. CASE Affect(s) /\ ((Proceeds /\ Marks(s, "VERIFIED")) \/ QuietEnd(s))
  <2>1. /\ effects'[s] = effects[s] + 1 /\ effects \in [Step -> Nat]
        /\ \A t \in Step \ {s} : effects'[t] = effects[t]
    BY <1>2, <1>4, EffectTyped DEF TypeInv, TypeOK
  <2>2. Grows /\ effects'[s] > 0
    BY <2>1 DEF Grows
  <2>3. \A t \in Step : effects'[t] > 0 => Sent(t) \/ Grounded(t)
    BY <1>1, <2>1 DEF Sent
  <2>4. Touches(s) /\ (saved' = saved \/ saved' = run') /\ pc' # "send"
    BY <1>4 DEF Marks, QuietEnd, Ends, Proceeds
  <2> QED BY <1>1, <2>2, <2>3, <2>4, OrderMove
<1> QED BY <1>3, <1>4 DEF Serves

\* Whatever executeStep does with a step keeps the order.
LEMMA ExecuteInOrder ==
  ASSUME OrderInv, NEW s \in Step, Execute(s)
  PROVE  OrderInv'
<1>1. TypeInv
  BY DEF OrderInv
<1>2. CASE executeStepThrows(s) \/ executeThrows(s)
  BY <1>1, <1>2, executeThrowsMoves, OrderQuiet DEF QuietEnd, Ends, chainVars
<1>3. CASE executeObservation(s)
  BY <1>1, <1>3, executeObservationMoves, OrderQuiet DEF Proceeds, Ends, Marks, chainVars
<1>4. CASE executeWrite(s)
  <2>1. /\ TypeInv' /\ Ready(s) /\ Marks(s, "SUBMITTED")
        /\ saved' = saved /\ current' = s /\ effects' = effects /\ mempool' = mempool
    BY <1>1, <1>4, executeWriteMoves DEF chainVars
  <2>2. Grounded(s)
    BY <2>1, ReadyIsGrounded
  <2>3. Grows /\ \A t \in Step : effects'[t] > 0 => Sent(t)
    BY <1>1, <2>1 DEF Grows, Sent, TypeInv, TypeOK
  <2>4. Touches(s) /\ run'.status[s] \notin DoneStatus
    BY <2>1 DEF Marks, DoneStatus
  <2> QED BY <2>1, <2>2, <2>3, <2>4, OrderMove
<1>5. CASE executeCreDeploy(s) \/ executeCrePause(s) \/ executeImageStep(s)
  BY <1>1, <1>5, executeCreDeployMoves, executeCrePauseMoves, executeImageStepMoves,
     ServesInOrder
<1> QED BY <1>2, <1>3, <1>4, <1>5 DEF Execute

\* Resuming marks done only what the world shows, and finish tells the truth.
LEMMA ResumeInOrder ==
  ASSUME OrderInv, invoke \/ resumeReconcile \/ resumeObserve \/ finish
  PROVE  OrderInv'
<1>1. TypeInv /\ run \in Run
  BY DEF OrderInv, TypeInv, TypeOK
<1>2. effects' = effects /\ mempool' = mempool
  BY DEF invoke, resumeReconcile, resumeObserve, finish, chainVars
<1>3. CASE invoke
  <2>1. TypeInv' /\ run' = run /\ saved' = saved /\ pc' # "send"
    BY <1>1, <1>3, invokeMoves
  <2>2. Touches(None) /\ run'.status = run.status
    BY <1>1, <2>1 DEF Touches
  <2> QED BY <1>2, <2>1, <2>2, OrderQuiet
<1>4. CASE resumeReconcile
  <2>1. /\ TypeInv' /\ pc' # "send" /\ (saved' = saved \/ saved' = run')
        /\ \E s : Touches(s) /\ run'.status = run.status
    BY <1>1, <1>4, resumeReconcileMoves
  <2> QED BY <1>2, <2>1, OrderQuiet
<1>5. CASE resumeObserve
  <2>1. /\ TypeInv' /\ pc' # "send" /\ (saved' = saved \/ saved' = run')
        /\ \E s : /\ Touches(s)
                  /\ run' = run \/ (s \in Step /\ Visible(s, run))
    BY <1>1, <1>5, resumeObserveMoves
  <2>2. PICK s : Touches(s) /\ (run' = run \/ (s \in Step /\ Visible(s, run)))
    BY <2>1
  <2>3. s \in Step /\ Witnessed(s) /\ run'.status[s] \in DoneStatus
          => run.status[s] \in DoneStatus \/ effects[s] > 0
    BY <2>2, VisibleExists
  <2> QED BY <1>2, <2>1, <2>2, <2>3, OrderQuiet
<1>6. CASE finish
  <2>1. /\ TypeInv' /\ saved' = run' /\ pc' = "down" /\ run'.status = run.status
        /\ run'.state = "READY_TO_ACTIVATE" => run.state = run'.state \/ Done(run) = Step
    BY <1>1, <1>6, finishMoves DEF Ends
  <2>2. Truthful(run)'
    BY <1>2, <2>1 DEF OrderInv, Truthful, Done, Witnessed
  <2>3. Truthful(saved)'
    BY <2>1, <2>2 DEF Truthful, Done
  <2>4. EffectsFollowDependencies'
    BY <1>2 DEF OrderInv, EffectsFollowDependencies, Witnessed
  <2> QED BY <2>1, <2>2, <2>3, <2>4 DEF OrderInv
<1> QED BY <1>3, <1>4, <1>5, <1>6

\* A transaction that joins the mempool is one of a step with all it depends on.
LEMMA JoinsInOrder ==
  ASSUME OrderInv, TypeInv', pc = "send", current \in Step, Touches(current),
         effects' = effects, Joins \/ mempool' = mempool, pc' # "send",
         saved' = saved \/ saved' = run', run'.status[current] \notin DoneStatus
  PROVE  OrderInv'
<1>1. Grounded(current)
  BY DEF OrderInv
<1>2. \A t \in mempool' : t \in mempool \/ Grounded(t.step)
  BY <1>1 DEF Joins
<1>3. \A t \in Step : effects[t] \in Nat
  BY DEF OrderInv, TypeInv, TypeOK
<1>4. Grows /\ \A t \in Step : effects'[t] > 0 => Sent(t)
  BY <1>3 DEF Grows, Sent
<1> QED BY <1>2, <1>4, OrderMove

\* What is sent has all it depends on.
LEMMA SendInOrder ==
  ASSUME OrderInv, sendAccepted \/ sendRejected \/ sendUnknown
  PROVE  OrderInv'
<1>1. TypeInv
  BY DEF OrderInv
<1>2. CASE sendAccepted
  <2>1. /\ TypeInv' /\ pc = "send" /\ current \in Step /\ Touches(current)
        /\ run'.status = run.status /\ saved' = saved /\ pc' # "send" /\ Joins
        /\ effects' = effects
    BY <1>1, <1>2, sendAcceptedMoves
  <2>2. run'.status[current] \notin DoneStatus
    BY <1>1, <2>1 DEF TypeInv, WriteSound, DoneStatus
  <2> QED BY <2>1, <2>2, JoinsInOrder
<1>3. CASE sendRejected
  <2>1. /\ TypeInv' /\ pc = "send" /\ current \in Step /\ Settles(current, "READY")
        /\ effects' = effects /\ mempool' = mempool
    BY <1>1, <1>3, sendRejectedMoves DEF chainVars
  <2> QED BY <2>1, JoinsInOrder DEF Settles, Ends, DoneStatus
<1>4. CASE sendUnknown
  <2>1. /\ TypeInv' /\ pc = "send" /\ current \in Step
        /\ Settles(current, "UNKNOWN_SUBMISSION_STATE")
        /\ effects' = effects /\ (Joins \/ mempool' = mempool)
    BY <1>1, <1>4, sendUnknownMoves
  <2> QED BY <2>1, JoinsInOrder DEF Settles, Ends, DoneStatus
<1> QED BY <1>2, <1>3, <1>4

\* A write is marked done only once its effect is seen.
LEMMA ReceiptInOrder ==
  ASSUME OrderInv, waitForFinality \/ receiptReadFails \/ verifyWrite
  PROVE  OrderInv'
<1>1. TypeInv /\ run \in Run
  BY DEF OrderInv, TypeInv, TypeOK
<1>2. CASE waitForFinality
  <2>1. /\ TypeInv' /\ current \in Step /\ Touches(current) /\ pc' # "send"
        /\ run'.status[current] \in {"FAILED", "CONFIRMED"}
        /\ saved' = saved \/ saved' = run'
        /\ effects' = effects /\ mempool' = mempool
    BY <1>1, <1>2, waitForFinalityMoves DEF Settles, Ends, chainVars
  <2> QED BY <2>1, OrderQuiet DEF DoneStatus
<1>3. CASE receiptReadFails
  <2>1. /\ TypeInv' /\ run' = run /\ saved' = run' /\ pc' # "send"
        /\ effects' = effects /\ mempool' = mempool
    BY <1>1, <1>3, receiptReadFailsMoves DEF Ends, chainVars
  <2>2. Touches(None)
    BY <1>1, <2>1 DEF Touches
  <2> QED BY <2>1, <2>2, OrderQuiet
<1>4. CASE verifyWrite
  <2>1. /\ TypeInv' /\ current \in Step /\ Touches(current) /\ pc' # "send"
        /\ saved' = saved \/ saved' = run'
        /\ \/ Visible(current, run)
           \/ run'.status[current] = "FAILED"
           \/ run'.status = run.status
        /\ effects' = effects /\ mempool' = mempool
    BY <1>1, <1>4, verifyWriteMoves DEF Marks, QuietEnd, Ends, Proceeds, chainVars
  <2>2. Witnessed(current) /\ run'.status[current] \in DoneStatus
          => run.status[current] \in DoneStatus \/ effects[current] > 0
    BY <2>1, VisibleExists DEF DoneStatus
  <2> QED BY <2>1, <2>2, OrderQuiet
<1> QED BY <1>2, <1>3, <1>4

\* A crash and a block keep the order.
LEMMA WorldInOrder ==
  ASSUME OrderInv, crash \/ \E t \in mempool, ok \in BOOLEAN : mine(t, ok)
  PROVE  OrderInv'
<1>1. TypeInv /\ run \in Run
  BY DEF OrderInv, TypeInv, TypeOK
<1>2. CASE crash
  <2>1. /\ TypeInv' /\ run' = saved /\ saved' = saved /\ pc' = "down"
        /\ effects' = effects /\ mempool' = mempool
    BY <1>1, <1>2, crashMoves DEF chainVars
  <2>2. Truthful(saved)'
    BY <2>1 DEF OrderInv, Truthful, Done, Witnessed
  <2>3. Truthful(run)'
    BY <2>1, <2>2 DEF Truthful, Done
  <2>4. EffectsFollowDependencies'
    BY <2>1 DEF OrderInv, EffectsFollowDependencies, Witnessed
  <2> QED BY <2>1, <2>2, <2>3, <2>4 DEF OrderInv
<1>3. ASSUME NEW t \in mempool, NEW ok \in BOOLEAN, mine(t, ok) PROVE OrderInv'
  <2>1. /\ TypeInv' /\ UNCHANGED <<run, saved, pc, current>>
        /\ t.step \in Step /\ mempool' \subseteq mempool
        /\ effects'[t.step] \in {effects[t.step], effects[t.step] + 1}
        /\ \A s \in Step \ {t.step} : effects'[s] = effects[s]
    BY <1>1, <1>3, mineMoves
  <2>2. \A s \in Step : effects[s] \in Nat
    BY <1>1 DEF TypeInv, TypeOK
  <2>3. Grows
    BY <2>1, <2>2 DEF Grows
  <2>4. \A s \in Step : effects'[s] > 0 => Sent(s)
    BY <2>1, <2>2 DEF Sent
  <2>5. Touches(None)
    BY <1>1, <2>1 DEF Touches
  <2>6. pc' = "send" => Grounded(current')
    BY <2>1 DEF OrderInv
  <2> QED BY <2>1, <2>3, <2>4, <2>5, <2>6, OrderMove
<1> QED BY <1>2, <1>3

\* A new deployment claims nothing and has done nothing.
LEMMA InitInOrder == Init => OrderInv
<1> SUFFICES ASSUME Init PROVE OrderInv
  OBVIOUS
<1>1. TypeInv
  BY InitTyped
<1>2. \A s \in Step : run.status[s] = "PENDING" /\ effects[s] = 0
  BY DEF Init, newRun
<1>3. run = saved /\ run.state = "DEPLOYMENT_APPROVED" /\ mempool = {} /\ pc = "down"
  BY DEF Init, newRun
<1>4. Truthful(run)
  BY <1>2, <1>3 DEF Truthful, Done, DoneStatus
<1>5. EffectsFollowDependencies
  BY <1>2, <1>3 DEF EffectsFollowDependencies
<1> QED BY <1>1, <1>3, <1>4, <1>5 DEF OrderInv

\* Every step keeps the order.
LEMMA StepInOrder == OrderInv /\ [Next]_vars => OrderInv'
<1> SUFFICES ASSUME OrderInv, [Next]_vars PROVE OrderInv'
  OBVIOUS
<1>1. CASE UNCHANGED vars
  <2>1. TypeInv'
    BY <1>1, StepTyped DEF OrderInv
  <2>2. UNCHANGED <<run, saved, pc, current, mempool, effects>>
    BY <1>1 DEF vars, local, chainVars
  <2> QED BY <2>1, <2>2 DEF OrderInv, Truthful, Done, EffectsFollowDependencies, Grounded,
             Witnessed
<1>2. CASE Next
  BY <1>2, ResumeInOrder, ExecuteInOrder, SendInOrder, ReceiptInOrder, WorldInOrder DEF Next
<1> QED BY <1>1, <1>2

\* The orchestrator's record and the world's order are sound throughout.
LEMMA OrderIsSound == Spec => []OrderInv
BY InitInOrder, StepInOrder, PTL DEF Spec

\* Of every plan: nothing exists, and nothing is on its way to the chain, before
\* everything it depends on exists, in whatever order receipts, failures,
\* restarts and crashes come (nextStep in orchestrator.ts).
THEOREM EffectsAreOrdered == Spec => []EffectsFollowDependencies
<1>1. OrderInv => EffectsFollowDependencies
  BY DEF OrderInv
<1> QED BY OrderIsSound, <1>1, PTL

\* A saved READY_TO_ACTIVATE is true: every step that changes the world and that
\* observe or a service vouches for has taken effect.
THEOREM ReadyIsTrue == Spec => []ReadyIsComplete
<1>1. OrderInv => ReadyIsComplete
  BY DEF OrderInv, Truthful, ReadyIsComplete
<1> QED BY OrderIsSound, <1>1, PTL
-----------------------------------------------------------------------------
\* What has to be shown of a step of the orchestrator: that it keeps to the step
\* in hand, and that this step is as it should be afterwards.
LEMMA OnceMove ==
  ASSUME OnceInv, TypeInv', NEW s, Touches(s),
         saved' = saved \/ saved' = run',
         unlearned \subseteq unlearned', faults' # 0 \/ UNCHANGED history,
         pc \in {"send", "receipt"} => s = current,
         s \in Step /\ run'.status[s] = "CONFIRMED" => TxState(run', s) = "MINED_SUCCESS",
         \A t \in Step \ {s} : effects'[t] = effects[t],
         \A t \in mempool' : t \in mempool \/ t.step = s,
         s \in Step \ unlearned' => Learned(s)'
  PROVE  OnceInv'
<1>1. ConfirmedIsMined(run)'
  <2>1. ASSUME NEW t \in Step, run'.status[t] = "CONFIRMED"
        PROVE  TxState(run', t) = "MINED_SUCCESS"
    <3>1. CASE t = s
      BY <2>1, <3>1
    <3>2. CASE t # s
      BY <2>1, <3>2 DEF OnceInv, ConfirmedIsMined, Touches, TxState
    <3> QED BY <3>1, <3>2
  <2> QED BY <2>1 DEF ConfirmedIsMined, TxState
<1>2. ConfirmedIsMined(saved)'
  <2>1. CASE saved' = run'
    BY <1>1, <2>1 DEF ConfirmedIsMined, TxState
  <2>2. CASE saved' = saved
    BY <2>2 DEF OnceInv, ConfirmedIsMined, TxState
  <2> QED BY <2>1, <2>2
<1>3. ASSUME NEW t \in Step \ unlearned', t # s PROVE Learned(t)'
  <2>1. /\ Learned(t) /\ effects'[t] = effects[t]
        /\ run'.status[t] = run.status[t]
    BY <1>3 DEF OnceInv, Touches
  <2>2. \A u \in mempool' : u.step = t => u \in mempool
    BY <1>3
  <2>3. run.status[t] # "SUBMITTED" /\ (Sent(t) => Closed(run, t))
    BY <1>3, <2>1 DEF Learned
  <2>4. saved'.status[t] # "SUBMITTED"
    BY <2>1, <2>3 DEF Learned
  <2>5. effects'[t] <= 1 /\ \A u \in mempool' : u.step = t => effects'[t] = 0
    BY <2>1, <2>2 DEF Learned
  <2>6. \A u, v \in mempool' : u.step = t /\ v.step = t => u = v
    BY <2>1, <2>2 DEF Learned
  <2>7. effects'[t] > 0 \/ (\E u \in mempool' : u.step = t) => Closed(run, t)
    BY <2>1, <2>2, <2>3 DEF Sent
  <2>8. Sent(t)' => Closed(run, t)'
    BY <2>1, <2>7 DEF Sent, Closed
  <2> QED BY <2>1, <2>3, <2>4, <2>5, <2>6, <2>8 DEF Learned
<1>4. faults' = 0 => unlearned' = {}
  BY DEF OnceInv, history
<1> QED BY <1>1, <1>2, <1>3, <1>4 DEF OnceInv

\* A step outside a write that changes nothing in the world, and of the step in
\* hand at most that it is closed.
LEMMA OnceQuiet ==
  ASSUME OnceInv, TypeInv', NEW s, Touches(s), UNCHANGED <<effects, mempool, history>>,
         saved' = saved \/ saved' = run',
         pc \notin {"send", "receipt"}, pc' \notin {"send", "receipt"},
         s \in Step => \/ run'.status[s] = run.status[s]
                       \/ run'.status[s] \in DoneStatus \cup {"FAILED"},
         s \in Step /\ run'.status[s] = "CONFIRMED" => TxState(run', s) = "MINED_SUCCESS"
  PROVE  OnceInv'
<1>1. unlearned' = unlearned
  BY DEF history
<1>2. ASSUME s \in Step \ unlearned' PROVE Learned(s)'
  <2>1. Learned(s)
    BY <1>1, <1>2 DEF OnceInv
  <2>2. run.status[s] # "SUBMITTED" /\ (Sent(s) => Closed(run, s))
    BY <2>1 DEF Learned
  <2>3. run'.status[s] # "SUBMITTED" /\ (Closed(run, s) => Closed(run, s)')
    BY <1>2, <2>2 DEF Closed, DoneStatus
  <2>4. saved'.status[s] # "SUBMITTED"
    BY <2>1, <2>3 DEF Learned
  <2>5. Sent(s)' = Sent(s)
    BY DEF Sent
  <2> QED BY <2>1, <2>2, <2>3, <2>4, <2>5 DEF Learned
<1> QED BY <1>1, <1>2, OnceMove

\* A step that is executed was not sent before, as far as its outcomes are known.
LEMMA ExecutedIsUnsent ==
  ASSUME OnceInv, NEW s \in Step, s \notin unlearned, Ready(s), assertSafeToRetry(run, s)
  PROVE  pc = "next" /\ ~Sent(s) /\ effects[s] = 0
<1>1. pc = "next" /\ s \notin Done(run) /\ run.status[s] # "FAILED"
  BY ReadyIsRunnable
<1>2. run.status[s] # "CONFIRMED"
  BY DEF OnceInv, ConfirmedIsMined, assertSafeToRetry
<1>3. ~Closed(run, s)
  BY <1>1, <1>2 DEF Closed, Done
<1>4. ~Sent(s)
  BY <1>1, <1>3 DEF OnceInv, Learned
<1>5. effects[s] \in Nat
  BY DEF OnceInv, TypeInv, TypeOK
<1> QED BY <1>1, <1>4, <1>5 DEF Sent

\* A service step whose answer arrives has been done once.
LEMMA ServesOnce ==
  ASSUME OnceInv, TypeInv', NEW s \in Step, Ready(s), assertSafeToRetry(run, s), Serves(s),
         UNCHANGED chainVars
  PROVE  OnceInv'
<1>1. TypeInv /\ pc = "next" /\ mempool' = mempool
  BY ReadyIsRunnable DEF OnceInv, chainVars
<1>2. CASE (QuietEnd(s) \/ (Ends /\ Marks(s, "FAILED"))) /\ UNCHANGED <<effects, history>>
  <2>1. /\ Touches(s) /\ saved' = run' /\ pc' = "down" /\ run'.transactions = run.transactions
        /\ run'.status[s] = run.status[s] \/ run'.status[s] = "FAILED"
    BY <1>2 DEF QuietEnd, Ends, Marks
  <2>2. run'.status[s] = "CONFIRMED" => TxState(run', s) = "MINED_SUCCESS"
    BY <2>1 DEF OnceInv, ConfirmedIsMined, TxState
  <2> QED BY <1>1, <1>2, <2>1, <2>2, OnceQuiet
<1>3. CASE Affect(s) /\ Proceeds /\ Marks(s, "VERIFIED") /\ UNCHANGED history
  <2>1. /\ Touches(s) /\ saved' = saved /\ pc' = "next" /\ run'.status[s] = "VERIFIED"
        /\ unlearned' = unlearned
    BY <1>3 DEF Proceeds, Marks, history
  <2>2. /\ effects'[s] = effects[s] + 1
        /\ \A t \in Step \ {s} : effects'[t] = effects[t]
    BY <1>1, <1>3, EffectTyped
  <2>3. ASSUME s \notin unlearned PROVE Learned(s)'
    <3>1. ~Sent(s) /\ effects[s] = 0 /\ Learned(s)
      BY <2>3, ExecutedIsUnsent DEF OnceInv
    <3>2. effects'[s] = 1 /\ \A t \in mempool : t.step # s
      BY <2>2, <3>1 DEF Sent
    <3>3. Closed(run, s)'
      BY <2>1 DEF Closed, DoneStatus
    <3> QED BY <1>1, <2>1, <3>1, <3>2, <3>3 DEF Learned
  <2> QED BY <1>1, <1>3, <2>1, <2>2, <2>3, OnceMove
<1>4. CASE Affect(s) /\ QuietEnd(s) /\ Faulty("lostAnswer", {s})
  <2>1. /\ Touches(s) /\ saved' = run' /\ pc' = "down"
        /\ run'.status = run.status /\ run'.transactions = run.transactions
    BY <1>4 DEF QuietEnd, Ends
  <2>2. \A t \in Step \ {s} : effects'[t] = effects[t]
    BY <1>1, <1>4, EffectTyped
  <2>3. s \in unlearned' /\ unlearned \subseteq unlearned' /\ faults' # 0
    BY <1>1, <1>4, FaultTyped
  <2>4. run'.status[s] = "CONFIRMED" => TxState(run', s) = "MINED_SUCCESS"
    BY <2>1 DEF OnceInv, ConfirmedIsMined, TxState
  <2> QED BY <1>1, <2>1, <2>2, <2>3, <2>4, OnceMove
<1> QED BY <1>2, <1>3, <1>4 DEF Serves

\* Whatever executeStep does with a step, it is done at most once.
LEMMA ExecuteOnce ==
  ASSUME OnceInv, NEW s \in Step, Execute(s)
  PROVE  OnceInv'
<1>1. TypeInv
  BY DEF OnceInv
<1>2. CASE executeStepThrows(s) \/ executeThrows(s)
  <2>1. /\ TypeInv' /\ pc = "next" /\ Touches(s) /\ saved' = run' /\ pc' = "down"
        /\ run'.status = run.status /\ run'.transactions = run.transactions
        /\ UNCHANGED <<effects, mempool, history>>
    BY <1>1, <1>2, executeThrowsMoves DEF QuietEnd, Ends, chainVars
  <2>2. run'.status[s] = "CONFIRMED" => TxState(run', s) = "MINED_SUCCESS"
    BY <2>1 DEF OnceInv, ConfirmedIsMined, TxState
  <2> QED BY <2>1, <2>2, OnceQuiet
<1>3. CASE executeObservation(s)
  <2>1. /\ TypeInv' /\ pc = "next" /\ Touches(s) /\ pc' \in {"next", "down"}
        /\ saved' = saved \/ saved' = run'
        /\ run'.status[s] \in {"VERIFIED", "FAILED"}
        /\ UNCHANGED <<effects, mempool, history>>
    BY <1>1, <1>3, executeObservationMoves DEF Marks, Proceeds, Ends, chainVars
  <2> QED BY <2>1, OnceQuiet DEF DoneStatus
<1>4. CASE executeWrite(s)
  <2>1. /\ TypeInv' /\ Ready(s) /\ assertSafeToRetry(run, s) /\ Touches(s)
        /\ run'.status[s] = "SUBMITTED" /\ saved' = saved /\ pc' = "send" /\ current' = s
        /\ UNCHANGED <<effects, mempool, history>>
    BY <1>1, <1>4, executeWriteMoves DEF Marks, chainVars
  <2>2. pc = "next" /\ unlearned' = unlearned
    BY <2>1, ReadyIsRunnable DEF history
  <2>3. ASSUME s \notin unlearned PROVE Learned(s)'
    <3>1. ~Sent(s) /\ Learned(s)
      BY <2>1, <2>3, ExecutedIsUnsent DEF OnceInv
    <3>2. Sent(s)' = Sent(s)
      BY <2>1 DEF Sent
    <3> QED BY <2>1, <3>1, <3>2 DEF Learned
  <2> QED BY <2>1, <2>2, <2>3, OnceMove
<1>5. CASE executeCreDeploy(s) \/ executeCrePause(s) \/ executeImageStep(s)
  BY <1>1, <1>5, executeCreDeployMoves, executeCrePauseMoves, executeImageStepMoves, ServesOnce
<1> QED BY <1>2, <1>3, <1>4, <1>5 DEF Execute

\* Resuming repeats nothing.
LEMMA ResumeOnce ==
  ASSUME OnceInv, invoke \/ resumeReconcile \/ resumeObserve \/ finish
  PROVE  OnceInv'
<1>1. TypeInv /\ run \in Run
  BY DEF OnceInv, TypeInv, TypeOK
<1>2. UNCHANGED <<effects, mempool, history>>
  BY DEF invoke, resumeReconcile, resumeObserve, finish, chainVars
<1>3. \A s \in Step : run.status[s] = "CONFIRMED" => TxState(run, s) = "MINED_SUCCESS"
  BY DEF OnceInv, ConfirmedIsMined
<1>4. CASE invoke
  <2>1. TypeInv' /\ run' = run /\ saved' = saved /\ pc = "down" /\ pc' = "reconcile"
    BY <1>1, <1>4, invokeMoves
  <2>2. Touches(None) /\ \A s \in Step : TxState(run', s) = TxState(run, s)
    BY <1>1, <2>1 DEF Touches, TxState
  <2> QED BY <1>2, <1>3, <2>1, <2>2, OnceQuiet
<1>5. CASE resumeReconcile
  <2>1. /\ TypeInv' /\ pc = "reconcile" /\ pc' \in {"reconcile", "observe", "down"}
        /\ saved' = saved \/ saved' = run'
    BY <1>1, <1>5, resumeReconcileMoves
  <2>2. PICK s : /\ Touches(s) /\ run'.status = run.status
                 /\ run' = run \/ TxState(run, s) = "UNKNOWN_SUBMISSION_STATE"
    BY <1>1, <1>5, resumeReconcileMoves
  <2>3. s \in Step /\ run'.status[s] = "CONFIRMED" => TxState(run', s) = "MINED_SUCCESS"
    BY <1>3, <2>2 DEF TxState
  <2> QED BY <1>2, <2>1, <2>2, <2>3, OnceQuiet
<1>6. CASE resumeObserve
  <2>1. /\ TypeInv' /\ pc = "observe" /\ pc' \in {"observe", "next", "down"}
        /\ saved' = saved \/ saved' = run'
    BY <1>1, <1>6, resumeObserveMoves
  <2>2. PICK s : /\ Touches(s) /\ run'.transactions = run.transactions
                 /\ run' = run \/ run'.status[s] \in DoneStatus
    BY <1>1, <1>6, resumeObserveMoves
  <2>3. s \in Step /\ run'.status[s] = "CONFIRMED" => TxState(run', s) = "MINED_SUCCESS"
    BY <1>3, <2>2 DEF TxState, DoneStatus
  <2> QED BY <1>2, <2>1, <2>2, <2>3, OnceQuiet
<1>7. CASE finish
  <2>1. /\ TypeInv' /\ pc = "next" /\ pc' = "down" /\ saved' = run'
        /\ run'.status = run.status /\ run'.transactions = run.transactions
    BY <1>1, <1>7, finishMoves DEF Ends
  <2>2. ConfirmedIsMined(run)' /\ ConfirmedIsMined(saved)'
    BY <1>3, <2>1 DEF ConfirmedIsMined, TxState
  <2>3. ASSUME NEW s \in Step, s \notin unlearned PROVE Learned(s)'
    <3>1. Learned(s)
      BY <2>3 DEF OnceInv
    <3>2. run.status[s] # "SUBMITTED" /\ (Sent(s) => Closed(run, s))
      BY <2>1, <3>1 DEF Learned
    <3>3. Sent(s)' = Sent(s) /\ Closed(run, s)' = Closed(run, s)
      BY <1>2, <2>1 DEF Sent, Closed
    <3> QED BY <1>2, <2>1, <3>1, <3>2, <3>3 DEF Learned
  <2> QED BY <1>2, <2>1, <2>2, <2>3 DEF OnceInv, history
<1> QED BY <1>4, <1>5, <1>6, <1>7

\* A write that is being sent was not sent before, as far as is known.
LEMMA SendingIsUnsent ==
  ASSUME OnceInv, pc = "send", current \notin unlearned
  PROVE  current \in Step /\ ~Sent(current) /\ Learned(current)
<1>1. current \in Step /\ run.status[current] = "SUBMITTED"
  BY DEF OnceInv, TypeInv, WriteSound
<1>2. Learned(current) /\ ~Closed(run, current)
  BY <1>1 DEF OnceInv, Closed, DoneStatus
<1> QED BY <1>1, <1>2 DEF Learned

\* Sending repeats nothing.
LEMMA SendOnce ==
  ASSUME OnceInv, sendAccepted \/ sendRejected \/ sendUnknown
  PROVE  OnceInv'
<1>1. TypeInv
  BY DEF OnceInv
<1>2. CASE sendAccepted
  <2>1. /\ TypeInv' /\ pc = "send" /\ current \in Step /\ Touches(current)
        /\ run'.status = run.status /\ saved' = saved /\ pc' = "receipt"
        /\ current' = current /\ Joins /\ effects' = effects
        /\ UNCHANGED history /\ unlearned' = unlearned
    BY <1>1, <1>2, sendAcceptedMoves DEF history
  <2>2. PICK c \in Step : c = current
    BY <2>1
  <2>3. run.status[c] = "SUBMITTED"
    BY <1>1, <2>1, <2>2 DEF TypeInv, WriteSound
  <2>4. PICK t \in Tx : t.step = c /\ mempool' = mempool \cup {t}
    BY <2>1, <2>2 DEF Joins
  <2>5. ASSUME c \notin unlearned PROVE Learned(c)'
    <3>1. ~Sent(c) /\ Learned(c)
      BY <2>1, <2>2, <2>5, SendingIsUnsent
    <3>2. effects[c] \in Nat /\ ~(effects[c] > 0) /\ \A u \in mempool : u.step # c
      BY <1>1, <3>1 DEF Sent, TypeInv, TypeOK
    <3>3. effects'[c] = 0
      BY <2>1, <3>2
    <3>4. \A u, v \in mempool' : u.step = c /\ v.step = c => u = v
      BY <2>4, <3>2
    <3> QED BY <2>1, <2>2, <3>1, <3>3, <3>4 DEF Learned
  <2> QED BY <2>1, <2>2, <2>3, <2>4, <2>5, OnceMove
<1>3. CASE sendRejected
  <2>1. /\ TypeInv' /\ pc = "send" /\ current \in Step /\ Touches(current)
        /\ run'.status[current] = "READY" /\ saved' = run' /\ pc' = "down"
        /\ effects' = effects /\ mempool' = mempool
        /\ UNCHANGED history /\ unlearned' = unlearned
    BY <1>1, <1>3, sendRejectedMoves DEF Settles, Ends, chainVars, history
  <2>2. PICK c \in Step : c = current
    BY <2>1
  <2>3. ASSUME c \notin unlearned PROVE Learned(c)'
    <3>1. ~Sent(c) /\ Learned(c)
      BY <2>1, <2>2, <2>3, SendingIsUnsent
    <3>2. Sent(c)' = Sent(c)
      BY <2>1 DEF Sent
    <3> QED BY <2>1, <2>2, <3>1, <3>2 DEF Learned
  <2> QED BY <2>1, <2>2, <2>3, OnceMove
<1>4. CASE sendUnknown
  <2>1. /\ TypeInv' /\ pc = "send" /\ current \in Step /\ Touches(current)
        /\ run'.status[current] = "UNKNOWN_SUBMISSION_STATE" /\ saved' = run' /\ pc' = "down"
        /\ effects' = effects
        /\ \/ mempool' = mempool /\ UNCHANGED history
           \/ Faulty("lostAnswer", {current}) /\ (Joins \/ mempool' = mempool)
    BY <1>1, <1>4, sendUnknownMoves DEF Settles, Ends
  <2>2. PICK c \in Step : c = current
    BY <2>1
  <2>3. CASE mempool' = mempool /\ UNCHANGED history
    <3>1. unlearned' = unlearned
      BY <2>3 DEF history
    <3>2. ASSUME c \notin unlearned PROVE Learned(c)'
      <4>1. ~Sent(c) /\ Learned(c)
        BY <2>1, <2>2, <3>2, SendingIsUnsent
      <4>2. Sent(c)' = Sent(c)
        BY <2>1, <2>3 DEF Sent
      <4> QED BY <2>1, <2>2, <2>3, <4>1, <4>2 DEF Learned
    <3> QED BY <2>1, <2>2, <2>3, <3>1, <3>2, OnceMove
  <2>4. CASE Faulty("lostAnswer", {current}) /\ (Joins \/ mempool' = mempool)
    <3>1. c \in unlearned' /\ unlearned \subseteq unlearned' /\ faults' # 0
      BY <1>1, <2>2, <2>4, FaultTyped
    <3>2. \A t \in mempool' : t \in mempool \/ t.step = c
      BY <2>2, <2>4 DEF Joins
    <3> QED BY <2>1, <2>2, <3>1, <3>2, OnceMove
  <2> QED BY <2>1, <2>3, <2>4
<1> QED BY <1>2, <1>3, <1>4

\* Waiting for a receipt repeats nothing.
LEMMA ReceiptOnce ==
  ASSUME OnceInv, waitForFinality \/ receiptReadFails \/ verifyWrite
  PROVE  OnceInv'
<1>1. TypeInv /\ run \in Run
  BY DEF OnceInv, TypeInv, TypeOK
<1>2. \A s \in Step : run.status[s] = "CONFIRMED" => TxState(run, s) = "MINED_SUCCESS"
  BY DEF OnceInv, ConfirmedIsMined
<1>3. CASE waitForFinality
  <2>1. /\ TypeInv' /\ pc = "receipt" /\ current \in Step /\ Touches(current)
        /\ \/ run'.status[current] = "FAILED" /\ saved' = run'
           \/ /\ run'.status[current] = "CONFIRMED" /\ saved' = saved
              /\ TxState(run', current) = "MINED_SUCCESS"
        /\ effects' = effects /\ mempool' = mempool
        /\ UNCHANGED history /\ unlearned' = unlearned
    BY <1>1, <1>3, waitForFinalityMoves DEF Settles, Ends, chainVars, history
  <2>2. PICK c \in Step : c = current
    BY <2>1
  <2>3. ASSUME c \notin unlearned PROVE Learned(c)'
    <3>1. Learned(c)
      BY <2>3 DEF OnceInv
    <3>2. Closed(run, c)'
      BY <2>1, <2>2 DEF Closed
    <3>3. run'.status[c] # "SUBMITTED" /\ saved'.status[c] # "SUBMITTED"
      BY <2>1, <2>2, <3>1 DEF Learned
    <3> QED BY <2>1, <3>1, <3>2, <3>3 DEF Learned
  <2> QED BY <2>1, <2>2, <2>3, OnceMove
<1>4. CASE receiptReadFails
  <2>1. /\ TypeInv' /\ current \in Step /\ run' = run /\ saved' = run'
        /\ Faulty("readFails", {current}) /\ effects' = effects /\ mempool' = mempool
    BY <1>1, <1>4, receiptReadFailsMoves DEF Ends, chainVars
  <2>2. PICK c \in Step : c = current
    BY <2>1
  <2>3. c \in unlearned' /\ unlearned \subseteq unlearned' /\ faults' # 0
    BY <1>1, <2>1, <2>2, FaultTyped
  <2>4. Touches(c) /\ TxState(run', c) = TxState(run, c)
    BY <1>1, <2>1 DEF Touches, TxState
  <2> QED BY <1>2, <2>1, <2>2, <2>3, <2>4, OnceMove
<1>5. CASE verifyWrite
  <2>1. /\ TypeInv' /\ pc = "verify" /\ current \in Step /\ Touches(current)
        /\ pc' \in {"next", "down"} /\ (saved' = saved \/ saved' = run')
        /\ run'.transactions = run.transactions
        /\ \/ run'.status[current] \in {"VERIFIED", "FAILED"}
           \/ run'.status = run.status
        /\ UNCHANGED <<effects, mempool, history>>
    BY <1>1, <1>5, verifyWriteMoves DEF Marks, QuietEnd, Ends, Proceeds, chainVars
  <2>2. run'.status[current] = "CONFIRMED" => TxState(run', current) = "MINED_SUCCESS"
    BY <1>2, <2>1 DEF TxState
  <2> QED BY <2>1, <2>2, OnceQuiet DEF DoneStatus
<1> QED BY <1>3, <1>4, <1>5

\* After a crash, a step with the same status in memory and on disk is as closed
\* on disk as it was in memory.
LEMMA crashOnce ==
  ASSUME OnceInv, crash
  PROVE  OnceInv'
<1>1. TypeInv
  BY DEF OnceInv
<1>2. /\ TypeInv' /\ run' = saved /\ saved' = saved /\ pc' = "down"
      /\ Faulty("crash", {s \in Step : run.status[s] # saved.status[s]})
      /\ effects' = effects /\ mempool' = mempool
  BY <1>1, crashMoves DEF chainVars
<1>3. /\ {s \in Step : run.status[s] # saved.status[s]} \subseteq unlearned'
      /\ unlearned \subseteq unlearned' /\ faults' # 0
  BY <1>1, <1>2, FaultTyped
<1>4. ConfirmedIsMined(run)' /\ ConfirmedIsMined(saved)'
  BY <1>2 DEF OnceInv, ConfirmedIsMined, TxState
<1>5. ASSUME NEW s \in Step, s \notin unlearned' PROVE Learned(s)'
  <2>1. Learned(s) /\ run.status[s] = saved.status[s]
    BY <1>3, <1>5 DEF OnceInv
  <2>2. saved.status[s] # "SUBMITTED"
    BY <2>1 DEF Learned
  <2>3. ~(pc = "receipt" /\ current = s)
    BY <1>1, <2>1, <2>2 DEF TypeInv, WriteSound
  <2>4. Sent(s) => Closed(run, s)
    BY <2>1, <2>3 DEF Learned
  <2>5. Sent(s)' = Sent(s) /\ Closed(run, s)' = Closed(run, s)
    BY <1>2, <2>1 DEF Sent, Closed
  <2> QED BY <1>2, <2>1, <2>2, <2>4, <2>5 DEF Learned
<1> QED BY <1>2, <1>3, <1>4, <1>5 DEF OnceInv

\* A block turns the one transaction of a step into its one effect.
LEMMA mineOnce ==
  ASSUME OnceInv, NEW t \in mempool, NEW ok \in BOOLEAN, mine(t, ok)
  PROVE  OnceInv'
<1>1. TypeInv
  BY DEF OnceInv
<1>2. /\ TypeInv' /\ UNCHANGED <<run, saved, pc, current, history>>
      /\ t.step \in Step /\ mempool' \subseteq mempool \ {t}
      /\ effects'[t.step] \in {effects[t.step], effects[t.step] + 1}
      /\ \A s \in Step \ {t.step} : effects'[s] = effects[s]
  BY <1>1, mineMoves
<1>3. unlearned' = unlearned /\ faults' = faults
  BY <1>2 DEF history
<1>4. ASSUME NEW s \in Step, s \notin unlearned PROVE Learned(s)'
  <2>1. Learned(s) /\ effects[s] \in Nat
    BY <1>1, <1>4 DEF OnceInv, TypeInv, TypeOK
  <2>2. CASE s = t.step
    <3>1. effects[s] = 0 /\ \A u \in mempool' : u.step # s
      BY <1>2, <2>1, <2>2 DEF Learned
    <3>2. effects'[s] <= 1
      BY <1>2, <2>2, <3>1
    <3>3. Closed(run, s) \/ (pc = "receipt" /\ current = s)
      BY <2>1, <2>2 DEF Learned, Sent
    <3>4. Closed(run, s)' = Closed(run, s)
      BY <1>2 DEF Closed
    <3> QED BY <1>2, <2>1, <3>1, <3>2, <3>3, <3>4 DEF Learned
  <2>3. CASE s # t.step
    <3>1. effects'[s] = effects[s]
      BY <1>2, <2>3
    <3>2. effects'[s] > 0 \/ (\E u \in mempool' : u.step = s) => Sent(s)
      BY <1>2, <3>1 DEF Sent
    <3>3. Sent(s)' => Sent(s)
      BY <3>2 DEF Sent
    <3>4. Closed(run, s)' = Closed(run, s)
      BY <1>2 DEF Closed
    <3>5. \A u, v \in mempool' : u.step = s /\ v.step = s => u = v
      BY <1>2, <2>1 DEF Learned
    <3>6. \A u \in mempool' : u.step = s => effects'[s] = 0
      BY <1>2, <2>1, <3>1 DEF Learned
    <3> QED BY <1>2, <2>1, <3>1, <3>3, <3>4, <3>5, <3>6 DEF Learned
  <2> QED BY <2>2, <2>3
<1>5. ConfirmedIsMined(run)' /\ ConfirmedIsMined(saved)'
  BY <1>2 DEF OnceInv, ConfirmedIsMined, TxState
<1> QED BY <1>2, <1>3, <1>4, <1>5 DEF OnceInv

\* A new deployment has sent nothing.
LEMMA InitOnce == Init => OnceInv
<1> SUFFICES ASSUME Init PROVE OnceInv
  OBVIOUS
<1>1. TypeInv
  BY InitTyped
<1>2. \A s \in Step : run.status[s] = "PENDING" /\ effects[s] = 0
  BY DEF Init, newRun
<1>3. run = saved /\ mempool = {} /\ unlearned = {}
  BY DEF Init
<1>4. ConfirmedIsMined(run)
  BY <1>2 DEF ConfirmedIsMined
<1>5. \A s \in Step : Learned(s)
  BY <1>2, <1>3 DEF Learned, Sent
<1> QED BY <1>1, <1>3, <1>4, <1>5 DEF OnceInv

\* No step repeats what was learned to be done.
LEMMA StepOnce == OnceInv /\ [Next]_vars => OnceInv'
<1> SUFFICES ASSUME OnceInv, [Next]_vars PROVE OnceInv'
  OBVIOUS
<1>1. CASE UNCHANGED vars
  <2>1. TypeInv'
    BY <1>1, StepTyped DEF OnceInv
  <2>2. UNCHANGED <<run, saved, pc, current, mempool, effects, faults, unlearned>>
    BY <1>1 DEF vars, local, chainVars, history
  <2> QED BY <2>1, <2>2 DEF OnceInv, ConfirmedIsMined, TxState, Learned, Sent, Closed
<1>2. CASE Next
  BY <1>2, ResumeOnce, ExecuteOnce, SendOnce, ReceiptOnce, crashOnce, mineOnce DEF Next
<1> QED BY <1>1, <1>2

\* So what is known of each step is sound throughout.
LEMMA OnceIsSound == Spec => []OnceInv
BY InitOnce, StepOnce, PTL DEF Spec

\* Of every plan: a step whose outcome no fault hid takes effect at most once;
\* resume, observe, the deadline and the retry rules (orchestrator.ts,
\* receipts.ts) never repeat what was done.
THEOREM NothingIsRepeated == Spec => []RepeatNeedsAFault
<1>1. OnceInv => RepeatNeedsAFault
  BY DEF OnceInv, Learned, RepeatNeedsAFault
<1> QED BY OnceIsSound, <1>1, PTL

\* The promise of receipts.ts, where it does hold: until a fault has
\* happened, no write is performed twice.
THEOREM NoDuplicateWithoutFault == Spec => [](faults = 0 => NoDuplicateWrite)
<1>1. OnceInv => (faults = 0 => NoDuplicateWrite)
  BY DEF OnceInv, Learned, NoDuplicateWrite
<1> QED BY OnceIsSound, <1>1, PTL
-----------------------------------------------------------------------------
\* Memory has all the progress the disk has, and a deployment that is ready is
\* not being run.
ProgressInv ==
  /\ TypeInv
  /\ Done(saved) \subseteq Done(run)
  /\ saved.state = "READY_TO_ACTIVATE" => pc = "down"
  /\ run.state = "READY_TO_ACTIVATE" => pc = "down"

\* What the script saves is at least what it had saved, and what is ready stays
\* as it is.
Saves ==
  /\ Done(saved) \subseteq Done(saved)'
  /\ saved.state = "READY_TO_ACTIVATE" => UNCHANGED <<run, saved, pc, sends>>

\* A step of a running invocation that undoes nothing makes progress.
LEMMA ProgressMove ==
  ASSUME ProgressInv, TypeInv', NEW s, Touches(s), pc # "down",
         (saved' = saved /\ pc' # "down") \/ (saved' = run' /\ pc' = "down"),
         s \in Step /\ run.status[s] \in DoneStatus => run'.status[s] \in DoneStatus
  PROVE  ProgressInv' /\ Saves
<1>1. saved.state # "READY_TO_ACTIVATE" /\ run.state # "READY_TO_ACTIVATE"
  BY DEF ProgressInv
<1>2. run'.state # "READY_TO_ACTIVATE"
  BY <1>1 DEF Touches
<1>3. \A t \in Step : run.status[t] \in DoneStatus => run'.status[t] \in DoneStatus
  BY DEF Touches
<1>4. \A t \in Step : saved.status[t] \in DoneStatus => run.status[t] \in DoneStatus
  BY DEF ProgressInv, Done
<1>5. \A t \in Step : /\ saved'.status[t] \in DoneStatus => run'.status[t] \in DoneStatus
                      /\ saved.status[t] \in DoneStatus => saved'.status[t] \in DoneStatus
  BY <1>3, <1>4
<1>6. Done(saved)' \subseteq Done(run)' /\ Done(saved) \subseteq Done(saved)'
  BY <1>5 DEF Done
<1> QED BY <1>1, <1>2, <1>6 DEF ProgressInv, Saves

\* Whatever executeStep does, it does to a step that is not done.
LEMMA ExecuteProgresses ==
  ASSUME ProgressInv, NEW s \in Step, Execute(s)
  PROVE  ProgressInv' /\ Saves
<1>1. TypeInv
  BY DEF ProgressInv
<1>2. Ready(s)
  BY DEF Execute, executeStepThrows, executeThrows, executeObservation, executeWrite,
         executeCreDeploy, executeCrePause, executeImageStep, Executes
<1>3. pc = "next" /\ run.status[s] \notin DoneStatus
  BY <1>2, ReadyIsRunnable DEF Done
<1>4. CASE executeStepThrows(s) \/ executeThrows(s)
  BY <1>1, <1>3, <1>4, executeThrowsMoves, ProgressMove DEF QuietEnd, Ends
<1>5. CASE executeObservation(s)
  <2>1. TypeInv' /\ ((Proceeds /\ Marks(s, "VERIFIED")) \/ (Ends /\ Marks(s, "FAILED")))
    BY <1>1, <1>5, executeObservationMoves
  <2> QED BY <1>3, <2>1, ProgressMove DEF Proceeds, Ends, Marks
<1>6. CASE executeWrite(s)
  <2>1. TypeInv' /\ Touches(s) /\ saved' = saved /\ pc' = "send"
    BY <1>1, <1>6, executeWriteMoves DEF Marks
  <2> QED BY <1>3, <2>1, ProgressMove
<1>7. CASE executeCreDeploy(s) \/ executeCrePause(s) \/ executeImageStep(s)
  <2>1. TypeInv' /\ Serves(s)
    BY <1>1, <1>7, executeCreDeployMoves, executeCrePauseMoves, executeImageStepMoves
  <2>2. /\ Touches(s)
        /\ (saved' = saved /\ pc' # "down") \/ (saved' = run' /\ pc' = "down")
    BY <2>1 DEF Serves, QuietEnd, Marks, Ends, Proceeds
  <2> QED BY <1>3, <2>1, <2>2, ProgressMove
<1> QED BY <1>4, <1>5, <1>6, <1>7 DEF Execute

\* Resuming undoes nothing, and only finish makes a deployment ready.
LEMMA ResumeProgresses ==
  ASSUME ProgressInv, invoke \/ resumeReconcile \/ resumeObserve \/ finish
  PROVE  ProgressInv' /\ Saves
<1>1. TypeInv
  BY DEF ProgressInv
<1>2. CASE invoke
  <2>1. TypeInv' /\ run' = run /\ saved' = saved
    BY <1>1, <1>2, invokeMoves
  <2>2. saved.state # "READY_TO_ACTIVATE" /\ run = saved
    BY <1>1, <1>2, PhasesOfThePath
    DEF invoke, RESUMABLE_STATES, PAUSES, TypeInv, DiskSound
  <2> QED BY <2>1, <2>2 DEF ProgressInv, Saves, Done
<1>3. CASE resumeReconcile
  <2>1. /\ TypeInv' /\ pc = "reconcile" /\ \E s : Touches(s) /\ run'.status = run.status
    BY <1>1, <1>3, resumeReconcileMoves
  <2>2. (saved' = saved /\ pc' # "down") \/ (saved' = run' /\ pc' = "down")
    BY <1>3 DEF resumeReconcile, Visit, Stop
  <2> QED BY <2>1, <2>2, ProgressMove
<1>4. CASE resumeObserve
  <2>1. TypeInv' /\ pc = "observe"
    BY <1>1, <1>4, resumeObserveMoves
  <2>2. PICK s : Touches(s) /\ (run' = run \/ run'.status[s] \in DoneStatus)
    BY <1>1, <1>4, resumeObserveMoves
  <2>3. (saved' = saved /\ pc' # "down") \/ (saved' = run' /\ pc' = "down")
    BY <1>4 DEF resumeObserve, Visit, Stop, Proceed
  <2> QED BY <2>1, <2>2, <2>3, ProgressMove
<1>5. CASE finish
  <2>1. /\ TypeInv' /\ pc = "next" /\ saved' = run' /\ pc' = "down"
        /\ run'.status = run.status
    BY <1>1, <1>5, finishMoves DEF Ends
  <2> QED BY <2>1 DEF ProgressInv, Saves, Done
<1> QED BY <1>2, <1>3, <1>4, <1>5

\* A write in progress is of a step that is not done.
LEMMA WriteProgresses ==
  ASSUME ProgressInv,
         sendAccepted \/ sendRejected \/ sendUnknown \/ waitForFinality \/ receiptReadFails
           \/ verifyWrite
  PROVE  ProgressInv' /\ Saves
<1>1. TypeInv /\ run \in Run
  BY DEF ProgressInv, TypeInv, TypeOK
<1>2. /\ pc \in {"send", "receipt", "verify"} /\ current \in Step
      /\ run.status[current] \notin DoneStatus
  BY <1>1 DEF sendAccepted, sendRejected, sendUnknown, waitForFinality, receiptReadFails,
              verifyWrite, TypeInv, WriteSound, DoneStatus
<1>3. CASE sendAccepted
  BY <1>1, <1>2, <1>3, sendAcceptedMoves, ProgressMove
<1>4. CASE sendRejected
  BY <1>1, <1>2, <1>4, sendRejectedMoves, ProgressMove DEF Settles, Ends
<1>5. CASE sendUnknown
  BY <1>1, <1>2, <1>5, sendUnknownMoves, ProgressMove DEF Settles, Ends
<1>6. CASE waitForFinality
  BY <1>1, <1>2, <1>6, waitForFinalityMoves, ProgressMove DEF Settles, Ends
<1>7. CASE receiptReadFails
  <2>1. TypeInv' /\ run' = run /\ saved' = run' /\ pc' = "down"
    BY <1>1, <1>7, receiptReadFailsMoves DEF Ends
  <2>2. Touches(current)
    BY <1>1, <2>1 DEF Touches
  <2> QED BY <1>2, <2>1, <2>2, ProgressMove
<1>8. CASE verifyWrite
  <2>1. /\ TypeInv' /\ Touches(current)
        /\ (saved' = saved /\ pc' # "down") \/ (saved' = run' /\ pc' = "down")
    BY <1>1, <1>8, verifyWriteMoves DEF Marks, QuietEnd, Proceeds, Ends
  <2> QED BY <1>2, <2>1, ProgressMove
<1> QED BY <1>3, <1>4, <1>5, <1>6, <1>7, <1>8

\* Every step saves at least what was saved.
LEMMA StepProgresses == ProgressInv /\ [Next]_vars => ProgressInv' /\ [Saves]_vars
<1> SUFFICES ASSUME ProgressInv, [Next]_vars PROVE ProgressInv' /\ [Saves]_vars
  OBVIOUS
<1>1. TypeInv /\ TypeInv'
  BY StepTyped DEF ProgressInv
<1>2. CASE UNCHANGED vars
  BY <1>1, <1>2 DEF ProgressInv, Done, vars
<1>3. CASE crash
  <2>1. run' = saved /\ saved' = saved /\ pc' = "down" /\ pc # "down"
    BY <1>1, <1>3, crashMoves DEF crash
  <2> QED BY <1>1, <2>1 DEF ProgressInv, Saves, Done
<1>4. ASSUME NEW t \in mempool, NEW ok \in BOOLEAN, mine(t, ok)
      PROVE  ProgressInv' /\ [Saves]_vars
  <2>1. UNCHANGED <<run, saved, pc, sends>>
    BY <1>4 DEF mine
  <2> QED BY <1>1, <2>1 DEF ProgressInv, Saves, Done
<1>5. CASE Next
  BY <1>3, <1>4, <1>5, ResumeProgresses, ExecuteProgresses, WriteProgresses DEF Next
<1> QED BY <1>2, <1>5

\* Progress is never lost: a step the saved run has done stays done through
\* every restart and crash, and once READY_TO_ACTIVATE is saved nothing touches
\* the run or sends a transaction again (RESUMABLE_STATES in machine.ts).
THEOREM ProgressIsKept == Spec => [][Saves]_vars
<1>1. Init => ProgressInv
  BY InitTyped DEF Init, newRun, ProgressInv
<1>2. ProgressInv /\ [Next]_vars => ProgressInv' /\ [Saves]_vars
  BY StepProgresses
<1> QED BY <1>1, <1>2, PTL DEF Spec
=============================================================================
