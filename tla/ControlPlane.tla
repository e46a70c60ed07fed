----------------------------- MODULE ControlPlane -----------------------------
(***************************************************************************)
(* The control plane over a fork deployment: the command endpoint          *)
(* (apps/studio/src/control/api.ts), the control_commands table            *)
(* (control/store.ts), command validation and the emergency lock           *)
(* (packages/studio-control-plane) and ForkLabService.execute, composed    *)
(* with the agent runtime they act on.  Requests interleave with each      *)
(* other and with the runtime at their awaits.  The revision of a fork     *)
(* deployment is always rev_1, so the key derived from an intent is the    *)
(* operation itself; a client may send a key of its own.                   *)
(***************************************************************************)
EXTENDS ForkRuntime, Sequences

CONSTANTS
  Request,     \* command requests over the life of the deployment
  Operation,   \* operations the operators issue
  ClientKey    \* idempotency keys clients choose

Key == Operation \cup ClientKey

ASSUME ControlAssumption ==
  /\ Operation \subseteq {"PAUSE_RUNTIME", "RESUME_RUNTIME", "DISABLE_POLICY",
                          "ENABLE_POLICY", "REVOKE_IDENTITY", "EMERGENCY_LOCK",
                          "PAUSE_CRE"}
  /\ Operation \cap ClientKey = {}

VARIABLES
  commands,       \* table control_commands: the outcome per idempotency key
  request,        \* where each request is, and the locals of its handler
  emergencyLocked,\* live.emergencyLocked
  performed,      \* history: how often the operation of a key was started
  lockComplete,   \* history: an emergency lock ended COMPLETE
  enabledSince,   \* history: a policy was enabled since a lock read it disabled
  restored        \* history: capability was restored while locked

history     == <<performed, lockComplete, enabledSince, restored>>
controlVars == <<commands, request, emergencyLocked, history>>
allVars     == <<vars, controlVars>>

Outcome == {"none", "PENDING", "APPLIED", "FAILED"}
LockStep == <<"DISABLE_POLICY", "DENY_NEW_CAPABILITIES", "PAUSE_CRE",
              "STOP_RUNTIME", "REVOKE_IDENTITY">>
RequestState ==
  [at : {"new", "refreshing", "executing", "reading", "completing", "done"},
   op : Operation \cup {"none"}, key : Key \cup {"none"},
   ok : BOOLEAN,                          \* out.ok, when it is known
   step : 1..Len(LockStep) + 1,           \* the lock's loop over LockStep
   failed : SUBSET (1..Len(LockStep)),    \* the lock's FAILED steps
   withIdentity : BOOLEAN]                \* includeIdentityRevocation

newRequest == [at |-> "new", op |-> "none", key |-> "none",
               ok |-> FALSE, step |-> 1, failed |-> {}, withIdentity |-> FALSE]

ControlInit ==
  /\ Init
  /\ commands = [k \in Key |-> "none"]
  /\ request = [r \in Request |-> newRequest]
  /\ emergencyLocked = FALSE
  /\ performed = [k \in Key |-> 0]
  /\ lockComplete = FALSE /\ enabledSince = FALSE
  /\ restored = FALSE

set(r, new) == request' = [request EXCEPT ![r] = new]

-----------------------------------------------------------------------------
(* The endpoint.                                                           *)

\* newCommand and the call of refresh.
issue(r) ==
  /\ request[r].at = "new"
  /\ \E op \in Operation, withIdentity \in BOOLEAN :
     \E key \in {op} \cup ClientKey :
       /\ withIdentity => op = "EMERGENCY_LOCK"
       /\ set(r, [newRequest EXCEPT !.at = "refreshing", !.op = op, !.key = key,
                                    !.withIdentity = withIdentity])
  /\ UNCHANGED <<vars, commands, emergencyLocked, history>>

finish(r) == set(r, [newRequest EXCEPT !.at = "done"])

\* assertCommandValid refuses, or refresh itself fails: the actor's
\* capabilities, the revision and the confirmation are the client's doing, so
\* any request may be refused.
refuse(r) ==
  /\ request[r].at = "refreshing"
  /\ finish(r)
  /\ UNCHANGED <<vars, commands, emergencyLocked, history>>

\* beginCommand finds the key: the row is returned, whatever it says.
replay(r) ==
  LET k == request[r].key IN
  /\ request[r].at = "refreshing"
  /\ commands[k] # "none"
  /\ finish(r)
  /\ UNCHANGED <<vars, commands, emergencyLocked, history>>

\* beginCommand inserts the row and execute starts, in one stretch of code.
\* The endpoint hands assertCommandValid no emergencyLockActive.
\* Mutant: the log is consulted before refresh instead of after it.
beginUnchecked(r) ==
  LET k == request[r].key IN
  /\ request[r].at = "refreshing"
  /\ commands' = [commands EXCEPT ![k] = "PENDING"]
  /\ performed' = [performed EXCEPT ![k] = @ + 1]
  /\ UNCHANGED restored
  /\ set(r, [request[r] EXCEPT !.at = "executing"])
  /\ UNCHANGED <<vars, emergencyLocked, lockComplete, enabledSince>>
begin(r) ==
  LET k == request[r].key IN
  /\ request[r].at = "refreshing"
  /\ commands[k] = "none"
  /\ commands' = [commands EXCEPT ![k] = "PENDING"]
  /\ performed' = [performed EXCEPT ![k] = @ + 1]
  /\ restored' = (restored \/ (emergencyLocked
                     /\ request[r].op \in {"ENABLE_POLICY", "RESUME_RUNTIME"}))
  /\ set(r, [request[r] EXCEPT !.at = "executing"])
  /\ UNCHANGED <<vars, emergencyLocked, lockComplete, enabledSince>>

\* completeCommand, and the answer.
complete(r) ==
  /\ request[r].at = "completing"
  /\ commands' = [commands EXCEPT ![request[r].key] =
                    IF request[r].ok THEN "APPLIED" ELSE "FAILED"]
  /\ finish(r)
  /\ UNCHANGED <<vars, emergencyLocked, history>>

-----------------------------------------------------------------------------
(* ForkLabService.execute: the operations of one call each.                *)

at(r, where, op) == request[r].at = where /\ request[r].op = op
toComplete(r, ok) == set(r, [request[r] EXCEPT !.at = "completing", !.ok = ok])

pauseRuntime(r) ==
  /\ at(r, "executing", "PAUSE_RUNTIME") /\ pause /\ toComplete(r, TRUE)
  /\ UNCHANGED <<commands, emergencyLocked, history>>

resumeRuntime(r) ==
  /\ at(r, "executing", "RESUME_RUNTIME") /\ resume /\ toComplete(r, TRUE)
  /\ UNCHANGED <<commands, emergencyLocked, history>>

\* The operations that are not applicable to a fork.
notApplicable(r) ==
  /\ at(r, "executing", "PAUSE_CRE") /\ toComplete(r, FALSE)
  /\ UNCHANGED <<vars, commands, emergencyLocked, history>>

\* setPolicyEnabled: the transaction, then a fresh read.
sendPolicy(r, op, b) ==
  /\ at(r, "executing", op) /\ setPolicy(b)
  /\ enabledSince' = (enabledSince \/ b)
  /\ set(r, [request[r] EXCEPT !.at = "reading"])
  /\ UNCHANGED <<commands, emergencyLocked, performed, lockComplete, restored>>

readPolicy(r, op, b) ==
  /\ at(r, "reading", op) /\ toComplete(r, enabled = b)
  /\ UNCHANGED <<vars, commands, emergencyLocked, history>>

\* revokeIdentity: the transaction, then a fresh read.
sendRevoke(r) ==
  /\ at(r, "executing", "REVOKE_IDENTITY") /\ revoke
  /\ set(r, [request[r] EXCEPT !.at = "reading"])
  /\ UNCHANGED <<commands, emergencyLocked, history>>

readRevoke(r) ==
  /\ at(r, "reading", "REVOKE_IDENTITY") /\ toComplete(r, ~bound)
  /\ UNCHANGED <<vars, commands, emergencyLocked, history>>

\* An await of execute fails: the endpoint answers 500 and the row stays as
\* it is.  The transaction may have been mined.
executeThrows(r) ==
  /\ request[r].at \in {"executing", "reading"}
  /\ request[r].op \in {"ENABLE_POLICY", "DISABLE_POLICY", "REVOKE_IDENTITY"}
  /\ finish(r)
  /\ \/ UNCHANGED <<vars, enabledSince>>
     \/ /\ at(r, "executing", "ENABLE_POLICY") /\ setPolicy(TRUE) /\ enabledSince' = TRUE
     \/ /\ at(r, "executing", "DISABLE_POLICY") /\ setPolicy(FALSE)
        /\ UNCHANGED enabledSince
     \/ /\ at(r, "executing", "REVOKE_IDENTITY") /\ revoke /\ UNCHANGED enabledSince
  /\ UNCHANGED <<commands, emergencyLocked, performed, lockComplete, restored>>

-----------------------------------------------------------------------------
(* The emergency lock: runEmergencyLock's loop over the frozen steps.      *)

lockAt(r, where, step) ==
  /\ at(r, where, "EMERGENCY_LOCK") /\ request[r].step <= Len(LockStep)
  /\ LockStep[request[r].step] = step

\* A step's outcome is recorded and the loop goes on, whatever it was.
\* Mutant: the loop ends at the first failure.
advanceUnlessFailed(r, ok) ==
  set(r, [request[r] EXCEPT !.at = "executing",
            !.step = IF ok THEN @ + 1 ELSE Len(LockStep) + 1,
            !.failed = IF ok THEN @ ELSE @ \cup {request[r].step}])
advance(r, ok) ==
  set(r, [request[r] EXCEPT !.at = "executing", !.step = @ + 1,
                            !.failed = IF ok THEN @ ELSE @ \cup {request[r].step}])

lockSendDisable(r) ==
  /\ lockAt(r, "executing", "DISABLE_POLICY") /\ setPolicy(FALSE)
  /\ set(r, [request[r] EXCEPT !.at = "reading"])
  /\ UNCHANGED <<commands, emergencyLocked, history>>

\* Mutant: the receipt counts as the verification.
lockReadReceipt(r) ==
  /\ lockAt(r, "reading", "DISABLE_POLICY")
  /\ advance(r, TRUE)
  /\ enabledSince' = FALSE
  /\ UNCHANGED <<vars, commands, emergencyLocked, performed, lockComplete, restored>>
lockReadDisabled(r) ==
  /\ lockAt(r, "reading", "DISABLE_POLICY")
  /\ advance(r, ~enabled)
  /\ enabledSince' = (enabledSince /\ enabled)
  /\ UNCHANGED <<vars, commands, emergencyLocked, performed, lockComplete, restored>>

\* Steps without an await: capabilities are denied by the disabled policy, a
\* fork has no CRE workflow, and the runtime is stopped.
lockDeny(r) ==
  /\ lockAt(r, "executing", "DENY_NEW_CAPABILITIES") /\ advance(r, TRUE)
  /\ UNCHANGED <<vars, commands, emergencyLocked, history>>

lockSkipCre(r) ==
  /\ lockAt(r, "executing", "PAUSE_CRE") /\ advance(r, TRUE)
  /\ UNCHANGED <<vars, commands, emergencyLocked, history>>

lockStopRuntime(r) ==
  /\ lockAt(r, "executing", "STOP_RUNTIME") /\ stop /\ advance(r, TRUE)
  /\ UNCHANGED <<commands, emergencyLocked, history>>

lockRevoke(r) ==
  /\ lockAt(r, "executing", "REVOKE_IDENTITY")
  /\ IF request[r].withIdentity
       THEN revoke /\ set(r, [request[r] EXCEPT !.at = "reading"])
       ELSE UNCHANGED vars /\ advance(r, TRUE)
  /\ UNCHANGED <<commands, emergencyLocked, history>>

lockReadRevoked(r) ==
  /\ lockAt(r, "reading", "REVOKE_IDENTITY") /\ advance(r, ~bound)
  /\ UNCHANGED <<vars, commands, emergencyLocked, history>>

\* A step throws: it is FAILED, and its transaction may have been mined.
\* Mutant: the exception leaves the loop and the handler.
lockStepEscapes(r) ==
  /\ \/ request[r].at = "reading" /\ request[r].op = "EMERGENCY_LOCK"
     \/ lockAt(r, "executing", "DISABLE_POLICY")
     \/ lockAt(r, "executing", "REVOKE_IDENTITY") /\ request[r].withIdentity
  /\ finish(r)
  /\ UNCHANGED <<vars, commands, emergencyLocked, history>>
lockStepThrows(r) ==
  /\ \/ request[r].at = "reading" /\ request[r].op = "EMERGENCY_LOCK" /\ UNCHANGED vars
     \/ lockAt(r, "executing", "DISABLE_POLICY") /\ (UNCHANGED vars \/ setPolicy(FALSE))
     \/ /\ lockAt(r, "executing", "REVOKE_IDENTITY") /\ request[r].withIdentity
        /\ UNCHANGED vars \/ revoke
  /\ advance(r, FALSE)
  /\ UNCHANGED <<commands, emergencyLocked, history>>

\* After the loop: FAILED or PARTIAL when a step failed, else COMPLETE.
lockDone(r) ==
  /\ at(r, "executing", "EMERGENCY_LOCK") /\ request[r].step > Len(LockStep)
  /\ emergencyLocked' = TRUE
  /\ lockComplete' = (lockComplete \/ request[r].failed = {})
  /\ toComplete(r, request[r].failed = {})
  /\ UNCHANGED <<vars, commands, performed, enabledSince, restored>>

-----------------------------------------------------------------------------
lockStep(r) ==
  \/ lockSendDisable(r) \/ lockReadDisabled(r) \/ lockDeny(r) \/ lockSkipCre(r)
  \/ lockStopRuntime(r) \/ lockRevoke(r) \/ lockReadRevoked(r) \/ lockDone(r)

handlerStep(r) ==
  \/ replay(r) \/ begin(r) \/ complete(r)
  \/ pauseRuntime(r) \/ resumeRuntime(r) \/ notApplicable(r)
  \/ sendPolicy(r, "ENABLE_POLICY", TRUE) \/ readPolicy(r, "ENABLE_POLICY", TRUE)
  \/ sendPolicy(r, "DISABLE_POLICY", FALSE) \/ readPolicy(r, "DISABLE_POLICY", FALSE)
  \/ sendRevoke(r) \/ readRevoke(r)
  \/ lockStep(r)

handlerFault(r) == refuse(r) \/ executeThrows(r) \/ lockStepThrows(r)

control == \E r \in Request : issue(r) \/ handlerStep(r) \/ handlerFault(r)

ControlNext ==
  \/ control
  \/ (process \/ faults \/ users \/ world) /\ UNCHANGED controlVars

\* A handler goes on: each of its awaits answers or throws.
ControlFairness ==
  \A r \in Request : WF_allVars(handlerStep(r) \/ handlerFault(r))

ControlSpec == ControlInit /\ [][ControlNext]_allVars /\ Fairness /\ ControlFairness

-----------------------------------------------------------------------------
(* Properties.                                                             *)

ControlTypeOK ==
  /\ TypeOK
  /\ commands \in [Key -> Outcome]
  /\ request \in [Request -> RequestState]
  /\ emergencyLocked \in BOOLEAN
  /\ performed \in [Key -> Nat]
  /\ {lockComplete, enabledSince, restored} \subseteq BOOLEAN

\* One intent is one operation: however often a command is delivered, and
\* although every delivery suspends in refresh between arriving and being
\* logged, its operation starts at most once (api.ts, store.ts beginCommand).
OncePerIntent == \A k \in Key : performed[k] <= 1

\* After a lock that reported COMPLETE no step of any proposal runs on the
\* fork, until somebody enables the policy again: not from the tick that was
\* in flight, nor from an approval that was under way (runEmergencyLock).
NothingMovesAfterLock ==
  [][lockComplete /\ ~enabledSince =>
       \A p \in DOMAIN decisions : decisions'[p].used = decisions[p].used]_allVars

\* A lock that has begun ends with an outcome in the log, also when its steps
\* throw; the other commands stay PENDING when theirs do.
LockIsSettled ==
  \A r \in Request :
    at(r, "executing", "EMERGENCY_LOCK") ~> request[r].at = "completing"

\* A lock that has begun stops the runtime, even where disabling the policy
\* failed: the weaker control is still applied.
LockStopsTheRuntime ==
  (\E r \in Request : at(r, "executing", "EMERGENCY_LOCK")) ~> state.stopping

\* What assertCommandValid's comment says: while an emergency lock is in
\* force, nothing that would restore capability is begun.
LockRefusesRestoring == ~restored
=============================================================================
