---------------------------- MODULE MCControlPlane ----------------------------
(* Requests against a runtime with one proposal of one step, which a human  *)
(* may approve.  Failures of the fork and changes of the world are bounded  *)
(* by two budgets; ticks over HTTP and declines are left to MCForkRuntime.  *)
(* Only the handlers are assumed to go on: what a lock promises does not    *)
(* depend on the runtime.                                                   *)
EXTENDS ControlPlane

CONSTANTS MaxMoves,   \* bound: changes by the world
          MaxFaults   \* bound: awaits that fail
VARIABLES moves, failures

MCvars == <<allVars, moves, failures>>

MCInit == ControlInit /\ moves = 0 /\ failures = 0

approves == \E c \in Caller, p \in pending : approve(c, p)
runtime == (process \/ approves) /\ UNCHANGED controlVars
handler == \E r \in Request : issue(r) \/ handlerStep(r) \/ refuse(r)
broken  == \/ faults /\ UNCHANGED controlVars
           \/ \E r \in Request : executeThrows(r) \/ lockStepThrows(r)

MCNext ==
  \/ (runtime \/ handler) /\ UNCHANGED <<moves, failures>>
  \/ /\ failures < MaxFaults /\ failures' = failures + 1
     /\ broken /\ UNCHANGED moves
  \/ /\ moves < MaxMoves /\ moves' = moves + 1
     /\ world /\ UNCHANGED <<controlVars, failures>>

MCSpec == MCInit /\ [][MCNext]_MCvars /\ ControlFairness
=============================================================================
