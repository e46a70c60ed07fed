---------------------------- MODULE MCForkRuntime ----------------------------
(* One position, proposals of two steps, two of them over the runtime's     *)
(* life, and two approve requests at once.  What the operator and the world *)
(* change and what goes wrong is bounded by two budgets.                    *)
EXTENDS ForkRuntime

CONSTANTS MaxMoves,   \* bound: changes by the operator and the world
          MaxFaults   \* bound: awaits that fail
VARIABLES moves, failures

MCvars == <<vars, moves, failures>>

MCInit == Init /\ moves = 0 /\ failures = 0

MCNext ==
  \/ (process \/ users) /\ UNCHANGED <<moves, failures>>
  \/ /\ failures < MaxFaults /\ failures' = failures + 1
     /\ faults /\ UNCHANGED moves
  \/ /\ moves < MaxMoves /\ moves' = moves + 1
     /\ (controls \/ world) /\ UNCHANGED failures

MCSpec == MCInit /\ [][MCNext]_MCvars /\ Fairness
=============================================================================
