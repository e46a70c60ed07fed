--------------------------- MODULE MCStudioPipeline ---------------------------
(* Two requests in progress at once on the builds of one user.  Restarts are *)
(* bounded by a budget of their own.                                         *)
EXTENDS StudioPipeline

CONSTANT MaxRestarts   \* bound: restarts of the process
VARIABLE restarts

MCInit == Init /\ restarts = 0

MCNext ==
  \/ (users \/ \E r \in Request : handlerStep(r)) /\ UNCHANGED restarts
  \/ restarts < MaxRestarts /\ restart /\ restarts' = restarts + 1

MCSpec == MCInit /\ [][MCNext]_<<vars, restarts>> /\ Fairness
=============================================================================
