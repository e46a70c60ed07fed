---------------------------- MODULE MCForkService ----------------------------
(* Two deployments of one project over a quota of one fork.                 *)
EXTENDS ForkService

CONSTANT p1

MCprojectOf == [d \in Deployment |-> p1]
=============================================================================
