-------------------------- MODULE ForkServiceProofs --------------------------
(***************************************************************************)
(* What ForkService promises, for any number of deployments and projects,  *)
(* any quota, any number of setup phases and any number of restarts.       *)
(***************************************************************************)
EXTENDS ForkService, TLAPS

\* The invariant speaks of each deployment alone, but for OneActivePerProject.
Local(d) == WorkerMatches(d) /\ RowMatches(d) /\ StopMatches(d)

\* The three properties of a single deployment follow from its local part.
Owned(d) ==
  /\ anvil[d] /\ fork[d] # "none" =>
       worker[d] \in Working \/ (row[d] = "READY_TO_ACTIVATE" /\ named[d])
  /\ row[d] = "READY_TO_ACTIVATE" =>
       fork[d] = "READY" \/ stopping[d] > 0 \/ d \in stoppedEarly
  /\ runtime[d] = "running" =>
       worker[d] \in Working \/ row[d] = "READY_TO_ACTIVATE" \/ d \in stoppedEarly

\* deploy keeps every variable's type and every deployment's local invariant.
LEMMA deploy_Keeps ==
  ASSUME NEW d \in Deployment, TypeOK, ForkServiceInv, deploy(d)
  PROVE  TypeOK' /\ \A e \in Deployment : Local(e)' /\ Owned(e)'
<1> USE ForkServiceAssumption
<1> USE DEF TypeOK, ForkServiceInv, deploy, persist, goTo, Active, Awaiting, Working, Early, Late
<1>1. TypeOK'
  OBVIOUS
<1>2. SUFFICES ASSUME NEW e \in Deployment PROVE Local(e)' /\ Owned(e)'
  BY <1>1
<1>3. Local(e) /\ Owned(e) /\ Local(d) /\ Owned(d)
  BY DEF Local, Owned, EveryForkHasAnOwner, ReadyHasItsFork, NoRuntimeOutlives
<1>4. WorkerMatches(e)'
  BY <1>3 DEF Local, Owned, WorkerMatches, RowMatches, StopMatches
<1>5. RowMatches(e)'
  BY <1>3 DEF Local, Owned, WorkerMatches, RowMatches, StopMatches
<1>6. StopMatches(e)'
  BY <1>3 DEF Local, Owned, WorkerMatches, RowMatches, StopMatches
<1>7. Owned(e)'
  BY <1>3 DEF Local, Owned, WorkerMatches, RowMatches, StopMatches
<1> QED BY <1>4, <1>5, <1>6, <1>7 DEF Local

\* create keeps every variable's type and every deployment's local invariant.
LEMMA create_Keeps ==
  ASSUME NEW d \in Deployment, TypeOK, ForkServiceInv, create(d)
  PROVE  TypeOK' /\ \A e \in Deployment : Local(e)' /\ Owned(e)'
<1> USE ForkServiceAssumption
<1> USE DEF TypeOK, ForkServiceInv, create, underQuota, goTo, Active, Awaiting, Working, Early, Late
<1>1. TypeOK'
  OBVIOUS
<1>2. SUFFICES ASSUME NEW e \in Deployment PROVE Local(e)' /\ Owned(e)'
  BY <1>1
<1>3. Local(e) /\ Owned(e) /\ Local(d) /\ Owned(d)
  BY DEF Local, Owned, EveryForkHasAnOwner, ReadyHasItsFork, NoRuntimeOutlives
<1>4. WorkerMatches(e)'
  BY <1>3 DEF Local, Owned, WorkerMatches, RowMatches, StopMatches
<1>5. RowMatches(e)'
  BY <1>3 DEF Local, Owned, WorkerMatches, RowMatches, StopMatches
<1>6. StopMatches(e)'
  BY <1>3 DEF Local, Owned, WorkerMatches, RowMatches, StopMatches
<1>7. Owned(e)'
  BY <1>3 DEF Local, Owned, WorkerMatches, RowMatches, StopMatches
<1> QED BY <1>4, <1>5, <1>6, <1>7 DEF Local

\* rpcAnswers keeps every variable's type and every deployment's local invariant.
LEMMA rpcAnswers_Keeps ==
  ASSUME NEW d \in Deployment, TypeOK, ForkServiceInv, rpcAnswers(d)
  PROVE  TypeOK' /\ \A e \in Deployment : Local(e)' /\ Owned(e)'
<1> USE ForkServiceAssumption
<1> USE DEF TypeOK, ForkServiceInv, rpcAnswers, persist, goTo, Active, Awaiting, Working, Early, Late
<1>1. TypeOK'
  OBVIOUS
<1>2. SUFFICES ASSUME NEW e \in Deployment PROVE Local(e)' /\ Owned(e)'
  BY <1>1
<1>3. Local(e) /\ Owned(e) /\ Local(d) /\ Owned(d)
  BY DEF Local, Owned, EveryForkHasAnOwner, ReadyHasItsFork, NoRuntimeOutlives
<1>4. WorkerMatches(e)'
  BY <1>3 DEF Local, Owned, WorkerMatches, RowMatches, StopMatches
<1>5. RowMatches(e)'
  BY <1>3 DEF Local, Owned, WorkerMatches, RowMatches, StopMatches
<1>6. StopMatches(e)'
  BY <1>3 DEF Local, Owned, WorkerMatches, RowMatches, StopMatches
<1>7. Owned(e)'
  BY <1>3 DEF Local, Owned, WorkerMatches, RowMatches, StopMatches
<1> QED BY <1>4, <1>5, <1>6, <1>7 DEF Local

\* anchorMatches keeps every variable's type and every deployment's local invariant.
LEMMA anchorMatches_Keeps ==
  ASSUME NEW d \in Deployment, TypeOK, ForkServiceInv, anchorMatches(d)
  PROVE  TypeOK' /\ \A e \in Deployment : Local(e)' /\ Owned(e)'
<1> USE ForkServiceAssumption
<1> USE DEF TypeOK, ForkServiceInv, anchorMatches, persist, goTo, Active, Awaiting, Working, Early, Late
<1>1. TypeOK'
  OBVIOUS
<1>2. SUFFICES ASSUME NEW e \in Deployment PROVE Local(e)' /\ Owned(e)'
  BY <1>1
<1>3. Local(e) /\ Owned(e) /\ Local(d) /\ Owned(d)
  BY DEF Local, Owned, EveryForkHasAnOwner, ReadyHasItsFork, NoRuntimeOutlives
<1>4. WorkerMatches(e)'
  BY <1>3 DEF Local, Owned, WorkerMatches, RowMatches, StopMatches
<1>5. RowMatches(e)'
  BY <1>3 DEF Local, Owned, WorkerMatches, RowMatches, StopMatches
<1>6. StopMatches(e)'
  BY <1>3 DEF Local, Owned, WorkerMatches, RowMatches, StopMatches
<1>7. Owned(e)'
  BY <1>3 DEF Local, Owned, WorkerMatches, RowMatches, StopMatches
<1> QED BY <1>4, <1>5, <1>6, <1>7 DEF Local

\* nextPhase keeps every variable's type and every deployment's local invariant.
LEMMA nextPhase_Keeps ==
  ASSUME NEW d \in Deployment, TypeOK, ForkServiceInv, nextPhase(d)
  PROVE  TypeOK' /\ \A e \in Deployment : Local(e)' /\ Owned(e)'
<1> USE ForkServiceAssumption
<1> USE DEF TypeOK, ForkServiceInv, nextPhase, persist, Active, Awaiting, Working, Early, Late
<1>1. TypeOK'
  OBVIOUS
<1>2. SUFFICES ASSUME NEW e \in Deployment PROVE Local(e)' /\ Owned(e)'
  BY <1>1
<1>3. Local(e) /\ Owned(e) /\ Local(d) /\ Owned(d)
  BY DEF Local, Owned, EveryForkHasAnOwner, ReadyHasItsFork, NoRuntimeOutlives
<1>4. WorkerMatches(e)'
  BY <1>3 DEF Local, Owned, WorkerMatches, RowMatches, StopMatches
<1>5. RowMatches(e)'
  BY <1>3 DEF Local, Owned, WorkerMatches, RowMatches, StopMatches
<1>6. StopMatches(e)'
  BY <1>3 DEF Local, Owned, WorkerMatches, RowMatches, StopMatches
<1>7. Owned(e)'
  BY <1>3 DEF Local, Owned, WorkerMatches, RowMatches, StopMatches
<1> QED BY <1>4, <1>5, <1>6, <1>7 DEF Local

\* startRuntime keeps every variable's type and every deployment's local invariant.
LEMMA startRuntime_Keeps ==
  ASSUME NEW d \in Deployment, TypeOK, ForkServiceInv, startRuntime(d)
  PROVE  TypeOK' /\ \A e \in Deployment : Local(e)' /\ Owned(e)'
<1> USE ForkServiceAssumption
<1> USE DEF TypeOK, ForkServiceInv, startRuntime, persist, goTo, Active, Awaiting, Working, Early, Late
<1>1. TypeOK'
  OBVIOUS
<1>2. SUFFICES ASSUME NEW e \in Deployment PROVE Local(e)' /\ Owned(e)'
  BY <1>1
<1>3. Local(e) /\ Owned(e) /\ Local(d) /\ Owned(d)
  BY DEF Local, Owned, EveryForkHasAnOwner, ReadyHasItsFork, NoRuntimeOutlives
<1>4. WorkerMatches(e)'
  BY <1>3 DEF Local, Owned, WorkerMatches, RowMatches, StopMatches
<1>5. RowMatches(e)'
  BY <1>3 DEF Local, Owned, WorkerMatches, RowMatches, StopMatches
<1>6. StopMatches(e)'
  BY <1>3 DEF Local, Owned, WorkerMatches, RowMatches, StopMatches
<1>7. Owned(e)'
  BY <1>3 DEF Local, Owned, WorkerMatches, RowMatches, StopMatches
<1> QED BY <1>4, <1>5, <1>6, <1>7 DEF Local

\* firstTick keeps every variable's type and every deployment's local invariant.
LEMMA firstTick_Keeps ==
  ASSUME NEW d \in Deployment, TypeOK, ForkServiceInv, firstTick(d)
  PROVE  TypeOK' /\ \A e \in Deployment : Local(e)' /\ Owned(e)'
<1> USE ForkServiceAssumption
<1> USE DEF TypeOK, ForkServiceInv, firstTick, goTo, Active, Awaiting, Working, Early, Late
<1>1. TypeOK'
  OBVIOUS
<1>2. SUFFICES ASSUME NEW e \in Deployment PROVE Local(e)' /\ Owned(e)'
  BY <1>1
<1>3. Local(e) /\ Owned(e) /\ Local(d) /\ Owned(d)
  BY DEF Local, Owned, EveryForkHasAnOwner, ReadyHasItsFork, NoRuntimeOutlives
<1>4. WorkerMatches(e)'
  BY <1>3 DEF Local, Owned, WorkerMatches, RowMatches, StopMatches
<1>5. RowMatches(e)'
  BY <1>3 DEF Local, Owned, WorkerMatches, RowMatches, StopMatches
<1>6. StopMatches(e)'
  BY <1>3 DEF Local, Owned, WorkerMatches, RowMatches, StopMatches
<1>7. Owned(e)'
  BY <1>3 DEF Local, Owned, WorkerMatches, RowMatches, StopMatches
<1> QED BY <1>4, <1>5, <1>6, <1>7 DEF Local

\* policyReads keeps every variable's type and every deployment's local invariant.
LEMMA policyReads_Keeps ==
  ASSUME NEW d \in Deployment, TypeOK, ForkServiceInv, policyReads(d)
  PROVE  TypeOK' /\ \A e \in Deployment : Local(e)' /\ Owned(e)'
<1> USE ForkServiceAssumption
<1> USE DEF TypeOK, ForkServiceInv, policyReads, goTo, Active, Awaiting, Working, Early, Late
<1>1. TypeOK'
  OBVIOUS
<1>2. SUFFICES ASSUME NEW e \in Deployment PROVE Local(e)' /\ Owned(e)'
  BY <1>1
<1>3. Local(e) /\ Owned(e) /\ Local(d) /\ Owned(d)
  BY DEF Local, Owned, EveryForkHasAnOwner, ReadyHasItsFork, NoRuntimeOutlives
<1>4. WorkerMatches(e)'
  BY <1>3 DEF Local, Owned, WorkerMatches, RowMatches, StopMatches
<1>5. RowMatches(e)'
  BY <1>3 DEF Local, Owned, WorkerMatches, RowMatches, StopMatches
<1>6. StopMatches(e)'
  BY <1>3 DEF Local, Owned, WorkerMatches, RowMatches, StopMatches
<1>7. Owned(e)'
  BY <1>3 DEF Local, Owned, WorkerMatches, RowMatches, StopMatches
<1> QED BY <1>4, <1>5, <1>6, <1>7 DEF Local

\* conclude keeps every variable's type and every deployment's local invariant.
LEMMA conclude_Keeps ==
  ASSUME NEW d \in Deployment, TypeOK, ForkServiceInv, conclude(d)
  PROVE  TypeOK' /\ \A e \in Deployment : Local(e)' /\ Owned(e)'
<1> USE ForkServiceAssumption
<1> USE DEF TypeOK, ForkServiceInv, conclude, persist, goTo, Active, Awaiting, Working, Early, Late
<1>1. TypeOK'
  OBVIOUS
<1>2. SUFFICES ASSUME NEW e \in Deployment PROVE Local(e)' /\ Owned(e)'
  BY <1>1
<1>3. Local(e) /\ Owned(e) /\ Local(d) /\ Owned(d)
  BY DEF Local, Owned, EveryForkHasAnOwner, ReadyHasItsFork, NoRuntimeOutlives
<1>4. WorkerMatches(e)'
  BY <1>3 DEF Local, Owned, WorkerMatches, RowMatches, StopMatches
<1>5. RowMatches(e)'
  BY <1>3 DEF Local, Owned, WorkerMatches, RowMatches, StopMatches
<1>6. StopMatches(e)'
  BY <1>3 DEF Local, Owned, WorkerMatches, RowMatches, StopMatches
<1>7. Owned(e)'
  BY <1>3 DEF Local, Owned, WorkerMatches, RowMatches, StopMatches
<1> QED BY <1>4, <1>5, <1>6, <1>7 DEF Local

\* fail keeps every variable's type and every deployment's local invariant.
LEMMA fail_Keeps ==
  ASSUME NEW d \in Deployment, TypeOK, ForkServiceInv, fail(d)
  PROVE  TypeOK' /\ \A e \in Deployment : Local(e)' /\ Owned(e)'
<1> USE ForkServiceAssumption
<1> USE DEF TypeOK, ForkServiceInv, fail, persist, goTo, stopRuntime, destroy, Active, Awaiting, Working, Early, Late
<1>1. TypeOK'
  OBVIOUS
<1>2. SUFFICES ASSUME NEW e \in Deployment PROVE Local(e)' /\ Owned(e)'
  BY <1>1
<1>3. Local(e) /\ Owned(e) /\ Local(d) /\ Owned(d)
  BY DEF Local, Owned, EveryForkHasAnOwner, ReadyHasItsFork, NoRuntimeOutlives
<1>4. WorkerMatches(e)'
  BY <1>3 DEF Local, Owned, WorkerMatches, RowMatches, StopMatches
<1>5. RowMatches(e)'
  BY <1>3 DEF Local, Owned, WorkerMatches, RowMatches, StopMatches
<1>6. StopMatches(e)'
  BY <1>3 DEF Local, Owned, WorkerMatches, RowMatches, StopMatches
<1>7. Owned(e)'
  BY <1>3 DEF Local, Owned, WorkerMatches, RowMatches, StopMatches
<1> QED BY <1>4, <1>5, <1>6, <1>7 DEF Local

\* failed keeps every variable's type and every deployment's local invariant.
LEMMA failed_Keeps ==
  ASSUME NEW d \in Deployment, TypeOK, ForkServiceInv, failed(d)
  PROVE  TypeOK' /\ \A e \in Deployment : Local(e)' /\ Owned(e)'
<1> USE ForkServiceAssumption
<1> USE DEF TypeOK, ForkServiceInv, failed, persist, goTo, Active, Awaiting, Working, Early, Late
<1>1. TypeOK'
  OBVIOUS
<1>2. SUFFICES ASSUME NEW e \in Deployment PROVE Local(e)' /\ Owned(e)'
  BY <1>1
<1>3. Local(e) /\ Owned(e) /\ Local(d) /\ Owned(d)
  BY DEF Local, Owned, EveryForkHasAnOwner, ReadyHasItsFork, NoRuntimeOutlives
<1>4. WorkerMatches(e)'
  BY <1>3 DEF Local, Owned, WorkerMatches, RowMatches, StopMatches
<1>5. RowMatches(e)'
  BY <1>3 DEF Local, Owned, WorkerMatches, RowMatches, StopMatches
<1>6. StopMatches(e)'
  BY <1>3 DEF Local, Owned, WorkerMatches, RowMatches, StopMatches
<1>7. Owned(e)'
  BY <1>3 DEF Local, Owned, WorkerMatches, RowMatches, StopMatches
<1> QED BY <1>4, <1>5, <1>6, <1>7 DEF Local

\* stop keeps every variable's type and every deployment's local invariant.
LEMMA stop_Keeps ==
  ASSUME NEW d \in Deployment, TypeOK, ForkServiceInv, stop(d)
  PROVE  TypeOK' /\ \A e \in Deployment : Local(e)' /\ Owned(e)'
<1> USE ForkServiceAssumption
<1> USE DEF TypeOK, ForkServiceInv, stop, persist, stopRuntime, namesFork, noteEarly, Active, Awaiting, Working, Early, Late
<1>1. TypeOK'
  OBVIOUS
<1>2. SUFFICES ASSUME NEW e \in Deployment PROVE Local(e)' /\ Owned(e)'
  BY <1>1
<1>3. Local(e) /\ Owned(e) /\ Local(d) /\ Owned(d)
  BY DEF Local, Owned, EveryForkHasAnOwner, ReadyHasItsFork, NoRuntimeOutlives
<1>4. WorkerMatches(e)'
  BY <1>3 DEF Local, Owned, WorkerMatches, RowMatches, StopMatches
<1>5. RowMatches(e)'
  BY <1>3 DEF Local, Owned, WorkerMatches, RowMatches, StopMatches
<1>6. StopMatches(e)'
  BY <1>3 DEF Local, Owned, WorkerMatches, RowMatches, StopMatches
<1>7. Owned(e)'
  BY <1>3 DEF Local, Owned, WorkerMatches, RowMatches, StopMatches
<1> QED BY <1>4, <1>5, <1>6, <1>7 DEF Local

\* stopFork keeps every variable's type and every deployment's local invariant.
LEMMA stopFork_Keeps ==
  ASSUME NEW d \in Deployment, TypeOK, ForkServiceInv, stopFork(d)
  PROVE  TypeOK' /\ \A e \in Deployment : Local(e)' /\ Owned(e)'
<1> USE ForkServiceAssumption
<1> USE DEF TypeOK, ForkServiceInv, stopFork, stopRuntime, namesFork, destroy, Active, Awaiting, Working, Early, Late
<1>1. TypeOK'
  <2>1. stopping' \in [Deployment -> 0..MaxStops]
    OBVIOUS
  <2>2. runtime' \in [Deployment -> {"none", "running", "stopped"}]
    OBVIOUS
  <2>3. fork' \in [Deployment -> {"none", "CREATING", "VERIFYING_ANCHOR", "READY", "DESTROYED"}]
        /\ anvil' \in [Deployment -> BOOLEAN]
    OBVIOUS
  <2> QED BY <2>1, <2>2, <2>3
<1>2. SUFFICES ASSUME NEW e \in Deployment PROVE Local(e)' /\ Owned(e)'
  BY <1>1
<1>3. Local(e) /\ Owned(e) /\ Local(d) /\ Owned(d)
  BY DEF Local, Owned, EveryForkHasAnOwner, ReadyHasItsFork, NoRuntimeOutlives
<1>4. WorkerMatches(e)'
  BY <1>3 DEF Local, Owned, WorkerMatches, RowMatches, StopMatches
<1>5. RowMatches(e)'
  BY <1>3 DEF Local, Owned, WorkerMatches, RowMatches, StopMatches
<1>6. StopMatches(e)'
  BY <1>3 DEF Local, Owned, WorkerMatches, RowMatches, StopMatches
<1>7. Owned(e)'
  BY <1>3 DEF Local, Owned, WorkerMatches, RowMatches, StopMatches
<1> QED BY <1>4, <1>5, <1>6, <1>7 DEF Local

\* stopped keeps every variable's type and every deployment's local invariant.
LEMMA stopped_Keeps ==
  ASSUME NEW d \in Deployment, TypeOK, ForkServiceInv, stopped(d)
  PROVE  TypeOK' /\ \A e \in Deployment : Local(e)' /\ Owned(e)'
<1> USE ForkServiceAssumption
<1> USE DEF TypeOK, ForkServiceInv, stopped, persist, noteEarly, Active, Awaiting, Working, Early, Late
<1>1. TypeOK'
  OBVIOUS
<1>2. SUFFICES ASSUME NEW e \in Deployment PROVE Local(e)' /\ Owned(e)'
  BY <1>1
<1>3. Local(e) /\ Owned(e) /\ Local(d) /\ Owned(d)
  BY DEF Local, Owned, EveryForkHasAnOwner, ReadyHasItsFork, NoRuntimeOutlives
<1>4. WorkerMatches(e)'
  BY <1>3 DEF Local, Owned, WorkerMatches, RowMatches, StopMatches
<1>5. RowMatches(e)'
  BY <1>3 DEF Local, Owned, WorkerMatches, RowMatches, StopMatches
<1>6. StopMatches(e)'
  BY <1>3 DEF Local, Owned, WorkerMatches, RowMatches, StopMatches
<1>7. Owned(e)'
  BY <1>3 DEF Local, Owned, WorkerMatches, RowMatches, StopMatches
<1> QED BY <1>4, <1>5, <1>6, <1>7 DEF Local

\* anvilDies keeps every variable's type and every deployment's local invariant.
LEMMA anvilDies_Keeps ==
  ASSUME NEW d \in Deployment, TypeOK, ForkServiceInv, anvilDies(d)
  PROVE  TypeOK' /\ \A e \in Deployment : Local(e)' /\ Owned(e)'
<1> USE ForkServiceAssumption
<1> USE DEF TypeOK, ForkServiceInv, anvilDies, serviceVars, Active, Awaiting, Working, Early, Late
<1>1. TypeOK'
  OBVIOUS
<1>2. SUFFICES ASSUME NEW e \in Deployment PROVE Local(e)' /\ Owned(e)'
  BY <1>1
<1>3. Local(e) /\ Owned(e) /\ Local(d) /\ Owned(d)
  BY DEF Local, Owned, EveryForkHasAnOwner, ReadyHasItsFork, NoRuntimeOutlives
<1>4. WorkerMatches(e)'
  BY <1>3 DEF Local, Owned, WorkerMatches, RowMatches, StopMatches
<1>5. RowMatches(e)'
  BY <1>3 DEF Local, Owned, WorkerMatches, RowMatches, StopMatches
<1>6. StopMatches(e)'
  BY <1>3 DEF Local, Owned, WorkerMatches, RowMatches, StopMatches
<1>7. Owned(e)'
  BY <1>3 DEF Local, Owned, WorkerMatches, RowMatches, StopMatches
<1> QED BY <1>4, <1>5, <1>6, <1>7 DEF Local

\* A restart keeps them as well: whatever was in memory is gone, and no row is
\* left active.
LEMMA restart_Keeps ==
  ASSUME TypeOK, ForkServiceInv, restart
  PROVE  TypeOK' /\ (\A e \in Deployment : Local(e)' /\ Owned(e)' /\ row'[e] \notin Active)
<1> USE ForkServiceAssumption
<1> USE DEF TypeOK, ForkServiceInv, restart, reconciled, Active, Awaiting, Working, Early, Late
<1>1. TypeOK'
  <2>1. row' \in [Deployment -> Active \cup {"none", "STOPPED", "FAILED"}]
    OBVIOUS
  <2>2. named' \in [Deployment -> BOOLEAN] /\ anvil' \in [Deployment -> BOOLEAN]
    OBVIOUS
  <2> QED BY <2>1, <2>2
<1>2. SUFFICES ASSUME NEW e \in Deployment
               PROVE  Local(e)' /\ Owned(e)' /\ row'[e] \notin Active
  BY <1>1
<1>3. Local(e)
  BY DEF Local
<1>4. row'[e] \notin Active /\ (row'[e] = "none" => row[e] = "none")
  OBVIOUS
<1>5. row[e] = "none" => e \notin live /\ ~known[e] /\ ~named[e]
  BY <1>3 DEF Local, RowMatches
<1>6. row[e] = "none" => ~named'[e]
  BY <1>5
<1>7. Local(e)'
  BY <1>4, <1>5, <1>6 DEF Local, WorkerMatches, RowMatches, StopMatches
<1>8. Owned(e)'
  BY <1>4 DEF Owned
<1> QED BY <1>4, <1>7, <1>8

\* Whatever makes a row active, but deploy, was worked on already: by a worker
\* whose row was active, or who was stopped early.
LEMMA OneActiveKept ==
  ASSUME TypeOK, ForkServiceInv, Next,
         \A e \in Deployment : Local(e)'
  PROVE  OneActivePerProject'
<1> USE DEF Active
<1> SUFFICES ASSUME NEW d \in Deployment, NEW e \in Deployment,
                    d # e, projectOf[d] = projectOf[e],
                    row'[d] \in Active, row'[e] \in Active,
                    d \notin stoppedEarly', e \notin stoppedEarly'
             PROVE  FALSE
  BY DEF OneActivePerProject
<1>1. stoppedEarly \subseteq stoppedEarly'
  BY DEF Next, work, deploy, create, rpcAnswers, anchorMatches, nextPhase, startRuntime,
         firstTick, policyReads, conclude, fail, failed, stop, stopFork, stopped, anvilDies,
         restart, noteEarly
<1>2. \A x \in Deployment : row'[x] \in Active /\ x \notin stoppedEarly' =>
        row[x] \in Active \/ (row[x] = "none" /\ deploy(x))
  <2> SUFFICES ASSUME NEW x \in Deployment, row'[x] \in Active, x \notin stoppedEarly',
                      row[x] \notin Active
               PROVE  row[x] = "none" /\ deploy(x)
    OBVIOUS
  <2>1. worker[x] \notin Working
    BY <1>1 DEF ForkServiceInv, WorkerMatches
  <2>2. CASE restart
    BY <2>2, restart_Keeps
  <2>3. CASE \E y \in Deployment : work(y)
    <3> PICK y \in Deployment : work(y) BY <2>3
    <3>1. worker[y] \in Working
      BY DEF work, create, rpcAnswers, anchorMatches, nextPhase, startRuntime, firstTick,
             policyReads, conclude, fail, failed, Working, Awaiting
    <3>2. x # y BY <2>1, <3>1
    <3>3. row'[x] = row[x]
      BY <3>2 DEF work, create, rpcAnswers, anchorMatches, nextPhase, startRuntime, firstTick,
                  policyReads, conclude, fail, failed, persist, TypeOK
    <3> QED BY <3>3
  <2>4. CASE \E y \in Deployment : stop(y) \/ stopFork(y) \/ stopped(y) \/ anvilDies(y)
    BY <2>4 DEF stop, stopFork, stopped, anvilDies, persist, TypeOK
  <2>5. CASE \E y \in Deployment : deploy(y)
    BY <2>5 DEF deploy, persist, TypeOK
  <2> QED BY <2>2, <2>3, <2>4, <2>5 DEF Next
<1>3. CASE row[d] \in Active /\ row[e] \in Active
  BY <1>1, <1>3 DEF ForkServiceInv, OneActivePerProject
<1>4. CASE deploy(d)
  BY <1>2, <1>4 DEF deploy, persist, TypeOK
<1>5. CASE deploy(e)
  BY <1>2, <1>5 DEF deploy, persist, TypeOK
<1> QED BY <1>2, <1>3, <1>4, <1>5

LEMMA InvInit == Init => TypeOK /\ ForkServiceInv
BY ForkServiceAssumption
   DEF Init, TypeOK, ForkServiceInv, WorkerMatches, RowMatches, StopMatches, EveryForkHasAnOwner,
       ReadyHasItsFork, NoRuntimeOutlives, OneActivePerProject, Active, Awaiting, Working,
       Early, Late

LEMMA InvStep ==
  ASSUME TypeOK, ForkServiceInv, [Next]_vars
  PROVE  TypeOK' /\ ForkServiceInv'
<1>1. CASE Next
  <2>1. TypeOK' /\ \A e \in Deployment : Local(e)' /\ Owned(e)'
    <3>1. CASE restart
      BY <3>1, restart_Keeps
    <3>2. ASSUME NEW d \in Deployment, work(d)
          PROVE  TypeOK' /\ \A e \in Deployment : Local(e)' /\ Owned(e)'
      BY <3>2, create_Keeps, rpcAnswers_Keeps, anchorMatches_Keeps, nextPhase_Keeps,
         startRuntime_Keeps, firstTick_Keeps, policyReads_Keeps, conclude_Keeps, fail_Keeps,
         failed_Keeps DEF work
    <3>3. ASSUME NEW d \in Deployment,
                 deploy(d) \/ stop(d) \/ stopFork(d) \/ stopped(d) \/ anvilDies(d)
          PROVE  TypeOK' /\ \A e \in Deployment : Local(e)' /\ Owned(e)'
      BY <3>3, deploy_Keeps, stop_Keeps, stopFork_Keeps, stopped_Keeps, anvilDies_Keeps
    <3> QED BY <1>1, <3>1, <3>2, <3>3 DEF Next
  <2>2. OneActivePerProject'
    BY <1>1, <2>1, OneActiveKept
  <2>3. EveryForkHasAnOwner' /\ ReadyHasItsFork' /\ NoRuntimeOutlives'
    BY <2>1 DEF Owned, EveryForkHasAnOwner, ReadyHasItsFork, NoRuntimeOutlives
  <2>4. \A e \in Deployment : WorkerMatches(e)' /\ RowMatches(e)' /\ StopMatches(e)'
    BY <2>1 DEF Local
  <2> QED BY <2>1, <2>2, <2>3, <2>4 DEF ForkServiceInv
<1>2. CASE UNCHANGED vars
  BY <1>2 DEF vars, serviceVars, TypeOK, ForkServiceInv, WorkerMatches, RowMatches, StopMatches,
              EveryForkHasAnOwner, ReadyHasItsFork, NoRuntimeOutlives, OneActivePerProject
<1> QED BY <1>1, <1>2

\* Every variable keeps its type and the ties between worker, row, record,
\* fork and runtime hold in every reachable state (service.ts, deployer.ts).
THEOREM Invariant == Spec => [](TypeOK /\ ForkServiceInv)
BY InvInit, InvStep, PTL DEF Spec

\* The type invariant of the fork service.
THEOREM TypeCorrect == Spec => []TypeOK
BY Invariant, PTL

\* For any number of deployments, stops and restarts: an Anvil process of this
\* server is worked on, or named by a ready row (runDeployment, stop).
THEOREM NoForkIsLeaked == Spec => []EveryForkHasAnOwner
<1>1. ForkServiceInv => EveryForkHasAnOwner
  BY DEF ForkServiceInv
<1> QED BY Invariant, <1>1, PTL

\* A ready deployment has its verified fork, unless a stop races it.
THEOREM ReadyIsStanding == Spec => []ReadyHasItsFork
<1>1. ForkServiceInv => ReadyHasItsFork
  BY DEF ForkServiceInv
<1> QED BY Invariant, <1>1, PTL

\* No runtime outlives its deployment, unless a stop was answered early.
THEOREM RuntimesEnd == Spec => []NoRuntimeOutlives
<1>1. ForkServiceInv => NoRuntimeOutlives
  BY DEF ForkServiceInv
<1> QED BY Invariant, <1>1, PTL

\* Two active deployments of one project need a stop that was answered early.
THEOREM OnePerProject == Spec => []OneActivePerProject
<1>1. ForkServiceInv => OneActivePerProject
  BY DEF ForkServiceInv
<1> QED BY Invariant, <1>1, PTL
=============================================================================
