--------------------------- MODULE StudioPipeline ---------------------------
(***************************************************************************)
(* The Studio's build pipeline (apps/studio/src/pipeline.ts) and the quota *)
(* ledger it spends from (quota.ts), behind the routes of api.ts.  Design  *)
(* and build requests run in one process and interleave at their awaits;   *)
(* no route refuses a second request for a build that has one in progress. *)
(* Each action is one stretch of code between two awaits.  A Blueprint is  *)
(* abstracted to whether validateBlueprint calls it buildable, and the     *)
(* three model budgets to the one that counts requests.  The builds are    *)
(* those of one user.                                                      *)
(***************************************************************************)
EXTENDS Naturals, FiniteSets, Sequences

CONSTANTS
  Build,             \* builds the user can create
  Request,           \* design and build requests that can be in progress
  MaxRevision,       \* bound: Blueprint revisions of a build
  MaxBuildRevision,  \* bound: build runs of a build
  Usage,             \* model requests one call can turn out to have made
  modelRequestsPerBuild, autoRepairLoops, maxMandatoryPassesPerBuild,
  concurrentBuilds   \* policy, as in StudioQuotaPolicy

ASSUME PipelineAssumption ==
  /\ {MaxRevision, MaxBuildRevision, modelRequestsPerBuild, autoRepairLoops,
      maxMandatoryPassesPerBuild, concurrentBuilds} \subseteq Nat
  /\ MaxRevision > 0
  /\ Usage \subseteq Nat \ {0} /\ \E n \in Usage : \A m \in Usage : m <= n
  /\ IsFiniteSet(Request)

VARIABLES
  build,       \* table studio_builds, one row per build
  blueprints,  \* table studio_blueprints: buildable or not, by revision
  quota,       \* reservations HELD and requests used, per build
  passes,      \* mandatory passes: their number, and the complete green ones
  sandboxes,   \* this.sandboxes: the build revision a build's sandbox is for
  alive,       \* the sandboxes that exist, by build and build revision
  run,         \* where each request is, and the locals of its handler
  orphaned,    \* history: reservations whose call died with the process
  overlapped,  \* history: builds that had two build runs at once
  astray       \* history: builds with a sandbox nobody will destroy

history == <<orphaned, overlapped, astray>>
vars    == <<build, blueprints, quota, passes, sandboxes, alive, run, history>>

Stage  == {"INTAKE", "REQUIREMENTS", "BLUEPRINT", "SECURITY_REVIEW",
           "AWAITING_APPROVAL", "BUILD", "TEST", "REPAIR", "SIMULATE",
           "FINAL_VERIFY", "EXPORT_READY"}
Status == {"none", "RUNNING", "AWAITING_APPROVAL", "COMPLETED", "FAILED",
           "BUILD_LIMIT_REACHED", "BUILD_NEEDS_USER_REVIEW",
           "BUILD_PAUSED_UPSTREAM_LIMIT", "ABANDONED"}
Row    == [stage : Stage, status : Status, buildRevision : 0..MaxBuildRevision,
           repairCycles : 0..autoRepairLoops, approved : BOOLEAN]
Point  == {"idle", "requirements", "architecture", "security", "creating",
           "writing", "testing", "repairing", "simulating", "reviewing",
           "destroying", "leaving"}
Run    == [at : Point, build : Build \cup {"none"}, buildable : BOOLEAN,
           buildRevision : 0..MaxBuildRevision, green : BOOLEAN]

idle == [at |-> "idle", build |-> "none", buildable |-> FALSE,
         buildRevision |-> 0, green |-> FALSE]

Init ==
  /\ build = [b \in Build |-> [stage |-> "INTAKE", status |-> "none",
                buildRevision |-> 0, repairCycles |-> 0, approved |-> FALSE]]
  /\ blueprints = [b \in Build |-> <<>>]
  /\ quota = [b \in Build |-> [held |-> 0, used |-> 0]]
  /\ passes = [b \in Build |-> [count |-> 0, green |-> {}]]
  /\ sandboxes = [b \in Build |-> 0]
  /\ alive = {}
  /\ run = [r \in Request |-> idle]
  /\ orphaned = [b \in Build |-> 0] /\ overlapped = {} /\ astray = {}

setRow(b, row)  == build' = [build EXCEPT ![b] = row]
setRun(r, new)  == run' = [run EXCEPT ![r] = new]
goTo(r, point)  == setRun(r, [run[r] EXCEPT !.at = point])
atPoint(point)  == {r \in Request : run[r].at = point}

-----------------------------------------------------------------------------
(* The quota ledger.                                                       *)

\* reserve: what is held counts as spent.
\* Mutant: only settled usage counts.
affordableSettled(q) == q.used + 1 <= modelRequestsPerBuild
affordable(q) == q.used + q.held + 1 <= modelRequestsPerBuild

reserved(q)  == [q EXCEPT !.held = @ + 1]
settled(q)   == {[held |-> q.held - 1, used |-> q.used + n] : n \in Usage}
\* Mutant: a failed call keeps its reservation.
releasedNot(q) == q
released(q)  == [q EXCEPT !.held = @ - 1]

setQuota(b, q) == quota' = [quota EXCEPT ![b] = q]

\* callModel up to its await: the row says BUILD_LIMIT_REACHED when there is
\* nothing left to reserve, and the exception ends the request.
callModel(r, b, q, row, point) ==
  IF affordable(q)
    THEN setQuota(b, reserved(q)) /\ setRow(b, row)
         /\ setRun(r, [run[r] EXCEPT !.at = point, !.build = b])
    ELSE setQuota(b, q) /\ setRow(b, [row EXCEPT !.status = "BUILD_LIMIT_REACHED"])
         /\ setRun(r, idle)

-----------------------------------------------------------------------------
(* Creating, approving, editing and abandoning: no awaits.                 *)

active(b) == build[b].status \in {"RUNNING", "AWAITING_APPROVAL"}

\* A repeated idempotency key answers with the row that is there.
createBuild(b) ==
  /\ build[b].status = "none"
  /\ Cardinality({c \in Build : active(c)}) < concurrentBuilds
  /\ setRow(b, [build[b] EXCEPT !.status = "RUNNING"])
  /\ UNCHANGED <<blueprints, quota, passes, sandboxes, alive, run, history>>

\* The caller can name every CRITICAL finding, and then nothing is refused.
approve(b) ==
  /\ build[b].stage = "AWAITING_APPROVAL"
  /\ setRow(b, [build[b] EXCEPT !.approved = TRUE])
  /\ UNCHANGED <<blueprints, quota, passes, sandboxes, alive, run, history>>

abandon(b) ==
  /\ build[b].status \notin {"none", "COMPLETED", "ABANDONED"}
  /\ setRow(b, [build[b] EXCEPT !.status = "ABANDONED"])
  /\ UNCHANGED <<blueprints, quota, passes, sandboxes, alive, run, history>>

\* The next revision is saved whatever validation says of it.
editBlueprint(b, buildable) ==
  /\ blueprints[b] # <<>> /\ Len(blueprints[b]) < MaxRevision
  /\ blueprints' = [blueprints EXCEPT ![b] = Append(@, buildable)]
  /\ UNCHANGED <<build, quota, passes, sandboxes, alive, run, history>>

-----------------------------------------------------------------------------
(* runToApproval.                                                          *)

design(r, b) ==
  /\ run[r].at = "idle" /\ build[b].status # "none"
  /\ callModel(r, b, quota[b], [build[b] EXCEPT !.stage = "REQUIREMENTS"], "requirements")
  /\ UNCHANGED <<blueprints, passes, sandboxes, alive, history>>

requirements(r) ==
  LET b == run[r].build IN
  /\ run[r].at = "requirements"
  /\ \E q \in settled(quota[b]) :
       callModel(r, b, q, [build[b] EXCEPT !.stage = "BLUEPRINT"], "architecture")
  /\ UNCHANGED <<blueprints, passes, sandboxes, alive, history>>

\* The approval boundary, for the Blueprint this request has assembled.
boundary(b, buildable) ==
  setRow(b, IF buildable
              THEN [build[b] EXCEPT !.stage = "AWAITING_APPROVAL",
                                    !.status = "AWAITING_APPROVAL"]
              ELSE [build[b] EXCEPT !.stage = "SECURITY_REVIEW",
                                    !.status = "BUILD_NEEDS_USER_REVIEW"])

\* The Blueprint is assembled, validated and saved as revision 1; the review
\* is only asked for when it can be paid for.
architecture(r) ==
  LET b == run[r].build IN
  /\ run[r].at = "architecture"
  /\ \E q \in settled(quota[b]), buildable \in BOOLEAN :
       /\ blueprints' = [blueprints EXCEPT ![b] =
                           IF @ = <<>> THEN <<buildable>> ELSE [@ EXCEPT ![1] = buildable]]
       /\ IF affordable(q)
            THEN /\ setQuota(b, reserved(q))
                 /\ setRow(b, [build[b] EXCEPT !.stage = "SECURITY_REVIEW"])
                 /\ setRun(r, [run[r] EXCEPT !.at = "security", !.buildable = buildable])
            ELSE setQuota(b, q) /\ boundary(b, buildable) /\ setRun(r, idle)
  /\ UNCHANGED <<passes, sandboxes, alive, history>>

\* The advisory review answers or fails: the boundary does not depend on it.
security(r) ==
  LET b == run[r].build IN
  /\ run[r].at = "security"
  /\ \E q \in settled(quota[b]) \cup {released(quota[b])} : setQuota(b, q)
  /\ boundary(b, run[r].buildable)
  /\ setRun(r, idle)
  /\ UNCHANGED <<blueprints, passes, sandboxes, alive, history>>

\* A model call fails, or what it returned cannot be assembled.  Only an
\* upstream rate limit changes the status.
designFails(r) ==
  LET b == run[r].build IN
  /\ run[r].at \in {"requirements", "architecture"}
  /\ \/ /\ setQuota(b, released(quota[b]))
        /\ \/ UNCHANGED build
           \/ setRow(b, [build[b] EXCEPT !.status = "BUILD_PAUSED_UPSTREAM_LIMIT"])
     \/ \E q \in settled(quota[b]) : setQuota(b, q) /\ UNCHANGED build
  /\ setRun(r, idle)
  /\ UNCHANGED <<blueprints, passes, sandboxes, alive, history>>

-----------------------------------------------------------------------------
(* runBuild.                                                               *)

building(b) == \E r \in Request : run[r].build = b /\ run[r].buildRevision # 0

\* Up to the await of the sandbox.  The Blueprint is the newest revision.
startBuild(r, b) ==
  /\ run[r].at = "idle" /\ build[b].approved
  /\ build[b].buildRevision < MaxBuildRevision
  /\ setRow(b, [build[b] EXCEPT !.buildRevision = @ + 1, !.status = "RUNNING",
                                !.stage = "BUILD"])
  /\ setRun(r, [idle EXCEPT !.at = "creating", !.build = b,
                  !.buildable = blueprints[b][Len(blueprints[b])],
                  !.buildRevision = build[b].buildRevision + 1])
  /\ overlapped' = IF building(b) THEN overlapped \cup {b} ELSE overlapped
  /\ UNCHANGED <<blueprints, quota, passes, sandboxes, alive, orphaned, astray>>

mine(r) == <<run[r].build, run[r].buildRevision>>

createSandbox(r) ==
  LET b == run[r].build IN
  /\ run[r].at = "creating"
  /\ \/ /\ sandboxes' = [sandboxes EXCEPT ![b] = run[r].buildRevision]
        /\ alive' = alive \cup {mine(r)}
        /\ setRun(r, [run[r] EXCEPT !.at = "writing", !.buildable = FALSE])
        /\ UNCHANGED build
     \/ /\ setRow(b, [build[b] EXCEPT !.status = "FAILED"])
        /\ setRun(r, idle) /\ UNCHANGED <<sandboxes, alive>>
  /\ UNCHANGED <<blueprints, quota, passes, history>>

\* The finally block is next.
endBuild(r, b, status) ==
  setRow(b, [build[b] EXCEPT !.status = status]) /\ goTo(r, "destroying")

\* Files are written, then compared with the Blueprint.
writeFiles(r) ==
  LET b == run[r].build IN
  /\ run[r].at = "writing" /\ mine(r) \in alive
  /\ \/ endBuild(r, b, "BUILD_NEEDS_USER_REVIEW")
     \/ setRow(b, [build[b] EXCEPT !.stage = "TEST"]) /\ goTo(r, "testing")
  /\ UNCHANGED <<blueprints, quota, passes, sandboxes, alive, history>>

\* The suite ran; a red one is repaired while there are repair cycles left.
tested(r) ==
  LET b == run[r].build IN
  /\ run[r].at = "testing"
  /\ \/ /\ mine(r) \in alive
        /\ setRow(b, [build[b] EXCEPT !.stage = "SIMULATE"]) /\ goTo(r, "simulating")
     \/ /\ build[b].repairCycles >= autoRepairLoops
        /\ endBuild(r, b, "BUILD_NEEDS_USER_REVIEW")
     \/ /\ build[b].repairCycles < autoRepairLoops
        /\ setRow(b, [build[b] EXCEPT !.repairCycles = @ + 1, !.stage = "REPAIR"])
        /\ goTo(r, "repairing")
  /\ UNCHANGED <<blueprints, quota, passes, sandboxes, alive, history>>

repaired(r) ==
  /\ run[r].at = "repairing" /\ mine(r) \in alive
  /\ goTo(r, "testing")
  /\ UNCHANGED <<build, blueprints, quota, passes, sandboxes, alive, history>>

\* One mandatory pass: complete and green, complete and not, or cut short by
\* the wall clock or the ceiling.  The ceiling is looked at before every
\* scenario, when the pass it would refuse may already have its first row.
\* Mutant: the ceiling is looked at once, before the pass.
passOutcomeLate(p) ==
  IF p.count <= maxMandatoryPassesPerBuild
    THEN {<<p.count + 1, TRUE>>, <<p.count + 1, FALSE>>, <<p.count, FALSE>>}
    ELSE {<<p.count, FALSE>>}
passOutcome(p) ==
  CASE p.count < maxMandatoryPassesPerBuild ->
         {<<p.count + 1, TRUE>>, <<p.count + 1, FALSE>>, <<p.count, FALSE>>}
    [] p.count = maxMandatoryPassesPerBuild ->
         {<<p.count + 1, FALSE>>, <<p.count, FALSE>>}
    [] OTHER -> {<<p.count, FALSE>>}

\* The last gate: the deterministic honesty scan and the pass.
\* Mutant: a pass that was cut short or red is let through.
gateUnlessDishonest(r, b, row, green) ==
  \E honest \in BOOLEAN :
    /\ setRow(b, IF honest
                   THEN [row EXCEPT !.stage = "EXPORT_READY", !.status = "COMPLETED"]
                   ELSE [row EXCEPT !.status = "BUILD_NEEDS_USER_REVIEW"])
    /\ setRun(r, [run[r] EXCEPT !.at = "destroying", !.green = FALSE])
gate(r, b, row, green) ==
  \E honest \in BOOLEAN :
    /\ setRow(b, IF honest /\ green
                   THEN [row EXCEPT !.stage = "EXPORT_READY", !.status = "COMPLETED"]
                   ELSE [row EXCEPT !.status = "BUILD_NEEDS_USER_REVIEW"])
    /\ setRun(r, [run[r] EXCEPT !.at = "destroying", !.green = FALSE])

\* The pass is run and recorded against the build revision; the reviewer is
\* asked when there is something left to reserve.
simulate(r) ==
  LET b   == run[r].build
      row == [build[b] EXCEPT !.stage = "FINAL_VERIFY"]
  IN
  /\ run[r].at = "simulating"
  /\ \E outcome \in passOutcome(passes[b]) :
       LET green == outcome[2] IN
       /\ passes' = [passes EXCEPT ![b].count = outcome[1], ![b].green =
                       IF green THEN @ \cup {run[r].buildRevision} ELSE @]
       /\ IF affordable(quota[b])
            THEN /\ setQuota(b, reserved(quota[b])) /\ setRow(b, row)
                 /\ setRun(r, [run[r] EXCEPT !.at = "reviewing", !.green = green])
            ELSE UNCHANGED quota /\ gate(r, b, row, green)
  /\ UNCHANGED <<blueprints, sandboxes, alive, history>>

\* The reviewer answers or fails: the gate does not depend on it.
reviewed(r) ==
  LET b == run[r].build IN
  /\ run[r].at = "reviewing"
  /\ \E q \in settled(quota[b]) \cup {released(quota[b])} : setQuota(b, q)
  /\ gate(r, b, build[b], run[r].green)
  /\ UNCHANGED <<blueprints, passes, sandboxes, alive, history>>

\* The sandbox, the file limit or the wall clock throws: a build that is still
\* RUNNING is FAILED, any other status is left alone.
\* Mutant: the exception is passed on and the row is not touched.
buildFailsSilently(r) ==
  /\ run[r].at \in {"writing", "testing", "repairing", "simulating"}
  /\ goTo(r, "destroying")
  /\ UNCHANGED <<build, blueprints, quota, passes, sandboxes, alive, history>>
buildFails(r) ==
  LET b == run[r].build IN
  /\ run[r].at \in {"writing", "testing", "repairing", "simulating"}
  /\ endBuild(r, b, IF build[b].status = "RUNNING" THEN "FAILED" ELSE build[b].status)
  /\ UNCHANGED <<blueprints, quota, passes, sandboxes, alive, history>>

\* finally: the sandbox that is in the map is destroyed; a failure is ignored.
\* Mutant: finally is left out on the way of an exception or an early return.
destroyNothing(r) ==
  /\ run[r].at = "destroying"
  /\ setRun(r, idle)
  /\ UNCHANGED <<build, blueprints, quota, passes, sandboxes, alive, history>>
destroySandbox(r) ==
  LET b == run[r].build IN
  /\ run[r].at = "destroying"
  /\ \/ sandboxes[b] = 0 /\ setRun(r, idle) /\ UNCHANGED <<alive, astray>>
     \/ /\ sandboxes[b] # 0 /\ goTo(r, "leaving")
        /\ \/ alive' = alive \ {<<b, sandboxes[b]>>} /\ UNCHANGED astray
           \/ astray' = astray \cup {b} /\ UNCHANGED alive
  /\ UNCHANGED <<build, blueprints, quota, passes, sandboxes, orphaned, overlapped>>

\* ... and then the map's entry is deleted, whichever it is by then.
forgetSandbox(r) ==
  /\ run[r].at = "leaving"
  /\ sandboxes' = [sandboxes EXCEPT ![run[r].build] = 0]
  /\ setRun(r, idle)
  /\ UNCHANGED <<build, blueprints, quota, passes, alive, history>>

-----------------------------------------------------------------------------
(* The process dies with its handlers and its maps, and starts again:      *)
(* reconcileOrphanedBuilds runs before the first request.                  *)

inCall(b) == {r \in Request : run[r].build = b /\
               run[r].at \in {"requirements", "architecture", "security", "reviewing"}}

\* Builds that wait for a person are left alone.
reconciled(row) ==
  IF row.status = "RUNNING" THEN [row EXCEPT !.status = "ABANDONED"] ELSE row

restart ==
  /\ build' = [b \in Build |-> reconciled(build[b])]
  /\ run' = [r \in Request |-> idle]
  /\ sandboxes' = [b \in Build |-> 0]
  /\ orphaned' = [b \in Build |-> orphaned[b] + Cardinality(inCall(b))]
  /\ astray' = astray \cup {b \in Build : \E s \in alive : s[1] = b}
  /\ UNCHANGED <<blueprints, quota, passes, alive, overlapped>>

-----------------------------------------------------------------------------
users ==
  \E b \in Build :
    \/ createBuild(b) \/ approve(b) \/ abandon(b)
    \/ \E buildable \in BOOLEAN : editBlueprint(b, buildable)
    \/ \E r \in Request : design(r, b) \/ startBuild(r, b)

\* What a request in progress does next; each of its awaits answers or throws.
handlerStep(r) ==
  \/ requirements(r) \/ architecture(r) \/ security(r) \/ designFails(r)
  \/ createSandbox(r) \/ writeFiles(r) \/ tested(r) \/ repaired(r) \/ simulate(r)
  \/ reviewed(r) \/ buildFails(r) \/ destroySandbox(r) \/ forgetSandbox(r)

Next == users \/ restart \/ \E r \in Request : handlerStep(r)

\* Awaits settle: model calls and sandbox commands have timeouts.
Fairness == \A r \in Request : WF_vars(handlerStep(r))

Spec == Init /\ [][Next]_vars /\ Fairness

-----------------------------------------------------------------------------
(* Properties.                                                             *)

TypeOK ==
  /\ build \in [Build -> Row]
  /\ blueprints \in [Build -> Seq(BOOLEAN)]
  /\ \A b \in Build : Len(blueprints[b]) <= MaxRevision
  /\ quota \in [Build -> [held : Nat, used : Nat]]
  /\ passes \in [Build -> [count : Nat, green : SUBSET (1..MaxBuildRevision)]]
  /\ sandboxes \in [Build -> 0..MaxBuildRevision]
  /\ alive \subseteq Build \X (1..MaxBuildRevision)
  /\ run \in [Request -> Run]
  /\ orphaned \in [Build -> Nat] /\ overlapped \subseteq Build /\ astray \subseteq Build

\* A reservation is HELD exactly while its model call is in flight, or because
\* the process died during the call: no path through callModel, the advisory
\* reviews or the catch blocks loses one or frees one twice, so the budget
\* neither leaks away nor is spent again (quota.ts reserve, settle, release).
HeldIsInFlight ==
  \A b \in Build : quota[b].held = Cardinality(inCall(b)) + orphaned[b]

\* However many requests race for a build's last model requests, it overshoots
\* the limit by no more than what the calls that were in flight at that moment
\* made beyond the one request each had reserved (quota.ts reserve).
OvershootIsBounded ==
  \A b \in Build :
    quota[b].used + quota[b].held <=
      modelRequestsPerBuild
        + Cardinality(Request) * ((CHOOSE n \in Usage : \A m \in Usage : m <= n) - 1)

\* A COMPLETED build has a complete green pass for its present build revision,
\* unless two runs of it overlapped: no retry, repair, abandonment, restart or
\* ceiling in between lets an older pass stand for it (runBuild).
CompletedIsProven ==
  \A b \in Build :
    build[b].status = "COMPLETED" /\ b \notin overlapped =>
      build[b].buildRevision \in passes[b].green

\* The ceiling on mandatory passes holds at its edge: a build has at most that
\* many complete passes, however it is rebuilt (quota.ts assertCanSimulate).
PassesAreCapped ==
  \A b \in Build : Cardinality(passes[b].green) <= maxMandatoryPassesPerBuild

\* A sandbox lives exactly as long as its run needs it: it is there while files
\* are written and tests run, and gone when the run has ended, unless runs of
\* the build overlapped, destroying failed or the process died.
SandboxHasItsRun ==
  /\ \A r \in atPoint("writing") \cup atPoint("testing") \cup atPoint("repairing") :
       mine(r) \in alive \/ run[r].build \in overlapped
  /\ \A s \in alive : s[1] \in overlapped \cup astray
                      \/ \E r \in Request : mine(r) = s

\* Whatever happens to a build run, its row does not stay RUNNING: the slot it
\* holds is let go, also after an exception or a restart (runBuild's catch).
RunLetsGo ==
  \A b \in Build : (building(b) /\ build[b].status = "RUNNING") ~> build[b].status # "RUNNING"

\* What pipeline.ts says of the stages ("a build advances only when
\* deterministic code says the stage's gate passed"): no run generates code
\* from a Blueprint that validation called unbuildable.
OnlyBuildableIsBuilt ==
  \A r \in atPoint("creating") : run[r].buildable
=============================================================================
