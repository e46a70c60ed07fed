---------------------------- MODULE PipelineProofs ----------------------------
(***************************************************************************)
(* What StudioPipeline promises, for any number of builds, requests and    *)
(* revisions, any usage a call can turn out to have, any policy limits and *)
(* any number of restarts.                                                 *)
(***************************************************************************)
EXTENDS StudioPipeline, FiniteSetTheorems, TLAPS

Designing == {"requirements", "architecture", "security"}
Holding   == {"writing", "testing", "repairing"}
Working   == Holding \cup {"simulating", "reviewing", "destroying"}
Building  == Working \cup {"creating", "leaving"}
Calling   == {"requirements", "architecture", "security", "reviewing"}

\* What the locals of a request say of its build.
RunSound(r) ==
  LET b == run[r].build IN
  /\ run[r].at = "idle" => run[r] = idle
  /\ run[r].at \in Designing => b \in Build /\ run[r].buildRevision = 0
  /\ run[r].at \in Building =>
       /\ b \in Build /\ run[r].buildRevision # 0
       /\ run[r].buildRevision <= build[b].buildRevision
       /\ b \notin overlapped => run[r].buildRevision = build[b].buildRevision
  /\ run[r].at = "security" => blueprints[b] # <<>>
  /\ run[r].at = "reviewing" /\ run[r].green => run[r].buildRevision \in passes[b].green

\* What a build's row says of its Blueprints and its passes.
BuildSound(b) ==
  /\ build[b].stage = "AWAITING_APPROVAL" \/ build[b].approved => blueprints[b] # <<>>
  /\ build[b].status = "COMPLETED" /\ b \notin overlapped =>
       build[b].buildRevision \in passes[b].green
  /\ IsFiniteSet(passes[b].green)
  /\ Cardinality(passes[b].green) <= passes[b].count
  /\ Cardinality(passes[b].green) <= maxMandatoryPassesPerBuild

\* What a build run without a rival knows about its sandbox.
SandboxSound(r) ==
  LET b == run[r].build IN
  run[r].at \in Building /\ b \notin overlapped =>
    /\ run[r].at = "creating" => mine(r) \notin alive
    /\ run[r].at \in Holding => mine(r) \in alive
    /\ run[r].at \in Working => sandboxes[b] = run[r].buildRevision
    /\ run[r].at = "leaving" => mine(r) \notin alive \/ b \in astray

\* Builds that never had two runs at once have one run at most.
OneRun ==
  \A r, q \in Request :
    /\ run[r].at \in Building /\ run[q].at \in Building
    /\ run[r].build = run[q].build /\ run[r].build \notin overlapped
    => r = q

\* A sandbox that exists belongs to a run, or is known to be lost.
AliveSound ==
  \A s \in alive :
    /\ s[2] <= build[s[1]].buildRevision
    /\ \/ s[1] \in overlapped \cup astray
       \/ \E r \in Request : run[r].at \in Building /\ mine(r) = s

PipelineInv ==
  /\ TypeOK
  /\ \A r \in Request : RunSound(r)
  /\ \A b \in Build : BuildSound(b)
  /\ HeldIsInFlight
  /\ \A r \in Request : SandboxSound(r)
  /\ OneRun
  /\ AliveSound

-----------------------------------------------------------------------------
(* The effects the actions are made of.                                    *)

\* The idle request is a request.
LEMMA IdleRun == idle \in Run /\ idle.at = "idle"
BY PipelineAssumption DEF idle, Run, Point

\* A request's handler updates its build's row and its own locals: what must be
\* known of the new row and the new locals.
LEMMA RowsKeep ==
  ASSUME PipelineInv, NEW r \in Request, NEW b \in Build, NEW row \in Row, NEW new \in Run,
         build' = [build EXCEPT ![b] = row], run' = [run EXCEPT ![r] = new],
         row.buildRevision = build[b].buildRevision, row.approved = build[b].approved,
         \/ row.stage # "AWAITING_APPROVAL" \/ row.stage = build[b].stage
         \/ blueprints'[b] # <<>>,
         \/ row.status # "COMPLETED" \/ row.status = build[b].status
         \/ b \in overlapped \/ row.buildRevision \in passes'[b].green,
         \A c \in Build : blueprints[c] # <<>> => blueprints'[c] # <<>>,
         \A c \in Build :
           /\ passes[c].green \subseteq passes'[c].green
           /\ IsFiniteSet(passes'[c].green)
           /\ Cardinality(passes'[c].green) <= passes'[c].count
           /\ Cardinality(passes'[c].green) <= maxMandatoryPassesPerBuild,
         UNCHANGED overlapped,
         \/ new = idle
         \/ /\ new.build = b /\ new.at \in Designing /\ new.buildRevision = 0
            /\ new.at = "security" => blueprints'[b] # <<>>
         \/ /\ new.build = b /\ run[r].build = b
            /\ run[r].at \in Building /\ new.at \in Building
            /\ new.buildRevision = run[r].buildRevision
            /\ new.at = "reviewing" /\ new.green => new.buildRevision \in passes'[b].green
  PROVE  /\ build' \in [Build -> Row] /\ run' \in [Request -> Run]
         /\ (\A q \in Request : RunSound(q))'
         /\ (\A c \in Build : BuildSound(c))'
<1>1. build \in [Build -> Row] /\ run \in [Request -> Run]
  BY DEF PipelineInv, TypeOK
<1>2. build' \in [Build -> Row] /\ run' \in [Request -> Run]
  BY <1>1
<1>3. \A c \in Build : build'[c].buildRevision = build[c].buildRevision
  BY <1>1
<1>4. ASSUME NEW q \in Request PROVE RunSound(q)'
  <2>1. RunSound(q)
    BY DEF PipelineInv
  <2>2. CASE q # r
    <3>1. run'[q] = run[q]
      BY <1>1, <2>2
    <3>2. run[q].at = "security" \/ run[q].at = "reviewing" => run[q].build \in Build
      BY <2>1 DEF RunSound, Designing, Building, Working
    <3> QED BY <1>3, <2>1, <3>1, <3>2 DEF RunSound
  <2>3. CASE q = r
    <3>1. run'[q] = new
      BY <1>1, <2>3
    <3>2. CASE new = idle
      BY <3>1, <3>2, IdleRun DEF RunSound, Designing, Building, Working, Holding
    <3>3. CASE /\ new.build = b /\ new.at \in Designing /\ new.buildRevision = 0
               /\ new.at = "security" => blueprints'[b] # <<>>
      BY <3>1, <3>3 DEF RunSound, Designing, Building, Working, Holding
    <3>4. CASE /\ new.build = b /\ run[r].build = b
               /\ run[r].at \in Building /\ new.at \in Building
               /\ new.buildRevision = run[r].buildRevision
               /\ new.at = "reviewing" /\ new.green => new.buildRevision \in passes'[b].green
      BY <1>3, <2>1, <2>3, <3>1, <3>4 DEF RunSound, Designing, Building, Working, Holding
    <3> QED BY <3>2, <3>3, <3>4
  <2> QED BY <2>2, <2>3
<1>5. ASSUME NEW c \in Build PROVE BuildSound(c)'
  <2>1. BuildSound(c) /\ BuildSound(b)
    BY DEF PipelineInv
  <2>2. CASE c # b
    <3>1. build'[c] = build[c]
      BY <1>1, <2>2
    <3> QED BY <2>1, <3>1 DEF BuildSound
  <2>3. CASE c = b
    <3>1. build'[c] = row
      BY <1>1, <2>3
    <3> QED BY <2>1, <2>3, <3>1 DEF BuildSound
  <2> QED BY <2>2, <2>3
<1> QED BY <1>2, <1>4, <1>5

\* The reservation a request holds follows the call it is in.
LEMMA HeldKeeps ==
  ASSUME PipelineInv, NEW r \in Request, NEW b \in Build, NEW new \in Run, NEW held \in Int,
         NEW used \in Nat,
         run' = [run EXCEPT ![r] = new],
         quota' = [quota EXCEPT ![b] = [held |-> held, used |-> used]],
         run[r].at \in Calling => run[r].build = b,
         new.at \in Calling => new.build = b,
         held = quota[b].held - (IF run[r].at \in Calling THEN 1 ELSE 0)
                              + (IF new.at \in Calling THEN 1 ELSE 0),
         UNCHANGED orphaned
  PROVE  HeldIsInFlight' /\ quota' \in [Build -> [held : Nat, used : Nat]]
<1>1. /\ run \in [Request -> Run] /\ quota \in [Build -> [held : Nat, used : Nat]]
      /\ orphaned \in [Build -> Nat]
  BY DEF PipelineInv, TypeOK
<1>2. \A q \in Request : run'[q] = IF q = r THEN new ELSE run[q]
  BY <1>1
<1>3. ASSUME NEW c \in Build
      PROVE  /\ IsFiniteSet(inCall(c)) /\ Cardinality(inCall(c)) \in Nat
             /\ quota[c].held = Cardinality(inCall(c)) + orphaned[c]
             /\ inCall(c)' = {q \in Request : run'[q].build = c /\ run'[q].at \in Calling}
             /\ inCall(c) = {q \in Request : run[q].build = c /\ run[q].at \in Calling}
  BY PipelineAssumption, FS_Subset, FS_CardinalityType
     DEF PipelineInv, HeldIsInFlight, inCall, Calling
<1>4. ASSUME NEW c \in Build, c # b PROVE inCall(c)' = inCall(c)
  <2>1. \A q \in Request : (run'[q].build = c /\ run'[q].at \in Calling)
                            <=> (run[q].build = c /\ run[q].at \in Calling)
    BY <1>2, <1>4
  <2> QED BY <1>3, <2>1
<1>5. inCall(b)' = IF new.at \in Calling THEN inCall(b) \cup {r} ELSE inCall(b) \ {r}
  BY <1>2, <1>3
<1>6. r \in inCall(b) <=> run[r].at \in Calling
  BY <1>3
<1>7. Cardinality(inCall(b)') = held - orphaned[b]
  <2>0. quota[b].held = Cardinality(inCall(b)) + orphaned[b] /\ Cardinality(inCall(b)) \in Nat
        /\ orphaned[b] \in Nat /\ IsFiniteSet(inCall(b))
    BY <1>1, <1>3
  <2>1. CASE new.at \in Calling
    <3>1. Cardinality(inCall(b) \cup {r}) =
            IF r \in inCall(b) THEN Cardinality(inCall(b)) ELSE Cardinality(inCall(b)) + 1
      BY <2>0, FS_AddElement
    <3> QED BY <1>5, <1>6, <2>0, <2>1, <3>1
  <2>2. CASE new.at \notin Calling
    <3>1. Cardinality(inCall(b) \ {r}) =
            IF r \in inCall(b) THEN Cardinality(inCall(b)) - 1 ELSE Cardinality(inCall(b))
      BY <2>0, FS_RemoveElement
    <3> QED BY <1>5, <1>6, <2>0, <2>2, <3>1
  <2> QED BY <2>1, <2>2
<1>8. IsFiniteSet(inCall(b)')
  <2>1. IsFiniteSet(inCall(b) \cup {r}) /\ IsFiniteSet(inCall(b) \ {r})
    BY <1>3, FS_AddElement, FS_RemoveElement
  <2> QED BY <1>5, <2>1
<1>9. held \in Nat /\ held = Cardinality(inCall(b)') + orphaned[b]
  BY <1>1, <1>7, <1>8, FS_CardinalityType
<1>10. quota' \in [Build -> [held : Nat, used : Nat]] /\ quota'[b].held = held
       /\ \A c \in Build : c # b => quota'[c] = quota[c]
  BY <1>1, <1>9
<1>11. HeldIsInFlight'
  <2> SUFFICES ASSUME NEW c \in Build
               PROVE  quota'[c].held = Cardinality(inCall(c)') + orphaned'[c]
    BY DEF HeldIsInFlight
  <2>1. CASE c = b
    BY <1>9, <1>10, <2>1
  <2>2. CASE c # b
    BY <1>3, <1>4, <1>10, <2>2
  <2> QED BY <2>1, <2>2
<1> QED BY <1>10, <1>11

\* No sandbox comes or goes: a design request, or a build run between making
\* its sandbox and destroying it, which never goes back to using one.
LEMMA SandboxQuiet ==
  ASSUME PipelineInv, NEW r \in Request, NEW new \in Run, run' = [run EXCEPT ![r] = new],
         \A c \in Build : build'[c].buildRevision = build[c].buildRevision,
         UNCHANGED <<sandboxes, alive, overlapped, astray>>,
         \/ run[r].at \notin Building /\ new.at \notin Building
         \/ /\ run[r].at \in Working /\ new.at \in Working
            /\ new.build = run[r].build /\ new.buildRevision = run[r].buildRevision
            /\ new.at \in Holding => run[r].at \in Holding
  PROVE  /\ (\A q \in Request : SandboxSound(q))' /\ OneRun' /\ AliveSound'
<1>1. \A q \in Request : run'[q] = IF q = r THEN new ELSE run[q]
  BY DEF PipelineInv, TypeOK
<1>2. Working \subseteq Building /\ Holding \subseteq Working
      /\ "creating" \notin Working /\ "leaving" \notin Working
  BY DEF Building, Working, Holding
<1>3. \A q \in Request : run'[q].at \in Building =>
        run[q].at \in Building /\ mine(q)' = mine(q) /\ run'[q].build = run[q].build
        /\ run'[q].buildRevision = run[q].buildRevision
  BY <1>1, <1>2 DEF mine
<1>4. (\A q \in Request : SandboxSound(q))'
  BY <1>1, <1>2, <1>3 DEF PipelineInv, SandboxSound
<1>5. OneRun'
  BY <1>3 DEF PipelineInv, OneRun
<1>6. AliveSound'
  <2> SUFFICES ASSUME NEW s \in alive
               PROVE  /\ s[2] <= build'[s[1]].buildRevision
                      /\ \/ s[1] \in overlapped \cup astray
                         \/ \E q \in Request : run'[q].at \in Building /\ mine(q)' = s
    BY DEF AliveSound
  <2>1. s[1] \in Build
    BY DEF PipelineInv, TypeOK
  <2>2. \A q \in Request : run[q].at \in Building =>
          run'[q].at \in Building /\ mine(q)' = mine(q)
    BY <1>1, <1>2 DEF mine
  <2> QED BY <2>1, <2>2 DEF PipelineInv, AliveSound
<1> QED BY <1>4, <1>5, <1>6

\* The sets a request moves in are apart.
LEMMA Apart ==
  /\ Working \subseteq Building /\ Holding \subseteq Working /\ Designing \subseteq Calling
  /\ Designing \cap Building = {} /\ "idle" \notin Building \cup Designing \cup Calling
  /\ "reviewing" \in Working /\ Calling \subseteq Designing \cup {"reviewing"}
  /\ "reviewing" \notin Holding /\ "destroying" \in Working /\ "destroying" \notin Holding
  /\ "destroying" \notin Calling /\ "reviewing" \in Calling /\ Holding \cap Calling = {}
  /\ "simulating" \in Working /\ "simulating" \notin Holding \cup Calling
BY DEF Working, Building, Holding, Designing, Calling

\* One stretch of a design request: to its next model call, or to its end.
LEMMA DesignKeeps ==
  ASSUME PipelineInv, NEW r \in Request, NEW b \in Build, NEW row \in Row, NEW new \in Run,
         NEW held \in Int, NEW used \in Nat,
         build' = [build EXCEPT ![b] = row], run' = [run EXCEPT ![r] = new],
         quota' = [quota EXCEPT ![b] = [held |-> held, used |-> used]],
         run[r].at \in Designing \cup {"idle"}, run[r].at \in Designing => run[r].build = b,
         row.buildRevision = build[b].buildRevision, row.approved = build[b].approved,
         \/ row.stage # "AWAITING_APPROVAL" \/ row.stage = build[b].stage
         \/ blueprints'[b] # <<>>,
         row.status # "COMPLETED" \/ row.status = build[b].status,
         blueprints' \in [Build -> Seq(BOOLEAN)],
         \A c \in Build : Len(blueprints'[c]) <= MaxRevision,
         \A c \in Build : blueprints[c] # <<>> => blueprints'[c] # <<>>,
         held = quota[b].held - (IF run[r].at \in Calling THEN 1 ELSE 0)
                              + (IF new.at \in Calling THEN 1 ELSE 0),
         \/ new = idle
         \/ /\ new.build = b /\ new.at \in Designing /\ new.buildRevision = 0
            /\ new.at = "security" => blueprints'[b] # <<>>,
         UNCHANGED <<passes, sandboxes, alive, history>>
  PROVE  PipelineInv'
<1> USE DEF history
<1>1. /\ \A c \in Build : /\ IsFiniteSet(passes[c].green)
                          /\ Cardinality(passes[c].green) <= passes[c].count
                          /\ Cardinality(passes[c].green) <= maxMandatoryPassesPerBuild
  BY DEF PipelineInv, BuildSound
<1>2. /\ build' \in [Build -> Row] /\ run' \in [Request -> Run]
      /\ (\A q \in Request : RunSound(q))'
      /\ (\A c \in Build : BuildSound(c))'
  BY <1>1, RowsKeep
<1>3. (run[r].at \in Calling => run[r].build = b) /\ (new.at \in Calling => new.build = b)
  BY Apart, IdleRun
<1>4. HeldIsInFlight' /\ quota' \in [Build -> [held : Nat, used : Nat]]
  BY <1>3, HeldKeeps
<1>5. \A c \in Build : build'[c].buildRevision = build[c].buildRevision
  BY DEF PipelineInv, TypeOK
<1>6. run[r].at \notin Building /\ new.at \notin Building
  BY Apart, IdleRun
<1>7. (\A q \in Request : SandboxSound(q))' /\ OneRun' /\ AliveSound'
  BY <1>5, <1>6, SandboxQuiet
<1>8. TypeOK'
  BY <1>2, <1>4 DEF PipelineInv, TypeOK
<1> QED BY <1>2, <1>4, <1>7, <1>8 DEF PipelineInv

\* Green passes are kept, and counted.
PassesGrow ==
  /\ passes' \in [Build -> [count : Nat, green : SUBSET (1..MaxBuildRevision)]]
  /\ \A c \in Build :
       /\ passes[c].green \subseteq passes'[c].green
       /\ IsFiniteSet(passes'[c].green)
       /\ Cardinality(passes'[c].green) <= passes'[c].count
       /\ Cardinality(passes'[c].green) <= maxMandatoryPassesPerBuild

\* One stretch of a build run between making its sandbox and destroying it.
LEMMA WorkKeeps ==
  ASSUME PipelineInv, NEW r \in Request, NEW b \in Build, NEW row \in Row, NEW new \in Run,
         build' = [build EXCEPT ![b] = row], run' = [run EXCEPT ![r] = new],
         HeldIsInFlight', quota' \in [Build -> [held : Nat, used : Nat]],
         run[r].at \in Working, run[r].build = b, new.at \in Working,
         new.build = b, new.buildRevision = run[r].buildRevision,
         new.at \in Holding => run[r].at \in Holding,
         row.buildRevision = build[b].buildRevision, row.approved = build[b].approved,
         row.stage # "AWAITING_APPROVAL" \/ row.stage = build[b].stage,
         \/ row.status # "COMPLETED" \/ row.status = build[b].status
         \/ new.buildRevision \in passes'[b].green,
         PassesGrow,
         new.at # "reviewing" \/ new.green = FALSE \/ new.buildRevision \in passes'[b].green,
         UNCHANGED <<blueprints, sandboxes, alive, history>>
  PROVE  PipelineInv'
<1> USE DEF history, PassesGrow
<1>1. b \notin overlapped => new.buildRevision = row.buildRevision
  BY Apart DEF PipelineInv, RunSound
<1>2. run[r].at \in Building /\ new.at \in Building
  BY Apart
<1>3. /\ build' \in [Build -> Row] /\ run' \in [Request -> Run]
      /\ (\A q \in Request : RunSound(q))'
      /\ (\A c \in Build : BuildSound(c))'
  BY <1>1, <1>2, RowsKeep
<1>5. \A c \in Build : build'[c].buildRevision = build[c].buildRevision
  BY DEF PipelineInv, TypeOK
<1>6. (\A q \in Request : SandboxSound(q))' /\ OneRun' /\ AliveSound'
  BY <1>5, SandboxQuiet
<1>7. TypeOK'
  BY <1>3 DEF PipelineInv, TypeOK
<1> QED BY <1>3, <1>6, <1>7 DEF PipelineInv

-----------------------------------------------------------------------------
(* Design requests.                                                        *)

\* What a request in a design call knows.
LEMMA InDesign ==
  ASSUME PipelineInv, NEW r \in Request, run[r].at \in Designing
  PROVE  /\ run[r] \in Run /\ run[r].build \in Build /\ run[r].buildRevision = 0
         /\ build[run[r].build] \in Row /\ quota[run[r].build] \in [held : Nat, used : Nat]
         /\ run[r].at = "security" => blueprints[run[r].build] # <<>>
         /\ run[r].at \in Calling
BY Apart DEF PipelineInv, RunSound, TypeOK

\* Settled and released reservations are one fewer.
LEMMA Settled ==
  ASSUME NEW q \in [held : Nat, used : Nat], NEW p \in settled(q) \cup {released(q)}
  PROVE  p = [held |-> q.held - 1, used |-> p.used] /\ p.used \in Nat
<1>1. CASE p \in settled(q)
  BY <1>1, PipelineAssumption DEF settled
<1>2. CASE p = released(q)
  BY <1>2 DEF released
<1> QED BY <1>1, <1>2

\* callModel, with the reservations as they are when the last call is settled.
LEMMA CallKeeps ==
  ASSUME PipelineInv, NEW r \in Request, NEW b \in Build, NEW row \in Row, NEW held \in Int,
         NEW used \in Nat, NEW point \in {"requirements", "architecture"},
         callModel(r, b, [held |-> held, used |-> used], row, point),
         run[r] \in Run, run[r].buildRevision = 0,
         run[r].at \in Designing \cup {"idle"}, run[r].at \in Designing => run[r].build = b,
         row.buildRevision = build[b].buildRevision, row.approved = build[b].approved,
         row.stage # "AWAITING_APPROVAL", row.status = build[b].status,
         held = quota[b].held - (IF run[r].at \in Calling THEN 1 ELSE 0),
         UNCHANGED <<blueprints, passes, sandboxes, alive, history>>
  PROVE  PipelineInv'
<1> DEFINE q == [held |-> held, used |-> used]
<1>0. quota[b].held \in Nat
  BY DEF PipelineInv, TypeOK
<1>1. blueprints' \in [Build -> Seq(BOOLEAN)] /\ \A c \in Build : Len(blueprints'[c]) <= MaxRevision
  BY DEF PipelineInv, TypeOK
<1>2. CASE affordable(q)
  <2> DEFINE new == [run[r] EXCEPT !.at = point, !.build = b]
  <2>1. /\ build' = [build EXCEPT ![b] = row] /\ run' = [run EXCEPT ![r] = new]
        /\ quota' = [quota EXCEPT ![b] = reserved(q)]
    BY <1>2 DEF callModel, setQuota, setRow, setRun
  <2>2. reserved(q) = [held |-> held + 1, used |-> used]
    BY DEF reserved
  <2>3. new \in Run /\ new.build = b /\ new.at = point /\ new.buildRevision = 0
    BY DEF Run, Point
  <2> HIDE DEF new, q
  <2>4. point \in Designing /\ point \in Calling /\ point # "security"
    BY DEF Designing, Calling
  <2>5. /\ held + 1 \in Int
        /\ held + 1 = quota[b].held - (IF run[r].at \in Calling THEN 1 ELSE 0)
                                   + (IF new.at \in Calling THEN 1 ELSE 0)
    BY <1>0, <2>3, <2>4
  <2>6. quota' = [quota EXCEPT ![b] = [held |-> held + 1, used |-> used]]
    BY <2>1, <2>2
  <2>7. new.at \in Designing /\ (new.at = "security" => blueprints'[b] # <<>>)
    BY <2>3, <2>4
  <2>8. build' = [build EXCEPT ![b] = row] /\ run' = [run EXCEPT ![r] = new]
    BY <2>1
  <2> QED BY <1>1, <2>3, <2>5, <2>6, <2>7, <2>8, DesignKeeps
<1>3. CASE ~affordable(q)
  <2> DEFINE stopped == [row EXCEPT !.status = "BUILD_LIMIT_REACHED"]
  <2>1. /\ build' = [build EXCEPT ![b] = stopped] /\ run' = [run EXCEPT ![r] = idle]
        /\ quota' = [quota EXCEPT ![b] = q]
    BY <1>3 DEF callModel, setQuota, setRow, setRun
  <2>2. stopped \in Row /\ stopped.buildRevision = row.buildRevision
        /\ stopped.approved = row.approved /\ stopped.stage = row.stage
        /\ stopped.status = "BUILD_LIMIT_REACHED"
    BY DEF Row, Status
  <2> HIDE DEF stopped
  <2>3. idle.at \notin Calling
    BY IdleRun, Apart
  <2>4. held = quota[b].held - (IF run[r].at \in Calling THEN 1 ELSE 0)
                             + (IF idle.at \in Calling THEN 1 ELSE 0)
    BY <1>0, <2>3
  <2> QED BY <1>1, <2>1, <2>2, <2>4, IdleRun, DesignKeeps
<1> QED BY <1>2, <1>3

\* design keeps the invariant.
LEMMA design_Keeps ==
  ASSUME PipelineInv, NEW r \in Request, NEW b \in Build, design(r, b) PROVE PipelineInv'
<1> DEFINE row == [build[b] EXCEPT !.stage = "REQUIREMENTS"]
<1>1. run[r] \in Run /\ run[r].buildRevision = 0 /\ run[r].at = "idle"
  BY IdleRun DEF design, PipelineInv, TypeOK, RunSound, idle
<1>2. build[b] \in Row /\ quota[b] \in [held : Nat, used : Nat]
  BY DEF PipelineInv, TypeOK
<1>3. row \in Row /\ row.buildRevision = build[b].buildRevision
      /\ row.approved = build[b].approved /\ row.stage = "REQUIREMENTS"
      /\ row.status = build[b].status
  BY <1>2 DEF Row, Stage
<1>4. callModel(r, b, quota[b], row, "requirements")
      /\ UNCHANGED <<blueprints, passes, sandboxes, alive, history>>
  BY DEF design
<1>5. quota[b] = [held |-> quota[b].held, used |-> quota[b].used]
  BY <1>2
<1> HIDE DEF row
<1> QED BY <1>1, <1>2, <1>3, <1>4, <1>5, Apart, CallKeeps

\* requirements keeps the invariant.
LEMMA requirements_Keeps ==
  ASSUME PipelineInv, NEW r \in Request, requirements(r) PROVE PipelineInv'
<1>0. run[r].at \in Designing
  BY DEF requirements, Designing
<1>1. PICK b \in Build : b = run[r].build
  BY <1>0, InDesign
<1> DEFINE row == [build[b] EXCEPT !.stage = "BLUEPRINT"]
<1>2. /\ run[r] \in Run /\ run[r].buildRevision = 0 /\ run[r].at \in Calling
      /\ build[b] \in Row /\ quota[b] \in [held : Nat, used : Nat]
  BY <1>0, <1>1, InDesign
<1>3. row \in Row /\ row.buildRevision = build[b].buildRevision
      /\ row.approved = build[b].approved /\ row.stage = "BLUEPRINT"
      /\ row.status = build[b].status
  BY <1>2 DEF Row, Stage
<1>4. PICK q \in settled(quota[b]) : callModel(r, b, q, row, "architecture")
  BY <1>1 DEF requirements
<1>5. q = [held |-> quota[b].held - 1, used |-> q.used] /\ q.used \in Nat
  BY <1>2, Settled
<1>6. UNCHANGED <<blueprints, passes, sandboxes, alive, history>>
  BY DEF requirements
<1>7. quota[b].held - 1 \in Int
  BY <1>2
<1> HIDE DEF row
<1> QED BY <1>0, <1>1, <1>2, <1>3, <1>4, <1>5, <1>6, <1>7, CallKeeps

\* The boundary's row, and what is known of the Blueprint by then.
LEMMA BoundaryRow ==
  ASSUME NEW b \in Build, NEW buildable \in BOOLEAN, boundary(b, buildable), build[b] \in Row
  PROVE  \E row \in Row :
           /\ build' = [build EXCEPT ![b] = row]
           /\ row.buildRevision = build[b].buildRevision /\ row.approved = build[b].approved
           /\ row.status # "COMPLETED"
<1>1. CASE buildable
  <2> DEFINE row == [build[b] EXCEPT !.stage = "AWAITING_APPROVAL",
                                     !.status = "AWAITING_APPROVAL"]
  <2>1. row \in Row /\ row.buildRevision = build[b].buildRevision
        /\ row.approved = build[b].approved /\ row.status # "COMPLETED"
    BY DEF Row, Stage, Status
  <2>2. build' = [build EXCEPT ![b] = row]
    BY <1>1 DEF boundary, setRow
  <2> HIDE DEF row
  <2> QED BY <2>1, <2>2
<1>2. CASE ~buildable
  <2> DEFINE row == [build[b] EXCEPT !.stage = "SECURITY_REVIEW",
                                     !.status = "BUILD_NEEDS_USER_REVIEW"]
  <2>1. row \in Row /\ row.buildRevision = build[b].buildRevision
        /\ row.approved = build[b].approved /\ row.status # "COMPLETED"
    BY DEF Row, Stage, Status
  <2>2. build' = [build EXCEPT ![b] = row]
    BY <1>2 DEF boundary, setRow
  <2> HIDE DEF row
  <2> QED BY <2>1, <2>2
<1> QED BY <1>1, <1>2

\* architecture keeps the invariant: revision 1 is there from here on.
LEMMA architecture_Keeps ==
  ASSUME PipelineInv, NEW r \in Request, architecture(r) PROVE PipelineInv'
<1>0. run[r].at \in Designing
  BY DEF architecture, Designing
<1>1. PICK b \in Build : b = run[r].build
  BY <1>0, InDesign
<1>2. /\ run[r] \in Run /\ run[r].buildRevision = 0 /\ run[r].at \in Calling
      /\ build[b] \in Row /\ quota[b] \in [held : Nat, used : Nat]
  BY <1>0, <1>1, InDesign
<1>3. PICK q \in settled(quota[b]), buildable \in BOOLEAN :
        /\ blueprints' = [blueprints EXCEPT ![b] =
                            IF @ = <<>> THEN <<buildable>> ELSE [@ EXCEPT ![1] = buildable]]
        /\ IF affordable(q)
             THEN /\ setQuota(b, reserved(q))
                  /\ setRow(b, [build[b] EXCEPT !.stage = "SECURITY_REVIEW"])
                  /\ setRun(r, [run[r] EXCEPT !.at = "security", !.buildable = buildable])
             ELSE setQuota(b, q) /\ boundary(b, buildable) /\ setRun(r, idle)
  BY <1>1 DEF architecture
<1>4. q = [held |-> quota[b].held - 1, used |-> q.used] /\ q.used \in Nat
  BY <1>2, Settled
<1>5. UNCHANGED <<passes, sandboxes, alive, history>>
  BY DEF architecture
<1>6. /\ blueprints' \in [Build -> Seq(BOOLEAN)] /\ blueprints'[b] # <<>>
      /\ \A c \in Build : Len(blueprints'[c]) <= MaxRevision
      /\ \A c \in Build : blueprints[c] # <<>> => blueprints'[c] # <<>>
  <2>1. /\ blueprints \in [Build -> Seq(BOOLEAN)]
        /\ \A c \in Build : Len(blueprints[c]) <= MaxRevision
    BY DEF PipelineInv, TypeOK
  <2> DEFINE next == IF blueprints[b] = <<>> THEN <<buildable>>
                     ELSE [blueprints[b] EXCEPT ![1] = buildable]
  <2>2. blueprints' = [blueprints EXCEPT ![b] = next]
    BY <1>3
  <2>3. next \in Seq(BOOLEAN) /\ next # <<>> /\ Len(next) <= MaxRevision
    <3>1. CASE blueprints[b] = <<>>
      BY <3>1, PipelineAssumption
    <3>2. CASE blueprints[b] # <<>>
      <4>1. blueprints[b] \in Seq(BOOLEAN) /\ 1 \in 1..Len(blueprints[b])
        BY <2>1, <3>2
      <4>2. next \in Seq(BOOLEAN) /\ Len(next) = Len(blueprints[b])
        BY <3>2, <4>1
      <4> QED BY <2>1, <4>1, <4>2
    <3> QED BY <3>1, <3>2
  <2> HIDE DEF next
  <2> QED BY <2>1, <2>2, <2>3
<1>7. CASE affordable(q)
  <2> DEFINE new == [run[r] EXCEPT !.at = "security", !.buildable = buildable]
             row == [build[b] EXCEPT !.stage = "SECURITY_REVIEW"]
  <2>1. /\ build' = [build EXCEPT ![b] = row] /\ run' = [run EXCEPT ![r] = new]
        /\ quota' = [quota EXCEPT ![b] = [held |-> quota[b].held, used |-> q.used]]
    BY <1>2, <1>3, <1>4, <1>7 DEF setQuota, setRow, setRun, reserved
  <2>2. row \in Row /\ row.buildRevision = build[b].buildRevision
        /\ row.approved = build[b].approved /\ row.stage = "SECURITY_REVIEW"
        /\ row.status = build[b].status
    BY <1>2 DEF Row, Stage
  <2>3. new \in Run /\ new.build = b /\ new.at = "security" /\ new.buildRevision = 0
    BY <1>1, <1>2 DEF Run, Point
  <2> HIDE DEF new, row
  <2>4. "security" \in Designing /\ "security" \in Calling
    BY DEF Designing, Calling
  <2>5. quota[b].held \in Int
        /\ quota[b].held = quota[b].held - (IF run[r].at \in Calling THEN 1 ELSE 0)
                                         + (IF new.at \in Calling THEN 1 ELSE 0)
    BY <1>2, <2>3, <2>4
  <2> QED BY <1>0, <1>1, <1>4, <1>5, <1>6, <2>1, <2>2, <2>3, <2>4, <2>5, DesignKeeps
<1>8. CASE ~affordable(q)
  <2>1. PICK row \in Row :
          /\ build' = [build EXCEPT ![b] = row]
          /\ row.buildRevision = build[b].buildRevision /\ row.approved = build[b].approved
          /\ row.status # "COMPLETED"
    BY <1>2, <1>3, <1>8, BoundaryRow
  <2>2. run' = [run EXCEPT ![r] = idle]
        /\ quota' = [quota EXCEPT ![b] = [held |-> quota[b].held - 1, used |-> q.used]]
    BY <1>3, <1>4, <1>8 DEF setQuota, setRun
  <2>3. quota[b].held - 1 \in Int
        /\ quota[b].held - 1 = quota[b].held - (IF run[r].at \in Calling THEN 1 ELSE 0)
                                             + (IF idle.at \in Calling THEN 1 ELSE 0)
    BY <1>2, IdleRun, Apart
  <2> QED BY <1>0, <1>1, <1>4, <1>5, <1>6, <2>1, <2>2, <2>3, IdleRun, DesignKeeps
<1> QED BY <1>7, <1>8

\* A design request ends with a row that claims nothing new.
LEMMA DesignEnds ==
  ASSUME PipelineInv, NEW r \in Request, run[r].at \in Designing,
         NEW b \in Build, b = run[r].build, NEW row \in Row,
         build' = [build EXCEPT ![b] = row], run' = [run EXCEPT ![r] = idle],
         NEW q \in settled(quota[b]) \cup {released(quota[b])}, setQuota(b, q),
         row.buildRevision = build[b].buildRevision, row.approved = build[b].approved,
         \/ row.stage # "AWAITING_APPROVAL" \/ row.stage = build[b].stage
         \/ blueprints[b] # <<>>,
         row.status # "COMPLETED" \/ row.status = build[b].status,
         UNCHANGED <<blueprints, passes, sandboxes, alive, history>>
  PROVE  PipelineInv'
<1>1. run[r].at \in Calling /\ quota[b] \in [held : Nat, used : Nat]
  BY InDesign
<1>2. q = [held |-> quota[b].held - 1, used |-> q.used] /\ q.used \in Nat
  BY <1>1, Settled
<1>3. quota' = [quota EXCEPT ![b] = [held |-> quota[b].held - 1, used |-> q.used]]
  BY <1>2 DEF setQuota
<1>4. quota[b].held - 1 \in Int
      /\ quota[b].held - 1 = quota[b].held - (IF run[r].at \in Calling THEN 1 ELSE 0)
                                           + (IF idle.at \in Calling THEN 1 ELSE 0)
  BY <1>1, IdleRun, Apart
<1>5. blueprints' \in [Build -> Seq(BOOLEAN)] /\ \A c \in Build : Len(blueprints'[c]) <= MaxRevision
  BY DEF PipelineInv, TypeOK
<1> QED BY <1>2, <1>3, <1>4, <1>5, IdleRun, DesignKeeps

\* security keeps the invariant.
LEMMA security_Keeps ==
  ASSUME PipelineInv, NEW r \in Request, security(r) PROVE PipelineInv'
<1>0. run[r].at \in Designing /\ run[r].at = "security"
  BY DEF security, Designing
<1>1. PICK b \in Build : b = run[r].build
  BY <1>0, InDesign
<1>2. run[r] \in Run /\ build[b] \in Row /\ blueprints[b] # <<>>
  BY <1>0, <1>1, InDesign
<1>3. run[r].buildable \in BOOLEAN
  BY <1>2 DEF Run
<1>4. PICK row \in Row :
        /\ build' = [build EXCEPT ![b] = row]
        /\ row.buildRevision = build[b].buildRevision /\ row.approved = build[b].approved
        /\ row.status # "COMPLETED"
  BY <1>1, <1>2, <1>3, BoundaryRow DEF security
<1>5. PICK q \in settled(quota[b]) \cup {released(quota[b])} : setQuota(b, q)
  BY <1>1 DEF security
<1>6. run' = [run EXCEPT ![r] = idle] /\ UNCHANGED <<blueprints, passes, sandboxes, alive, history>>
  BY DEF security, setRun
<1> QED BY <1>0, <1>1, <1>2, <1>4, <1>5, <1>6, DesignEnds

\* designFails keeps the invariant.
LEMMA designFails_Keeps ==
  ASSUME PipelineInv, NEW r \in Request, designFails(r) PROVE PipelineInv'
<1>0. run[r].at \in Designing
  BY DEF designFails, Designing
<1>1. PICK b \in Build : b = run[r].build
  BY <1>0, InDesign
<1>2. build[b] \in Row /\ build \in [Build -> Row]
  BY <1>0, <1>1, InDesign DEF PipelineInv, TypeOK
<1>3. PICK q \in settled(quota[b]) \cup {released(quota[b])} : setQuota(b, q)
  BY <1>1 DEF designFails
<1>4. run' = [run EXCEPT ![r] = idle] /\ UNCHANGED <<blueprints, passes, sandboxes, alive, history>>
  BY DEF designFails, setRun
<1>5. CASE UNCHANGED build
  <2>1. build' = [build EXCEPT ![b] = build[b]]
    BY <1>2, <1>5
  <2> QED BY <1>0, <1>1, <1>2, <1>3, <1>4, <2>1, DesignEnds
<1>6. CASE setRow(b, [build[b] EXCEPT !.status = "BUILD_PAUSED_UPSTREAM_LIMIT"])
  <2> DEFINE row == [build[b] EXCEPT !.status = "BUILD_PAUSED_UPSTREAM_LIMIT"]
  <2>1. row \in Row /\ row.buildRevision = build[b].buildRevision
        /\ row.approved = build[b].approved /\ row.stage = build[b].stage
        /\ row.status # "COMPLETED"
    BY <1>2 DEF Row, Status
  <2>2. build' = [build EXCEPT ![b] = row]
    BY <1>6 DEF setRow
  <2> HIDE DEF row
  <2> QED BY <1>0, <1>1, <1>3, <1>4, <2>1, <2>2, DesignEnds
<1> QED BY <1>1, <1>5, <1>6 DEF designFails

-----------------------------------------------------------------------------
(* Build runs.                                                             *)

\* What a build run knows.
LEMMA InBuild ==
  ASSUME PipelineInv, NEW r \in Request, run[r].at \in Building
  PROVE  /\ run[r] \in Run /\ run[r].build \in Build
         /\ run[r].buildRevision \in 1..MaxBuildRevision
         /\ run[r].buildRevision <= build[run[r].build].buildRevision
         /\ run[r].build \notin overlapped =>
              run[r].buildRevision = build[run[r].build].buildRevision
         /\ build[run[r].build] \in Row /\ quota[run[r].build] \in [held : Nat, used : Nat]
         /\ build \in [Build -> Row] /\ mine(r) \in Build \X (1..MaxBuildRevision)
         /\ mine(r) = <<run[r].build, run[r].buildRevision>>
<1>1. run[r] \in Run /\ run[r].build \in Build /\ run[r].buildRevision \in 0..MaxBuildRevision
      /\ run[r].buildRevision # 0
  BY DEF PipelineInv, TypeOK, RunSound, Run
<1>2. run[r].buildRevision \in 1..MaxBuildRevision
  BY <1>1, PipelineAssumption
<1> QED BY <1>1, <1>2 DEF PipelineInv, TypeOK, RunSound, mine

\* The passes of every build, as they are.
LEMMA PassesSound ==
  ASSUME PipelineInv, NEW c \in Build
  PROVE  /\ passes[c] \in [count : Nat, green : SUBSET (1..MaxBuildRevision)]
         /\ IsFiniteSet(passes[c].green)
         /\ Cardinality(passes[c].green) <= passes[c].count
         /\ Cardinality(passes[c].green) <= maxMandatoryPassesPerBuild
BY DEF PipelineInv, TypeOK, BuildSound

\* The passes stay as they are.
LEMMA PassesSame ==
  ASSUME PipelineInv, UNCHANGED passes PROVE PassesGrow
<1>1. passes \in [Build -> [count : Nat, green : SUBSET (1..MaxBuildRevision)]]
  BY DEF PipelineInv, TypeOK
<1> QED BY <1>1, PassesSound DEF PassesGrow

\* The reservations stay as they are, and the request is in no call.
LEMMA HeldQuiet ==
  ASSUME PipelineInv, NEW r \in Request, NEW new \in Run, run' = [run EXCEPT ![r] = new],
         run[r].at \notin Calling, new.at \notin Calling, UNCHANGED <<quota, orphaned>>
  PROVE  HeldIsInFlight' /\ quota' \in [Build -> [held : Nat, used : Nat]]
<1>1. \A c \in Build : inCall(c)' = inCall(c)
  <2>1. \A q \in Request : run'[q] = IF q = r THEN new ELSE run[q]
    BY DEF PipelineInv, TypeOK
  <2> QED BY <2>1 DEF inCall, Calling
<1> QED BY <1>1 DEF PipelineInv, TypeOK, HeldIsInFlight

\* A stretch of a build run without a model call and without a pass.
LEMMA WorkQuiet ==
  ASSUME PipelineInv, NEW r \in Request, NEW b \in Build, b = run[r].build, NEW row \in Row,
         NEW point \in Working, goTo(r, point), build' = [build EXCEPT ![b] = row],
         run[r].at \in Working, run[r].at \notin Calling, point \notin Calling,
         point \in Holding => run[r].at \in Holding,
         row.buildRevision = build[b].buildRevision, row.approved = build[b].approved,
         row.stage # "AWAITING_APPROVAL" \/ row.stage = build[b].stage,
         row.status # "COMPLETED" \/ row.status = build[b].status,
         UNCHANGED <<blueprints, quota, passes, sandboxes, alive, history>>
  PROVE  PipelineInv'
<1> DEFINE new == [run[r] EXCEPT !.at = point]
<1>1. run[r] \in Run /\ quota[b] \in [held : Nat, used : Nat] /\ quota \in [Build -> [held : Nat, used : Nat]]
  BY Apart, InBuild DEF PipelineInv, TypeOK
<1>2. point \in Point /\ point # "reviewing"
  BY DEF Working, Holding, Point, Calling
<1>3. new \in Run /\ new.at = point /\ new.build = b /\ new.buildRevision = run[r].buildRevision
  BY <1>1, <1>2 DEF Run
<1>4. run' = [run EXCEPT ![r] = new]
  BY DEF goTo, setRun
<1> HIDE DEF new
<1>6. HeldIsInFlight' /\ quota' \in [Build -> [held : Nat, used : Nat]]
  BY <1>3, <1>4, HeldQuiet DEF history
<1>8. PassesGrow
  BY PassesSame
<1>9. /\ new.at \in Working /\ (new.at \in Holding => run[r].at \in Holding)
      /\ new.at # "reviewing"
  BY <1>2, <1>3
<1>10. UNCHANGED <<blueprints, sandboxes, alive, history>>
  OBVIOUS
<1>11. /\ run[r].build = b
       /\ row.stage # "AWAITING_APPROVAL" \/ row.stage = build[b].stage
       /\ \/ row.status # "COMPLETED" \/ row.status = build[b].status
          \/ new.buildRevision \in passes'[b].green
  BY <1>9
<1> QED BY <1>3, <1>4, <1>6, <1>8, <1>9, <1>10, <1>11, WorkKeeps

\* endBuild keeps the invariant.
LEMMA endBuild_Keeps ==
  ASSUME PipelineInv, NEW r \in Request, NEW b \in Build, b = run[r].build,
         NEW status \in Status, status # "COMPLETED" \/ status = build[b].status,
         endBuild(r, b, status), run[r].at \in Working, run[r].at \notin Calling,
         UNCHANGED <<blueprints, quota, passes, sandboxes, alive, history>>
  PROVE  PipelineInv'
<1> DEFINE row == [build[b] EXCEPT !.status = status]
<1>1. build[b] \in Row
  BY Apart, InBuild
<1>2. row \in Row /\ row.stage = build[b].stage /\ row.status = status
      /\ row.buildRevision = build[b].buildRevision /\ row.approved = build[b].approved
  BY <1>1 DEF Row
<1>3. build' = [build EXCEPT ![b] = row] /\ goTo(r, "destroying")
  BY DEF endBuild, setRow
<1> HIDE DEF row
<1> QED BY <1>2, <1>3, Apart, WorkQuiet

\* writeFiles keeps the invariant.
LEMMA writeFiles_Keeps ==
  ASSUME PipelineInv, NEW r \in Request, writeFiles(r) PROVE PipelineInv'
<1>0. /\ run[r].at \in Holding /\ run[r].at \in Working /\ run[r].at \notin Calling
      /\ UNCHANGED <<blueprints, quota, passes, sandboxes, alive, history>>
  BY Apart DEF writeFiles, Holding
<1>1. PICK b \in Build : b = run[r].build /\ build[b] \in Row
  BY <1>0, Apart, InBuild
<1>2. CASE endBuild(r, b, "BUILD_NEEDS_USER_REVIEW")
  BY <1>0, <1>1, <1>2, endBuild_Keeps DEF Status
<1>3. CASE setRow(b, [build[b] EXCEPT !.stage = "TEST"]) /\ goTo(r, "testing")
  <2> DEFINE row == [build[b] EXCEPT !.stage = "TEST"]
  <2>1. row \in Row /\ row.stage = "TEST" /\ row.status = build[b].status
        /\ row.buildRevision = build[b].buildRevision /\ row.approved = build[b].approved
    BY <1>1 DEF Row, Stage
  <2>2. build' = [build EXCEPT ![b] = row]
    BY <1>3 DEF setRow
  <2>3. "testing" \in Holding /\ "testing" \in Working /\ "testing" \notin Calling
    BY DEF Holding, Working, Calling
  <2> HIDE DEF row
  <2> QED BY <1>0, <1>1, <1>3, <2>1, <2>2, <2>3, WorkQuiet
<1> QED BY <1>1, <1>2, <1>3 DEF writeFiles

\* tested keeps the invariant.
LEMMA tested_Keeps ==
  ASSUME PipelineInv, NEW r \in Request, tested(r) PROVE PipelineInv'
<1>0. /\ run[r].at \in Holding /\ run[r].at \in Working /\ run[r].at \notin Calling
      /\ UNCHANGED <<blueprints, quota, passes, sandboxes, alive, history>>
  BY Apart DEF tested, Holding
<1>1. PICK b \in Build : b = run[r].build /\ build[b] \in Row
  BY <1>0, Apart, InBuild
<1>2. CASE endBuild(r, b, "BUILD_NEEDS_USER_REVIEW")
  BY <1>0, <1>1, <1>2, endBuild_Keeps DEF Status
<1>3. CASE setRow(b, [build[b] EXCEPT !.stage = "SIMULATE"]) /\ goTo(r, "simulating")
  <2> DEFINE row == [build[b] EXCEPT !.stage = "SIMULATE"]
  <2>1. row \in Row /\ row.stage = "SIMULATE" /\ row.status = build[b].status
        /\ row.buildRevision = build[b].buildRevision /\ row.approved = build[b].approved
    BY <1>1 DEF Row, Stage
  <2>2. build' = [build EXCEPT ![b] = row]
    BY <1>3 DEF setRow
  <2> HIDE DEF row
  <2> QED BY <1>0, <1>1, <1>3, <2>1, <2>2, Apart, WorkQuiet
<1>4. CASE /\ build[b].repairCycles < autoRepairLoops
           /\ setRow(b, [build[b] EXCEPT !.repairCycles = @ + 1, !.stage = "REPAIR"])
           /\ goTo(r, "repairing")
  <2> DEFINE row == [build[b] EXCEPT !.repairCycles = @ + 1, !.stage = "REPAIR"]
  <2>0. build[b].repairCycles + 1 \in 0..autoRepairLoops
    BY <1>1, <1>4, PipelineAssumption DEF Row
  <2>1. row \in Row /\ row.stage = "REPAIR" /\ row.status = build[b].status
        /\ row.buildRevision = build[b].buildRevision /\ row.approved = build[b].approved
    BY <1>1, <2>0 DEF Row, Stage
  <2>2. build' = [build EXCEPT ![b] = row]
    BY <1>4 DEF setRow
  <2>3. "repairing" \in Holding /\ "repairing" \in Working /\ "repairing" \notin Calling
    BY DEF Holding, Working, Calling
  <2> HIDE DEF row
  <2> QED BY <1>0, <1>1, <1>4, <2>1, <2>2, <2>3, WorkQuiet
<1> QED BY <1>1, <1>2, <1>3, <1>4 DEF tested

\* repaired keeps the invariant.
LEMMA repaired_Keeps ==
  ASSUME PipelineInv, NEW r \in Request, repaired(r) PROVE PipelineInv'
<1>0. /\ run[r].at \in Holding /\ run[r].at \in Working /\ run[r].at \notin Calling
      /\ UNCHANGED <<build, blueprints, quota, passes, sandboxes, alive, history>>
      /\ goTo(r, "testing")
  BY Apart DEF repaired, Holding
<1>1. PICK b \in Build : b = run[r].build /\ build[b] \in Row /\ build \in [Build -> Row]
  BY <1>0, Apart, InBuild
<1>2. build' = [build EXCEPT ![b] = build[b]]
  BY <1>0, <1>1
<1>3. "testing" \in Holding /\ "testing" \in Working /\ "testing" \notin Calling
  BY DEF Holding, Working, Calling
<1> QED BY <1>0, <1>1, <1>2, <1>3, WorkQuiet

\* buildFails keeps the invariant.
LEMMA buildFails_Keeps ==
  ASSUME PipelineInv, NEW r \in Request, buildFails(r) PROVE PipelineInv'
<1>0. /\ run[r].at \in Working /\ run[r].at \notin Calling
      /\ UNCHANGED <<blueprints, quota, passes, sandboxes, alive, history>>
  BY DEF buildFails, Holding, Working, Calling
<1>1. PICK b \in Build : b = run[r].build /\ build[b] \in Row
  BY <1>0, Apart, InBuild
<1>2. PICK status \in Status :
        /\ endBuild(r, b, status) /\ (status # "COMPLETED" \/ status = build[b].status)
  BY <1>1 DEF buildFails, Row, Status
<1> QED BY <1>0, <1>1, <1>2, endBuild_Keeps

\* What one pass can add.
LEMMA PassOutcome ==
  ASSUME NEW p \in [count : Nat, green : SUBSET (1..MaxBuildRevision)],
         NEW outcome \in passOutcome(p)
  PROVE  /\ outcome[1] \in Nat /\ outcome[2] \in BOOLEAN /\ outcome[1] >= p.count
         /\ outcome[2] => outcome[1] = p.count + 1 /\ p.count < maxMandatoryPassesPerBuild
<1>1. p.count \in Nat /\ maxMandatoryPassesPerBuild \in Nat
  BY PipelineAssumption
<1>2. \/ outcome = <<p.count + 1, TRUE>> /\ p.count < maxMandatoryPassesPerBuild
      \/ outcome = <<p.count + 1, FALSE>>
      \/ outcome = <<p.count, FALSE>>
  BY <1>1 DEF passOutcome
<1>3. /\ outcome[1] = p.count + 1 \/ outcome[1] = p.count
      /\ outcome[2] \in BOOLEAN
      /\ outcome[2] => outcome[1] = p.count + 1 /\ p.count < maxMandatoryPassesPerBuild
  <2>1. CASE outcome = <<p.count + 1, TRUE>> /\ p.count < maxMandatoryPassesPerBuild
    BY <2>1
  <2>2. CASE outcome = <<p.count + 1, FALSE>>
    BY <2>2
  <2>3. CASE outcome = <<p.count, FALSE>>
    BY <2>3
  <2> QED BY <1>2, <2>1, <2>2, <2>3
<1> QED BY <1>1, <1>3

\* The passes of every build after one of them had one more.
LEMMA PassesKeep ==
  ASSUME PipelineInv, NEW b \in Build, NEW revision \in 1..MaxBuildRevision,
         NEW outcome \in passOutcome(passes[b]),
         passes' = [passes EXCEPT ![b].count = outcome[1], ![b].green =
                      IF outcome[2] THEN @ \cup {revision} ELSE @]
  PROVE  /\ PassesGrow /\ outcome[2] \in BOOLEAN
         /\ outcome[2] => revision \in passes'[b].green
<1> DEFINE green == IF outcome[2] THEN passes[b].green \cup {revision} ELSE passes[b].green
<1>1. passes \in [Build -> [count : Nat, green : SUBSET (1..MaxBuildRevision)]]
  BY DEF PipelineInv, TypeOK
<1>2. /\ outcome[1] \in Nat /\ outcome[2] \in BOOLEAN /\ outcome[1] >= passes[b].count
      /\ outcome[2] => outcome[1] = passes[b].count + 1
                        /\ passes[b].count < maxMandatoryPassesPerBuild
  BY <1>1, PassOutcome
<1>3. /\ passes'[b].count = outcome[1] /\ passes'[b].green = green
      /\ passes'[b] = [count |-> outcome[1], green |-> green]
      /\ \A c \in Build : c # b => passes'[c] = passes[c]
      /\ DOMAIN passes' = Build /\ passes' = [c \in Build |-> passes'[c]]
  BY <1>1
<1>4. green \in SUBSET (1..MaxBuildRevision)
  BY <1>1
<1>5. passes' \in [Build -> [count : Nat, green : SUBSET (1..MaxBuildRevision)]]
  BY <1>1, <1>2, <1>3, <1>4
<1>6. /\ IsFiniteSet(green) /\ Cardinality(green) <= outcome[1]
      /\ Cardinality(green) <= maxMandatoryPassesPerBuild
  <2>0. /\ IsFiniteSet(passes[b].green) /\ Cardinality(passes[b].green) <= passes[b].count
        /\ Cardinality(passes[b].green) <= maxMandatoryPassesPerBuild
        /\ Cardinality(passes[b].green) \in Nat /\ passes[b].count \in Nat
    BY <1>1, PassesSound, FS_CardinalityType
  <2>1. CASE outcome[2]
    <3>1. IsFiniteSet(green) /\
          (Cardinality(green) = Cardinality(passes[b].green)
             \/ Cardinality(green) = Cardinality(passes[b].green) + 1)
      BY <2>0, <2>1, FS_AddElement
    <3> QED BY <1>2, <2>0, <2>1, <3>1, PipelineAssumption
  <2>2. CASE ~outcome[2]
    BY <1>2, <2>0, <2>2
  <2> QED BY <2>1, <2>2
<1>7. passes[b].green \subseteq green /\ (outcome[2] => revision \in green)
  OBVIOUS
<1> HIDE DEF green
<1>8. ASSUME NEW c \in Build
      PROVE  /\ passes[c].green \subseteq passes'[c].green
             /\ IsFiniteSet(passes'[c].green)
             /\ Cardinality(passes'[c].green) <= passes'[c].count
             /\ Cardinality(passes'[c].green) <= maxMandatoryPassesPerBuild
  <2>1. CASE c = b
    BY <1>3, <1>6, <1>7, <2>1
  <2>2. CASE c # b
    BY <1>3, <2>2, PassesSound
  <2> QED BY <2>1, <2>2
<1> QED BY <1>2, <1>3, <1>5, <1>7, <1>8 DEF PassesGrow

\* The last gate gives a build run its row and sends it to finally.
LEMMA GateRow ==
  ASSUME NEW r \in Request, run[r] \in Run, NEW b, NEW row \in Row, NEW green \in BOOLEAN,
         gate(r, b, row, green)
  PROVE  \E last \in Row, new \in Run :
           /\ build' = [build EXCEPT ![b] = last] /\ run' = [run EXCEPT ![r] = new]
           /\ last.buildRevision = row.buildRevision /\ last.approved = row.approved
           /\ last.stage = row.stage \/ last.stage = "EXPORT_READY"
           /\ last.status # "COMPLETED" \/ green
           /\ new.at = "destroying" /\ new.build = run[r].build
           /\ new.buildRevision = run[r].buildRevision
<1> DEFINE new  == [run[r] EXCEPT !.at = "destroying", !.green = FALSE]
           good == [row EXCEPT !.stage = "EXPORT_READY", !.status = "COMPLETED"]
           bad  == [row EXCEPT !.status = "BUILD_NEEDS_USER_REVIEW"]
<1>1. /\ new \in Run /\ new.at = "destroying" /\ new.build = run[r].build
      /\ new.buildRevision = run[r].buildRevision
  BY DEF Run, Point
<1>2. /\ good \in Row /\ good.buildRevision = row.buildRevision /\ good.approved = row.approved
      /\ good.stage = "EXPORT_READY"
  BY DEF Row, Stage, Status
<1>3. /\ bad \in Row /\ bad.buildRevision = row.buildRevision /\ bad.approved = row.approved
      /\ bad.stage = row.stage /\ bad.status # "COMPLETED"
  BY DEF Row, Status
<1>4. /\ run' = [run EXCEPT ![r] = new]
      /\ \/ build' = [build EXCEPT ![b] = good] /\ green
         \/ build' = [build EXCEPT ![b] = bad]
  BY DEF gate, setRow, setRun
<1> HIDE DEF new, good, bad
<1> QED BY <1>1, <1>2, <1>3, <1>4

\* simulate keeps the invariant.
LEMMA simulate_Keeps ==
  ASSUME PipelineInv, NEW r \in Request, simulate(r) PROVE PipelineInv'
<1>0. /\ run[r].at = "simulating" /\ run[r].at \in Working /\ run[r].at \notin Calling
      /\ UNCHANGED <<blueprints, sandboxes, alive, history>>
  BY Apart DEF simulate
<1>1. PICK b \in Build : b = run[r].build
  BY <1>0, Apart, InBuild
<1>2. /\ run[r] \in Run /\ build[b] \in Row /\ quota[b] \in [held : Nat, used : Nat]
      /\ run[r].buildRevision \in 1..MaxBuildRevision
      /\ quota \in [Build -> [held : Nat, used : Nat]]
  BY <1>0, <1>1, Apart, InBuild DEF PipelineInv, TypeOK
<1> DEFINE row == [build[b] EXCEPT !.stage = "FINAL_VERIFY"]
<1>3. row \in Row /\ row.stage = "FINAL_VERIFY" /\ row.status = build[b].status
      /\ row.buildRevision = build[b].buildRevision /\ row.approved = build[b].approved
  BY <1>2 DEF Row, Stage
<1>4. PICK outcome \in passOutcome(passes[b]) :
        /\ passes' = [passes EXCEPT ![b].count = outcome[1], ![b].green =
                        IF outcome[2] THEN @ \cup {run[r].buildRevision} ELSE @]
        /\ IF affordable(quota[b])
             THEN /\ setQuota(b, reserved(quota[b])) /\ setRow(b, row)
                  /\ setRun(r, [run[r] EXCEPT !.at = "reviewing", !.green = outcome[2]])
             ELSE UNCHANGED quota /\ gate(r, b, row, outcome[2])
  BY <1>1 DEF simulate
<1> HIDE DEF row
<1>5. PassesGrow /\ outcome[2] \in BOOLEAN
      /\ (outcome[2] => run[r].buildRevision \in passes'[b].green)
  BY <1>2, <1>4, PassesKeep
<1>6. CASE affordable(quota[b])
  <2> DEFINE new == [run[r] EXCEPT !.at = "reviewing", !.green = outcome[2]]
  <2>1. /\ new \in Run /\ new.at = "reviewing" /\ new.build = b /\ new.green = outcome[2]
        /\ new.buildRevision = run[r].buildRevision
    BY <1>1, <1>2, <1>5 DEF Run, Point
  <2>2. /\ build' = [build EXCEPT ![b] = row] /\ run' = [run EXCEPT ![r] = new]
    BY <1>4, <1>6 DEF setRow, setRun
  <2> HIDE DEF new
  <2>3. PICK held \in Int, used \in Nat : held = quota[b].held + 1 /\ used = quota[b].used
    BY <1>2
  <2>4. reserved(quota[b]) = [held |-> held, used |-> used]
    BY <1>2, <2>3 DEF reserved
  <2>5. quota' = [quota EXCEPT ![b] = [held |-> held, used |-> used]]
    BY <1>4, <1>6, <2>4 DEF setQuota
  <2>6. held = quota[b].held - (IF run[r].at \in Calling THEN 1 ELSE 0)
                             + (IF new.at \in Calling THEN 1 ELSE 0)
    BY <1>0, <1>2, <2>1, <2>3, Apart
  <2>7. HeldIsInFlight' /\ quota' \in [Build -> [held : Nat, used : Nat]]
    BY <1>0, <1>1, <2>1, <2>2, <2>5, <2>6, HeldKeeps DEF history
  <2>8. new.green = FALSE \/ new.buildRevision \in passes'[b].green
    BY <1>5, <2>1
  <2> QED BY <1>0, <1>1, <1>3, <1>5, <2>1, <2>2, <2>7, <2>8, Apart, WorkKeeps
<1>7. CASE ~affordable(quota[b])
  <2>0. PICK green \in BOOLEAN : green = outcome[2]
    BY <1>5
  <2>1. UNCHANGED quota /\ gate(r, b, row, green)
    BY <1>4, <1>7, <2>0
  <2>2. PICK last \in Row, new \in Run :
          /\ build' = [build EXCEPT ![b] = last] /\ run' = [run EXCEPT ![r] = new]
          /\ last.buildRevision = row.buildRevision /\ last.approved = row.approved
          /\ last.stage = row.stage \/ last.stage = "EXPORT_READY"
          /\ last.status # "COMPLETED" \/ green
          /\ new.at = "destroying" /\ new.build = run[r].build
          /\ new.buildRevision = run[r].buildRevision
    BY <1>2, <1>3, <2>0, <2>1, GateRow
  <2>3. HeldIsInFlight' /\ quota' \in [Build -> [held : Nat, used : Nat]]
    BY <1>0, <1>1, <1>2, <2>1, <2>2, HeldQuiet, Apart DEF history
  <2>4. last.status # "COMPLETED" \/ new.buildRevision \in passes'[b].green
    BY <1>5, <2>0, <2>2
  <2>5. /\ last.stage # "AWAITING_APPROVAL" /\ new.at \in Working /\ new.at # "reviewing"
        /\ new.at \in Holding => run[r].at \in Holding
    BY <1>3, <2>2, Apart
  <2> QED BY <1>0, <1>1, <1>3, <1>5, <2>2, <2>3, <2>4, <2>5, WorkKeeps
<1> QED BY <1>6, <1>7

\* reviewed keeps the invariant.
LEMMA reviewed_Keeps ==
  ASSUME PipelineInv, NEW r \in Request, reviewed(r) PROVE PipelineInv'
<1>0. /\ run[r].at = "reviewing" /\ run[r].at \in Working /\ run[r].at \in Calling
      /\ UNCHANGED <<blueprints, passes, sandboxes, alive, history>>
  BY Apart DEF reviewed
<1>1. PICK b \in Build : b = run[r].build
  BY <1>0, Apart, InBuild
<1>2. /\ run[r] \in Run /\ build[b] \in Row /\ quota[b] \in [held : Nat, used : Nat]
  BY <1>0, <1>1, Apart, InBuild
<1>3. PICK q \in settled(quota[b]) \cup {released(quota[b])} :
        quota' = [quota EXCEPT ![b] = q]
  BY <1>1 DEF reviewed, setQuota
<1>4. q = [held |-> quota[b].held - 1, used |-> q.used] /\ q.used \in Nat
  BY <1>2, <1>3, Settled
<1>4a. PICK green \in BOOLEAN : green = run[r].green
  BY <1>2 DEF Run
<1>4b. PICK row \in Row : row = build[b]
  BY <1>2
<1>4c. run[r] \in Run /\ row \in Row /\ green \in BOOLEAN
  BY <1>2, <1>4a, <1>4b
<1>5. gate(r, b, row, green)
  BY <1>1, <1>4a, <1>4b DEF reviewed
<1>6. PICK last \in Row, new \in Run :
        /\ build' = [build EXCEPT ![b] = last] /\ run' = [run EXCEPT ![r] = new]
        /\ last.buildRevision = row.buildRevision /\ last.approved = row.approved
        /\ last.stage = row.stage \/ last.stage = "EXPORT_READY"
        /\ last.status # "COMPLETED" \/ green
        /\ new.at = "destroying" /\ new.build = run[r].build
        /\ new.buildRevision = run[r].buildRevision
  BY <1>4c, <1>5, GateRow
<1>7. PICK held \in Int, used \in Nat : held = quota[b].held - 1 /\ used = q.used
  BY <1>2, <1>4
<1>8. quota' = [quota EXCEPT ![b] = [held |-> held, used |-> used]]
  BY <1>3, <1>4, <1>7
<1>9. held = quota[b].held - (IF run[r].at \in Calling THEN 1 ELSE 0)
                           + (IF new.at \in Calling THEN 1 ELSE 0)
  BY <1>0, <1>2, <1>6, <1>7, Apart
<1>10. HeldIsInFlight' /\ quota' \in [Build -> [held : Nat, used : Nat]]
  BY <1>0, <1>1, <1>6, <1>8, <1>9, HeldKeeps, Apart DEF history
<1>11. run[r].green => run[r].buildRevision \in passes[b].green
  BY <1>0, <1>1 DEF PipelineInv, RunSound
<1>12. PassesGrow
  BY <1>0, PassesSame
<1>13. last.status # "COMPLETED" \/ new.buildRevision \in passes'[b].green
  BY <1>0, <1>4a, <1>6, <1>11
<1>14. UNCHANGED <<blueprints, sandboxes, alive, history>>
  BY <1>0
<1>15. /\ new.at \in Working /\ new.at # "reviewing"
       /\ new.at \in Holding => run[r].at \in Holding
       /\ last.stage # "AWAITING_APPROVAL" \/ last.stage = build[b].stage
  BY <1>4b, <1>6, Apart
<1> QED BY <1>0, <1>1, <1>4b, <1>6, <1>10, <1>12, <1>13, <1>14, <1>15, WorkKeeps

\* A build run makes or drops its sandbox: what does not depend on which.
LEMMA BuildMoves ==
  ASSUME PipelineInv, NEW r \in Request, NEW b \in Build, b = run[r].build, NEW row \in Row,
         NEW new \in Run, build' = [build EXCEPT ![b] = row], run' = [run EXCEPT ![r] = new],
         run[r].at \in Building, run[r].at \notin Calling,
         \/ new = idle
         \/ /\ new.at \in Building /\ new.at \notin Calling /\ new.build = b
            /\ new.buildRevision = run[r].buildRevision,
         row.buildRevision = build[b].buildRevision, row.approved = build[b].approved,
         row.stage = build[b].stage, row.status # "COMPLETED" \/ row.status = build[b].status,
         UNCHANGED <<blueprints, quota, passes, orphaned, overlapped>>,
         sandboxes' \in [Build -> 0..MaxBuildRevision],
         alive' \subseteq Build \X (1..MaxBuildRevision), astray' \subseteq Build
  PROVE  /\ TypeOK' /\ (\A q \in Request : RunSound(q))' /\ (\A c \in Build : BuildSound(c))'
         /\ HeldIsInFlight'
<1>1. /\ build \in [Build -> Row] /\ run \in [Request -> Run]
      /\ \A c \in Build : /\ IsFiniteSet(passes[c].green)
                          /\ Cardinality(passes[c].green) <= passes[c].count
                          /\ Cardinality(passes[c].green) <= maxMandatoryPassesPerBuild
  BY PassesSound DEF PipelineInv, TypeOK
<1>2. new.at \notin Calling /\ (new # idle => new.at # "reviewing")
  BY IdleRun, Apart
<1>3. /\ build' \in [Build -> Row] /\ run' \in [Request -> Run]
      /\ (\A q \in Request : RunSound(q))' /\ (\A c \in Build : BuildSound(c))'
  BY <1>1, <1>2, RowsKeep
<1>4. HeldIsInFlight' /\ quota' \in [Build -> [held : Nat, used : Nat]]
  BY <1>2, HeldQuiet
<1>5. TypeOK'
  BY <1>3, <1>4 DEF PipelineInv, TypeOK
<1> QED BY <1>3, <1>4, <1>5

\* A build run ends and leaves the sandboxes that exist alone.
LEMMA RunEnds ==
  ASSUME PipelineInv, NEW r \in Request, NEW b \in Build, b = run[r].build, NEW row \in Row,
         build' = [build EXCEPT ![b] = row], run' = [run EXCEPT ![r] = idle],
         run[r].at \in Building, run[r].at \notin Calling,
         mine(r) \notin alive \/ b \in overlapped \cup astray,
         row.buildRevision = build[b].buildRevision, row.approved = build[b].approved,
         row.stage = build[b].stage, row.status # "COMPLETED" \/ row.status = build[b].status,
         sandboxes' \in [Build -> 0..MaxBuildRevision],
         \A c \in Build : c = b \/ sandboxes'[c] = sandboxes[c],
         UNCHANGED <<blueprints, quota, passes, alive, history>>
  PROVE  PipelineInv'
<1> USE DEF history
<1>1. alive' \subseteq Build \X (1..MaxBuildRevision) /\ astray' \subseteq Build
  BY DEF PipelineInv, TypeOK
<1>2. /\ TypeOK' /\ (\A q \in Request : RunSound(q))' /\ (\A c \in Build : BuildSound(c))'
      /\ HeldIsInFlight'
      /\ \A c \in Build : build'[c].buildRevision = build[c].buildRevision
      /\ \A q \in Request : run'[q] = IF q = r THEN idle ELSE run[q]
  <2>1. UNCHANGED <<blueprints, quota, passes, orphaned, overlapped>>
    OBVIOUS
  <2>2. /\ TypeOK' /\ (\A q \in Request : RunSound(q))' /\ (\A c \in Build : BuildSound(c))'
        /\ HeldIsInFlight'
    BY <1>1, <2>1, IdleRun, BuildMoves
  <2> QED BY <2>2 DEF PipelineInv, TypeOK
<1>3. \A q \in Request : q # r => mine(q)' = mine(q)
  BY <1>2 DEF mine
<1>4. idle.at \notin Building /\ mine(r) = <<b, run[r].buildRevision>>
  BY IdleRun, Apart DEF mine
<1>5. ASSUME NEW q \in Request PROVE SandboxSound(q)'
  <2>1. CASE q = r
    BY <1>2, <1>4, <2>1 DEF SandboxSound
  <2>2. CASE q # r
    <3>1. run'[q] = run[q] /\ mine(q)' = mine(q) /\ SandboxSound(q)
      BY <1>2, <1>3, <2>2 DEF PipelineInv
    <3>2. run[q].at \in Building /\ run[q].build \notin overlapped =>
            sandboxes'[run[q].build] = sandboxes[run[q].build]
      BY <2>2, InBuild DEF PipelineInv, OneRun
    <3> QED BY <3>1, <3>2 DEF SandboxSound
  <2> QED BY <2>1, <2>2
<1>6. OneRun'
  BY <1>2, <1>4 DEF PipelineInv, OneRun
<1>7. AliveSound'
  <2> SUFFICES ASSUME NEW s \in alive
               PROVE  /\ s[2] <= build'[s[1]].buildRevision
                      /\ \/ s[1] \in overlapped \cup astray
                         \/ \E q \in Request : run'[q].at \in Building /\ mine(q)' = s
    BY DEF AliveSound
  <2>1. s[1] \in Build /\ s[2] <= build[s[1]].buildRevision
    BY DEF PipelineInv, TypeOK, AliveSound
  <2>2. CASE s = mine(r)
    BY <1>2, <1>4, <2>1, <2>2
  <2>3. CASE s # mine(r)
    <3>1. \A q \in Request : run[q].at \in Building /\ mine(q) = s =>
            run'[q].at \in Building /\ mine(q)' = s
      BY <1>2, <1>3, <2>3
    <3> QED BY <1>2, <2>1, <3>1 DEF PipelineInv, AliveSound
  <2> QED BY <2>2, <2>3
<1> QED BY <1>2, <1>5, <1>6, <1>7 DEF PipelineInv

\* createSandbox keeps the invariant.
LEMMA createSandbox_Keeps ==
  ASSUME PipelineInv, NEW r \in Request, createSandbox(r) PROVE PipelineInv'
<1> USE DEF history
<1>0. /\ run[r].at = "creating" /\ run[r].at \in Building /\ run[r].at \notin Calling
      /\ run[r].at \notin Working /\ UNCHANGED <<blueprints, quota, passes, history>>
  BY DEF createSandbox, Building, Working, Holding, Calling
<1>1. PICK b \in Build : b = run[r].build
  BY <1>0, InBuild
<1>2. /\ run[r] \in Run /\ build[b] \in Row /\ run[r].buildRevision \in 1..MaxBuildRevision
      /\ build \in [Build -> Row] /\ mine(r) \in Build \X (1..MaxBuildRevision)
      /\ mine(r) = <<b, run[r].buildRevision>> /\ run[r].buildRevision <= build[b].buildRevision
  BY <1>0, <1>1, InBuild
<1>3. /\ sandboxes \in [Build -> 0..MaxBuildRevision] /\ astray \subseteq Build
      /\ alive \subseteq Build \X (1..MaxBuildRevision)
  BY DEF PipelineInv, TypeOK
<1>4. \A q \in Request : q # r /\ run[q].at \in Building /\ run[q].build \notin overlapped
                          => run[q].build # b
  BY <1>0, <1>1 DEF PipelineInv, OneRun
<1>5. CASE /\ sandboxes' = [sandboxes EXCEPT ![b] = run[r].buildRevision]
           /\ alive' = alive \cup {mine(r)}
           /\ setRun(r, [run[r] EXCEPT !.at = "writing", !.buildable = FALSE])
           /\ UNCHANGED build
  <2> DEFINE new == [run[r] EXCEPT !.at = "writing", !.buildable = FALSE]
  <2>1. /\ new \in Run /\ new.at = "writing" /\ new.build = b
        /\ new.buildRevision = run[r].buildRevision
    BY <1>1, <1>2 DEF Run, Point
  <2>2. run' = [run EXCEPT ![r] = new] /\ build' = [build EXCEPT ![b] = build[b]]
    BY <1>2, <1>5 DEF setRun
  <2> HIDE DEF new
  <2>3. new.at \in Building /\ new.at \notin Calling /\ new.at # "creating" /\ new.at # "leaving"
    BY <2>1 DEF Building, Working, Holding, Calling
  <2>4. /\ sandboxes' \in [Build -> 0..MaxBuildRevision] /\ astray' \subseteq Build
        /\ alive' \subseteq Build \X (1..MaxBuildRevision)
    BY <1>0, <1>2, <1>3, <1>5
  <2>5. /\ TypeOK' /\ (\A q \in Request : RunSound(q))' /\ (\A c \in Build : BuildSound(c))'
        /\ HeldIsInFlight'
        /\ \A c \in Build : build'[c].buildRevision = build[c].buildRevision
        /\ \A q \in Request : run'[q] = IF q = r THEN new ELSE run[q]
    <3>1. UNCHANGED <<blueprints, quota, passes, orphaned, overlapped>>
      BY <1>0
    <3>2. /\ TypeOK' /\ (\A q \in Request : RunSound(q))' /\ (\A c \in Build : BuildSound(c))'
          /\ HeldIsInFlight'
      BY <1>0, <1>1, <1>2, <2>1, <2>2, <2>3, <2>4, <3>1, BuildMoves
    <3> QED BY <1>2, <2>2, <3>2 DEF PipelineInv, TypeOK
  <2>6. mine(r)' = mine(r) /\ \A q \in Request : q # r => mine(q)' = mine(q)
    BY <2>1, <2>5, <1>1 DEF mine
  <2>7. ASSUME NEW q \in Request PROVE SandboxSound(q)'
    <3>1. CASE q = r
      BY <1>0, <1>1, <1>2, <1>3, <1>5, <2>1, <2>3, <2>5, <2>6, <3>1 DEF SandboxSound
    <3>2. CASE q # r
      <4>1. run'[q] = run[q] /\ mine(q)' = mine(q) /\ SandboxSound(q)
        BY <2>5, <2>6, <3>2 DEF PipelineInv
      <4>2. run[q].at \in Building /\ run[q].build \notin overlapped =>
              /\ run[q].build \in Build /\ mine(q) # mine(r)
              /\ sandboxes'[run[q].build] = sandboxes[run[q].build]
        BY <1>2, <1>3, <1>4, <1>5, <3>2, InBuild
      <4> QED BY <1>0, <1>5, <4>1, <4>2 DEF SandboxSound
    <3> QED BY <3>1, <3>2
  <2>8. OneRun'
    BY <1>0, <1>1, <2>1, <2>5 DEF PipelineInv, OneRun
  <2>9. AliveSound'
    <3> SUFFICES ASSUME NEW s \in alive'
                 PROVE  /\ s[2] <= build'[s[1]].buildRevision
                        /\ \/ s[1] \in overlapped' \cup astray'
                           \/ \E q \in Request : run'[q].at \in Building /\ mine(q)' = s
      BY DEF AliveSound
    <3>1. CASE s = mine(r)
      BY <1>2, <2>3, <2>5, <2>6, <3>1
    <3>2. CASE s \in alive
      <4>1. \A q \in Request : run[q].at \in Building =>
              run'[q].at \in Building /\ mine(q)' = mine(q)
        BY <2>3, <2>5, <2>6
      <4>2. s[1] \in Build
        BY <1>3, <3>2
      <4> QED BY <1>0, <2>5, <3>2, <4>1, <4>2 DEF PipelineInv, AliveSound
    <3> QED BY <1>5, <3>1, <3>2
  <2> QED BY <2>5, <2>7, <2>8, <2>9 DEF PipelineInv
<1>6. CASE /\ setRow(b, [build[b] EXCEPT !.status = "FAILED"])
           /\ setRun(r, idle) /\ UNCHANGED <<sandboxes, alive>>
  <2> DEFINE row == [build[b] EXCEPT !.status = "FAILED"]
  <2>1. row \in Row /\ row.stage = build[b].stage /\ row.status # "COMPLETED"
        /\ row.buildRevision = build[b].buildRevision /\ row.approved = build[b].approved
    BY <1>2 DEF Row, Status
  <2>2. run' = [run EXCEPT ![r] = idle] /\ build' = [build EXCEPT ![b] = row]
    BY <1>6 DEF setRun, setRow
  <2> HIDE DEF row
  <2>3. mine(r) \notin alive \/ b \in overlapped \cup astray
    BY <1>0, <1>1 DEF PipelineInv, SandboxSound
  <2> QED BY <1>0, <1>1, <1>3, <1>6, <2>1, <2>2, <2>3, RunEnds
<1> QED BY <1>1, <1>5, <1>6 DEF createSandbox

\* destroySandbox keeps the invariant.
LEMMA destroySandbox_Keeps ==
  ASSUME PipelineInv, NEW r \in Request, destroySandbox(r) PROVE PipelineInv'
<1>0. /\ run[r].at = "destroying" /\ run[r].at \in Building /\ run[r].at \notin Calling
      /\ run[r].at \in Working
      /\ UNCHANGED <<build, blueprints, quota, passes, sandboxes, orphaned, overlapped>>
  BY DEF destroySandbox, Building, Working, Holding, Calling
<1>1. PICK b \in Build : b = run[r].build
  BY <1>0, InBuild
<1>2. /\ run[r] \in Run /\ build[b] \in Row /\ run[r].buildRevision \in 1..MaxBuildRevision
      /\ build \in [Build -> Row] /\ mine(r) = <<b, run[r].buildRevision>>
  BY <1>0, <1>1, InBuild
<1>3. /\ sandboxes \in [Build -> 0..MaxBuildRevision] /\ astray \subseteq Build
      /\ alive \subseteq Build \X (1..MaxBuildRevision)
  BY DEF PipelineInv, TypeOK
<1>4. b \notin overlapped => sandboxes[b] = run[r].buildRevision
  BY <1>0, <1>1 DEF PipelineInv, SandboxSound
<1>5. build' = [build EXCEPT ![b] = build[b]]
  BY <1>0, <1>2
<1>6. CASE sandboxes[b] = 0 /\ setRun(r, idle) /\ UNCHANGED <<alive, astray>>
  <2>1. b \in overlapped
    BY <1>2, <1>4, <1>6
  <2>2. run' = [run EXCEPT ![r] = idle] /\ UNCHANGED <<blueprints, quota, passes, alive, history>>
        /\ sandboxes' \in [Build -> 0..MaxBuildRevision]
        /\ \A c \in Build : c = b \/ sandboxes'[c] = sandboxes[c]
    BY <1>0, <1>3, <1>6 DEF setRun, history
  <2> QED BY <1>0, <1>1, <1>2, <1>5, <2>1, <2>2, RunEnds
<1>7. CASE /\ sandboxes[b] # 0 /\ goTo(r, "leaving")
           /\ \/ alive' = alive \ {<<b, sandboxes[b]>>} /\ UNCHANGED astray
              \/ astray' = astray \cup {b} /\ UNCHANGED alive
  <2> DEFINE new == [run[r] EXCEPT !.at = "leaving"]
  <2>1. /\ new \in Run /\ new.at = "leaving" /\ new.build = b
        /\ new.buildRevision = run[r].buildRevision
    BY <1>1, <1>2 DEF Run, Point
  <2>2. run' = [run EXCEPT ![r] = new]
    BY <1>7 DEF goTo, setRun
  <2> HIDE DEF new
  <2>3. /\ new.at \in Building /\ new.at \notin Calling /\ new.at # "creating"
        /\ new.at \notin Working /\ new.at \notin Holding
    BY <2>1 DEF Building, Working, Holding, Calling
  <2>4. /\ sandboxes' \in [Build -> 0..MaxBuildRevision] /\ astray' \subseteq Build
        /\ alive' \subseteq Build \X (1..MaxBuildRevision)
        /\ alive' \subseteq alive /\ astray \subseteq astray'
        /\ \A s \in alive : s \in alive' \/ s = <<b, sandboxes[b]>>
        /\ <<b, sandboxes[b]>> \notin alive' \/ b \in astray'
    BY <1>0, <1>3, <1>7
  <2>5. /\ TypeOK' /\ (\A q \in Request : RunSound(q))' /\ (\A c \in Build : BuildSound(c))'
        /\ HeldIsInFlight'
    <3>1. UNCHANGED <<blueprints, quota, passes, orphaned, overlapped>>
      BY <1>0
    <3>2. PICK row \in Row : row = build[b] /\ build' = [build EXCEPT ![b] = row]
      BY <1>2, <1>5
    <3> QED BY <1>0, <1>1, <2>1, <2>2, <2>3, <2>4, <3>1, <3>2, BuildMoves
  <2>6. \A q \in Request : run'[q] = IF q = r THEN new ELSE run[q]
    BY <2>2 DEF PipelineInv, TypeOK
  <2>7. \A q \in Request : /\ mine(q)' = mine(q) /\ run'[q].build = run[q].build
                           /\ run[q].at \in Building <=> run'[q].at \in Building
    BY <1>0, <1>1, <2>1, <2>3, <2>6 DEF mine
  <2>8. ASSUME NEW q \in Request PROVE SandboxSound(q)'
    <3>1. CASE q = r
      BY <1>0, <1>2, <1>4, <2>1, <2>3, <2>4, <2>6, <2>7, <3>1 DEF SandboxSound
    <3>2. CASE q # r
      <4>1. run'[q] = run[q] /\ mine(q)' = mine(q) /\ SandboxSound(q)
        BY <2>6, <2>7, <3>2 DEF PipelineInv
      <4>2. run[q].at \in Building /\ run[q].build \notin overlapped => run[q].build # b
        BY <1>0, <1>1, <3>2 DEF PipelineInv, OneRun
      <4>3. mine(q) = <<run[q].build, run[q].buildRevision>>
        BY DEF mine
      <4> QED BY <1>0, <2>4, <4>1, <4>2, <4>3 DEF SandboxSound
    <3> QED BY <3>1, <3>2
  <2>9. OneRun'
    BY <1>0, <2>7 DEF PipelineInv, OneRun
  <2>10. AliveSound'
    BY <1>0, <2>4, <2>7 DEF PipelineInv, AliveSound
  <2> QED BY <2>5, <2>8, <2>9, <2>10 DEF PipelineInv
<1> QED BY <1>1, <1>6, <1>7 DEF destroySandbox

\* forgetSandbox keeps the invariant.
LEMMA forgetSandbox_Keeps ==
  ASSUME PipelineInv, NEW r \in Request, forgetSandbox(r) PROVE PipelineInv'
<1>0. /\ run[r].at = "leaving" /\ run[r].at \in Building /\ run[r].at \notin Calling
      /\ run' = [run EXCEPT ![r] = idle] /\ UNCHANGED <<blueprints, quota, passes, alive, history>>
  BY DEF forgetSandbox, setRun, Building, Working, Holding, Calling
<1>1. PICK b \in Build : b = run[r].build
  BY <1>0, InBuild
<1>2. build[b] \in Row /\ build \in [Build -> Row]
  BY <1>0, <1>1, InBuild
<1>3. build' = [build EXCEPT ![b] = build[b]]
  BY <1>2 DEF forgetSandbox
<1>4. mine(r) \notin alive \/ b \in overlapped \cup astray
  BY <1>0, <1>1 DEF PipelineInv, SandboxSound
<1>5. sandboxes' \in [Build -> 0..MaxBuildRevision]
      /\ \A c \in Build : c = b \/ sandboxes'[c] = sandboxes[c]
  BY <1>1, PipelineAssumption DEF forgetSandbox, PipelineInv, TypeOK
<1> QED BY <1>0, <1>1, <1>2, <1>3, <1>4, <1>5, RunEnds

\* startBuild keeps the invariant.
LEMMA startBuild_Keeps ==
  ASSUME PipelineInv, NEW r \in Request, NEW b \in Build, startBuild(r, b) PROVE PipelineInv'
<1> DEFINE revision == build[b].buildRevision + 1
           row == [build[b] EXCEPT !.buildRevision = @ + 1, !.status = "RUNNING", !.stage = "BUILD"]
           new == [idle EXCEPT !.at = "creating", !.build = b,
                     !.buildable = blueprints[b][Len(blueprints[b])], !.buildRevision = revision]
<1>0. /\ run[r].at = "idle" /\ build[b].approved /\ build[b].buildRevision < MaxBuildRevision
      /\ build' = [build EXCEPT ![b] = row] /\ run' = [run EXCEPT ![r] = new]
      /\ overlapped' = IF building(b) THEN overlapped \cup {b} ELSE overlapped
      /\ UNCHANGED <<blueprints, quota, passes, sandboxes, alive, orphaned, astray>>
  BY DEF startBuild, setRow, setRun
<1>1. build \in [Build -> Row] /\ run \in [Request -> Run] /\ build[b] \in Row
      /\ overlapped \subseteq Build /\ blueprints[b] \in Seq(BOOLEAN)
      /\ MaxBuildRevision \in Nat
  BY PipelineAssumption DEF PipelineInv, TypeOK
<1>2. blueprints[b] # <<>>
  BY <1>0 DEF PipelineInv, BuildSound
<1>3. revision \in 1..MaxBuildRevision /\ build[b].buildRevision \in Nat
  BY <1>0, <1>1 DEF Row
<1>4. blueprints[b][Len(blueprints[b])] \in BOOLEAN
  BY <1>1, <1>2
<1>5. /\ row \in Row /\ row.buildRevision = revision /\ row.status = "RUNNING"
      /\ row.stage = "BUILD" /\ row.approved = build[b].approved
  <2>1. build[b].buildRevision + 1 \in 0..MaxBuildRevision
    BY <1>1, <1>3
  <2> QED BY <1>1, <2>1 DEF Row, Stage, Status
<1>6. /\ new \in Run /\ new.at = "creating" /\ new.build = b /\ new.buildRevision = revision
  <2>1. revision \in 0..MaxBuildRevision /\ "creating" \in Point
    BY <1>1, <1>3 DEF Point
  <2>2. PICK buildable \in BOOLEAN : buildable = blueprints[b][Len(blueprints[b])]
    BY <1>4
  <2>3. new = [idle EXCEPT !.at = "creating", !.build = b, !.buildable = buildable,
                           !.buildRevision = revision]
    BY <2>2
  <2> HIDE DEF new, revision
  <2> QED BY <2>1, <2>2, <2>3, IdleRun DEF Run
<1> HIDE DEF row, new
<1>7. /\ \A c \in Build : build'[c] = IF c = b THEN row ELSE build[c]
      /\ \A q \in Request : run'[q] = IF q = r THEN new ELSE run[q]
      /\ build' \in [Build -> Row] /\ run' \in [Request -> Run]
  BY <1>0, <1>1, <1>5, <1>6
<1>8. /\ new.at \in Building /\ new.at \notin Calling /\ new.at \notin Designing
      /\ new.at \notin Working /\ new.at \notin Holding /\ run[r].at \notin Calling
      /\ run[r].at \notin Building
  BY <1>0, <1>6 DEF Building, Working, Holding, Calling, Designing
<1>9. \A q \in Request : q # r /\ run[q].at \in Building /\ run[q].build = b => b \in overlapped'
  <2>1. \A q \in Request : run[q].at \in Building => run[q].buildRevision # 0
    BY InBuild
  <2> QED BY <1>0, <2>1 DEF building
<1>10. overlapped \subseteq overlapped' /\ overlapped' \subseteq Build
  BY <1>0, <1>1
<1>11. HeldIsInFlight' /\ quota' \in [Build -> [held : Nat, used : Nat]]
  BY <1>0, <1>6, <1>8, HeldQuiet
<1>12. TypeOK'
  BY <1>0, <1>7, <1>10, <1>11 DEF PipelineInv, TypeOK
<1>13. ASSUME NEW q \in Request PROVE RunSound(q)'
  <2>1. CASE q = r
    BY <1>0, <1>3, <1>5, <1>6, <1>7, <1>8, <2>1 DEF RunSound
  <2>2. CASE q # r
    <3>1. run'[q] = run[q] /\ RunSound(q)
      BY <1>7, <2>2 DEF PipelineInv
    <3>2. run[q].at \in Building =>
            /\ run[q].build \in Build /\ run[q].buildRevision \in Nat
            /\ run[q].buildRevision <= build'[run[q].build].buildRevision
            /\ run[q].build \notin overlapped' =>
                 run[q].buildRevision = build'[run[q].build].buildRevision
      <4>1. HAVE run[q].at \in Building
      <4>2. /\ run[q].build \in Build /\ run[q].buildRevision \in Nat
            /\ run[q].buildRevision <= build[run[q].build].buildRevision
            /\ run[q].build \notin overlapped =>
                 run[q].buildRevision = build[run[q].build].buildRevision
        BY <4>1, InBuild
      <4>3. CASE run[q].build = b
        BY <1>3, <1>5, <1>7, <1>9, <2>2, <4>1, <4>2, <4>3
      <4>4. CASE run[q].build # b
        BY <1>7, <1>10, <4>2, <4>4
      <4> QED BY <4>3, <4>4
    <3> QED BY <1>0, <3>1, <3>2 DEF RunSound
  <2> QED BY <2>1, <2>2
<1>14. ASSUME NEW c \in Build PROVE BuildSound(c)'
  <2>1. BuildSound(c)
    BY DEF PipelineInv
  <2>2. CASE c = b
    BY <1>0, <1>2, <1>5, <1>7, <2>1, <2>2 DEF BuildSound
  <2>3. CASE c # b
    BY <1>0, <1>7, <1>10, <2>1, <2>3 DEF BuildSound
  <2> QED BY <2>2, <2>3
<1>15. mine(r)' = <<b, revision>> /\ \A q \in Request : q # r => mine(q)' = mine(q)
  BY <1>6, <1>7 DEF mine
<1>16. <<b, revision>> \notin alive
  <2> SUFFICES ASSUME <<b, revision>> \in alive PROVE FALSE
    OBVIOUS
  <2>1. <<b, revision>>[2] <= build[<<b, revision>>[1]].buildRevision
    BY DEF PipelineInv, AliveSound
  <2> QED BY <1>3, <2>1
<1>17. ASSUME NEW q \in Request PROVE SandboxSound(q)'
  <2>1. CASE q = r
    BY <1>0, <1>6, <1>7, <1>8, <1>15, <1>16, <2>1 DEF SandboxSound
  <2>2. CASE q # r
    <3>1. run'[q] = run[q] /\ mine(q)' = mine(q) /\ SandboxSound(q)
      BY <1>7, <1>15, <2>2 DEF PipelineInv
    <3> QED BY <1>0, <1>10, <3>1 DEF SandboxSound
  <2> QED BY <2>1, <2>2
<1>18. OneRun'
  <2> SUFFICES ASSUME NEW p \in Request, NEW q \in Request, p # q,
                      run'[p].at \in Building, run'[q].at \in Building,
                      run'[p].build = run'[q].build
               PROVE  run'[p].build \in overlapped'
    BY DEF OneRun
  <2>1. CASE p # r /\ q # r
    BY <1>7, <1>10, <2>1 DEF PipelineInv, OneRun
  <2>2. CASE p = r \/ q = r
    BY <1>6, <1>7, <1>9, <2>2
  <2> QED BY <2>1, <2>2
<1>19. AliveSound'
  <2> SUFFICES ASSUME NEW s \in alive
               PROVE  /\ s[2] <= build'[s[1]].buildRevision
                      /\ \/ s[1] \in overlapped' \cup astray
                         \/ \E q \in Request : run'[q].at \in Building /\ mine(q)' = s
    BY <1>0 DEF AliveSound
  <2>1. /\ s[1] \in Build /\ s[2] \in Nat /\ s[2] <= build[s[1]].buildRevision
        /\ \/ s[1] \in overlapped \cup astray
           \/ \E q \in Request : run[q].at \in Building /\ mine(q) = s
    BY DEF PipelineInv, TypeOK, AliveSound
  <2>2. s[2] <= build'[s[1]].buildRevision
    BY <1>3, <1>5, <1>7, <2>1
  <2>3. \A q \in Request : run[q].at \in Building =>
          run'[q].at \in Building /\ mine(q)' = mine(q)
    BY <1>7, <1>8, <1>15
  <2> QED BY <1>10, <2>1, <2>2, <2>3
<1> QED BY <1>11, <1>12, <1>13, <1>14, <1>17, <1>18, <1>19 DEF PipelineInv

\* restart keeps the invariant.
LEMMA restart_Keeps ==
  ASSUME PipelineInv, restart PROVE PipelineInv'
<1>1. /\ build \in [Build -> Row] /\ run \in [Request -> Run] /\ orphaned \in [Build -> Nat]
      /\ astray \subseteq Build /\ alive \subseteq Build \X (1..MaxBuildRevision)
  BY DEF PipelineInv, TypeOK
<1>2. ASSUME NEW c \in Build
      PROVE  /\ build'[c] \in Row /\ build'[c].buildRevision = build[c].buildRevision
             /\ build'[c].approved = build[c].approved /\ build'[c].stage = build[c].stage
             /\ build'[c].status # "COMPLETED" \/ build'[c] = build[c]
  BY <1>1 DEF restart, reconciled, Row, Status
<1>3. \A q \in Request : run'[q] = idle /\ run'[q].at = "idle"
  BY IdleRun DEF restart
<1>4. ASSUME NEW c \in Build
      PROVE  inCall(c)' = {} /\ IsFiniteSet(inCall(c)) /\ Cardinality(inCall(c)) \in Nat
  <2>1. inCall(c)' = {}
    BY <1>3 DEF inCall
  <2>2. inCall(c) \subseteq Request
    BY DEF inCall
  <2> QED BY <2>1, <2>2, PipelineAssumption, FS_Subset, FS_CardinalityType
<1>5. orphaned' \in [Build -> Nat]
  BY <1>1, <1>4 DEF restart
<1>6. HeldIsInFlight'
  <2> SUFFICES ASSUME NEW c \in Build
               PROVE  quota'[c].held = Cardinality(inCall(c)') + orphaned'[c]
    BY DEF HeldIsInFlight
  <2>1. Cardinality(inCall(c)') = 0
    BY <1>4, FS_EmptySet
  <2>2. quota[c].held = Cardinality(inCall(c)) + orphaned[c]
    BY DEF PipelineInv, HeldIsInFlight
  <2>3. quota'[c] = quota[c] /\ orphaned'[c] = orphaned[c] + Cardinality(inCall(c))
    BY DEF restart
  <2> QED BY <1>1, <1>4, <2>1, <2>2, <2>3
<1>7. /\ build' \in [Build -> Row] /\ run' \in [Request -> Run]
      /\ sandboxes' \in [Build -> 0..MaxBuildRevision] /\ astray' \subseteq Build
  <2>1. DOMAIN build' = Build /\ build' = [c \in Build |-> build'[c]]
    BY DEF restart
  <2> QED BY <1>1, <1>2, <2>1, IdleRun, PipelineAssumption DEF restart
<1>8. TypeOK'
  BY <1>5, <1>7 DEF PipelineInv, TypeOK, restart
<1>9. (\A q \in Request : RunSound(q))'
  BY <1>3 DEF RunSound, Designing, Building, Working, Holding
<1>10. ASSUME NEW c \in Build PROVE BuildSound(c)'
  BY <1>2 DEF PipelineInv, BuildSound, restart
<1>11. (\A q \in Request : SandboxSound(q))' /\ OneRun'
  BY <1>3, Apart DEF SandboxSound, OneRun
<1>12. AliveSound'
  <2> SUFFICES ASSUME NEW s \in alive
               PROVE  s[2] <= build'[s[1]].buildRevision /\ s[1] \in astray'
    BY DEF AliveSound, restart
  <2>1. s[1] \in Build /\ s[2] <= build[s[1]].buildRevision
    BY <1>1 DEF PipelineInv, AliveSound
  <2> QED BY <1>2, <2>1 DEF restart
<1> QED BY <1>6, <1>8, <1>9, <1>10, <1>11, <1>12 DEF PipelineInv

-----------------------------------------------------------------------------
(* What users do without a request in progress.                            *)

\* A user changes a build's row and nothing else.
LEMMA RowOnly ==
  ASSUME PipelineInv, NEW b \in Build, NEW row \in Row, build' = [build EXCEPT ![b] = row],
         row.buildRevision = build[b].buildRevision, row.stage = build[b].stage,
         row.approved = build[b].approved \/ blueprints[b] # <<>>, row.status # "COMPLETED"
           \/ row.status = build[b].status,
         UNCHANGED <<blueprints, quota, passes, sandboxes, alive, run, history>>
  PROVE  PipelineInv'
<1> USE DEF history
<1>1. build \in [Build -> Row]
  BY DEF PipelineInv, TypeOK
<1>2. /\ \A c \in Build : build'[c].buildRevision = build[c].buildRevision
      /\ build' \in [Build -> Row]
  BY <1>1
<1>3. TypeOK' /\ HeldIsInFlight'
  <2>1. \A c \in Build : inCall(c)' = inCall(c)
    BY DEF inCall
  <2> QED BY <1>2, <2>1 DEF PipelineInv, TypeOK, HeldIsInFlight
<1>4. ASSUME NEW q \in Request PROVE RunSound(q)'
  <2>1. RunSound(q)
    BY DEF PipelineInv
  <2>2. run[q].at \in Building => run[q].build \in Build
    BY InBuild
  <2> QED BY <1>2, <2>1, <2>2 DEF RunSound
<1>5. ASSUME NEW c \in Build PROVE BuildSound(c)'
  <2>1. BuildSound(c) /\ build'[c] = IF c = b THEN row ELSE build[c]
    BY <1>1 DEF PipelineInv
  <2> QED BY <2>1 DEF BuildSound
<1>6. \A q \in Request : mine(q)' = mine(q)
  BY DEF mine
<1>7. (\A q \in Request : SandboxSound(q))' /\ OneRun'
  BY <1>6 DEF PipelineInv, SandboxSound, OneRun
<1>8. AliveSound'
  <2>1. \A s \in alive : s[1] \in Build
    BY DEF PipelineInv, TypeOK
  <2> QED BY <1>2, <1>6, <2>1 DEF PipelineInv, AliveSound
<1> QED BY <1>3, <1>4, <1>5, <1>7, <1>8 DEF PipelineInv

\* createBuild, approve and abandon keep the invariant.
LEMMA rows_Keep ==
  ASSUME PipelineInv, NEW b \in Build, createBuild(b) \/ approve(b) \/ abandon(b)
  PROVE  PipelineInv'
<1>1. build[b] \in Row /\ BuildSound(b)
  BY DEF PipelineInv, TypeOK
<1>2. UNCHANGED <<blueprints, quota, passes, sandboxes, alive, run, history>>
  BY DEF createBuild, approve, abandon
<1>3. PICK row \in Row :
        /\ build' = [build EXCEPT ![b] = row]
        /\ row.buildRevision = build[b].buildRevision /\ row.stage = build[b].stage
        /\ row.approved = build[b].approved \/ blueprints[b] # <<>>
        /\ row.status # "COMPLETED" \/ row.status = build[b].status
  <2>1. CASE createBuild(b)
    <3> DEFINE row == [build[b] EXCEPT !.status = "RUNNING"]
    <3>1. row \in Row /\ row.buildRevision = build[b].buildRevision /\ row.stage = build[b].stage
          /\ row.approved = build[b].approved /\ row.status # "COMPLETED"
      BY <1>1 DEF Row, Status
    <3>2. build' = [build EXCEPT ![b] = row]
      BY <2>1 DEF createBuild, setRow
    <3> HIDE DEF row
    <3> QED BY <3>1, <3>2
  <2>2. CASE approve(b)
    <3> DEFINE row == [build[b] EXCEPT !.approved = TRUE]
    <3>1. row \in Row /\ row.buildRevision = build[b].buildRevision /\ row.stage = build[b].stage
          /\ row.status = build[b].status
      BY <1>1 DEF Row
    <3>2. build' = [build EXCEPT ![b] = row] /\ blueprints[b] # <<>>
      BY <1>1, <2>2 DEF approve, setRow, BuildSound
    <3> HIDE DEF row
    <3> QED BY <3>1, <3>2
  <2>3. CASE abandon(b)
    <3> DEFINE row == [build[b] EXCEPT !.status = "ABANDONED"]
    <3>1. row \in Row /\ row.buildRevision = build[b].buildRevision /\ row.stage = build[b].stage
          /\ row.approved = build[b].approved /\ row.status # "COMPLETED"
      BY <1>1 DEF Row, Status
    <3>2. build' = [build EXCEPT ![b] = row]
      BY <2>3 DEF abandon, setRow
    <3> HIDE DEF row
    <3> QED BY <3>1, <3>2
  <2> QED BY <2>1, <2>2, <2>3
<1> QED BY <1>2, <1>3, RowOnly

\* editBlueprint keeps the invariant.
LEMMA editBlueprint_Keeps ==
  ASSUME PipelineInv, NEW b \in Build, NEW buildable \in BOOLEAN, editBlueprint(b, buildable)
  PROVE  PipelineInv'
<1>1. /\ blueprints \in [Build -> Seq(BOOLEAN)] /\ MaxRevision \in Nat
      /\ \A c \in Build : Len(blueprints[c]) <= MaxRevision
  BY PipelineAssumption DEF PipelineInv, TypeOK
<1>2. /\ blueprints' = [blueprints EXCEPT ![b] = Append(blueprints[b], buildable)]
      /\ Len(blueprints[b]) < MaxRevision
      /\ UNCHANGED <<build, quota, passes, sandboxes, alive, run, orphaned, overlapped, astray>>
  BY DEF editBlueprint, history
<1>3. /\ blueprints' \in [Build -> Seq(BOOLEAN)]
      /\ \A c \in Build : Len(blueprints'[c]) <= MaxRevision
      /\ \A c \in Build : blueprints[c] # <<>> => blueprints'[c] # <<>>
  <2>1. /\ Append(blueprints[b], buildable) \in Seq(BOOLEAN)
        /\ Len(Append(blueprints[b], buildable)) = Len(blueprints[b]) + 1
        /\ Append(blueprints[b], buildable) # <<>> /\ Len(blueprints[b]) \in Nat
    BY <1>1
  <2>2. PICK more \in Seq(BOOLEAN) :
          more = Append(blueprints[b], buildable)
    BY <2>1
  <2>3. Len(more) <= MaxRevision /\ more # <<>> /\ blueprints' = [blueprints EXCEPT ![b] = more]
    BY <1>1, <1>2, <2>1, <2>2
  <2> QED BY <1>1, <2>2, <2>3
<1>4. TypeOK' /\ HeldIsInFlight'
  <2>1. \A c \in Build : inCall(c)' = inCall(c)
    BY <1>2 DEF inCall
  <2> QED BY <1>2, <1>3, <2>1 DEF PipelineInv, TypeOK, HeldIsInFlight
<1>5. \A q \in Request : mine(q)' = mine(q)
  BY <1>2 DEF mine
<1>6. (\A q \in Request : SandboxSound(q))' /\ OneRun' /\ AliveSound'
  BY <1>2, <1>5 DEF PipelineInv, SandboxSound, OneRun, AliveSound
<1>7. ASSUME NEW q \in Request PROVE RunSound(q)'
  <2>1. RunSound(q)
    BY DEF PipelineInv
  <2>2. run[q].at = "security" => run[q].build \in Build
    BY <2>1 DEF RunSound, Designing
  <2> QED BY <1>2, <1>3, <2>1, <2>2 DEF RunSound
<1>8. ASSUME NEW c \in Build PROVE BuildSound(c)'
  BY <1>2, <1>3 DEF PipelineInv, BuildSound
<1> QED BY <1>4, <1>6, <1>7, <1>8 DEF PipelineInv

-----------------------------------------------------------------------------
(* The specification.                                                      *)

\* The Studio starts with the invariant.
LEMMA InitSound == Init => PipelineInv
<1> SUFFICES ASSUME Init PROVE PipelineInv
  OBVIOUS
<1>1. \A r \in Request : run[r] = idle /\ run[r].at = "idle"
  BY IdleRun DEF Init
<1>2. TypeOK
  <2>1. 0 \in 0..MaxBuildRevision /\ 0 \in 0..autoRepairLoops /\ MaxRevision \in Nat
    BY PipelineAssumption
  <2>2. <<>> \in Seq(BOOLEAN) /\ Len(<<>>) = 0
    OBVIOUS
  <2>3. build \in [Build -> Row]
    BY <2>1 DEF Init, Row, Stage, Status
  <2>4. /\ blueprints \in [Build -> Seq(BOOLEAN)]
        /\ \A b \in Build : Len(blueprints[b]) <= MaxRevision
    BY <2>1, <2>2 DEF Init
  <2>5. /\ quota \in [Build -> [held : Nat, used : Nat]]
        /\ passes \in [Build -> [count : Nat, green : SUBSET (1..MaxBuildRevision)]]
        /\ sandboxes \in [Build -> 0..MaxBuildRevision]
        /\ alive \subseteq Build \X (1..MaxBuildRevision) /\ run \in [Request -> Run]
        /\ orphaned \in [Build -> Nat] /\ overlapped \subseteq Build /\ astray \subseteq Build
    BY <2>1, IdleRun DEF Init
  <2> QED BY <2>3, <2>4, <2>5 DEF TypeOK
<1>3. \A r \in Request : RunSound(r) /\ SandboxSound(r)
  BY <1>1, Apart DEF RunSound, SandboxSound, Designing, Building, Working, Holding
<1>4. \A b \in Build : BuildSound(b)
  <2> SUFFICES ASSUME NEW b \in Build PROVE BuildSound(b)
    OBVIOUS
  <2>1. /\ build[b].stage = "INTAKE" /\ build[b].status = "none" /\ build[b].approved = FALSE
        /\ passes[b].green = {} /\ passes[b].count = 0
    BY DEF Init
  <2>2. IsFiniteSet({}) /\ Cardinality({}) = 0 /\ maxMandatoryPassesPerBuild \in Nat
    BY PipelineAssumption, FS_EmptySet
  <2> QED BY <2>1, <2>2 DEF BuildSound
<1>5. HeldIsInFlight
  <2>1. \A b \in Build : inCall(b) = {}
    BY <1>1 DEF inCall
  <2>2. Cardinality({}) = 0
    BY FS_EmptySet
  <2>3. \A b \in Build : quota[b].held = 0 /\ orphaned[b] = 0
    BY DEF Init
  <2> QED BY <2>1, <2>2, <2>3 DEF HeldIsInFlight
<1>6. OneRun /\ AliveSound
  BY <1>1, Apart DEF Init, OneRun, AliveSound
<1> QED BY <1>2, <1>3, <1>4, <1>5, <1>6 DEF PipelineInv

\* Every step keeps the invariant.
LEMMA NextSound == PipelineInv /\ [Next]_vars => PipelineInv'
<1> SUFFICES ASSUME PipelineInv, [Next]_vars PROVE PipelineInv'
  OBVIOUS
<1>1. ASSUME users PROVE PipelineInv'
  <2>1. PICK b \in Build :
          \/ createBuild(b) \/ approve(b) \/ abandon(b)
          \/ \E buildable \in BOOLEAN : editBlueprint(b, buildable)
          \/ \E r \in Request : design(r, b) \/ startBuild(r, b)
    BY <1>1 DEF users
  <2> QED BY <2>1, rows_Keep, editBlueprint_Keeps, design_Keeps, startBuild_Keeps
<1>2. ASSUME NEW r \in Request, handlerStep(r) PROVE PipelineInv'
  BY <1>2, requirements_Keeps, architecture_Keeps, security_Keeps, designFails_Keeps,
     createSandbox_Keeps, writeFiles_Keeps, tested_Keeps, repaired_Keeps, simulate_Keeps,
     reviewed_Keeps, buildFails_Keeps, destroySandbox_Keeps, forgetSandbox_Keeps
     DEF handlerStep
<1>3. ASSUME UNCHANGED vars PROVE PipelineInv'
  <2>1. UNCHANGED <<build, blueprints, quota, passes, sandboxes, alive, run,
                    orphaned, overlapped, astray>>
    BY <1>3 DEF vars, history
  <2>2. /\ \A c \in Build : inCall(c)' = inCall(c)
        /\ \A q \in Request : mine(q)' = mine(q)
    BY <2>1 DEF inCall, mine
  <2>3. TypeOK' /\ HeldIsInFlight'
    BY <2>1, <2>2 DEF PipelineInv, TypeOK, HeldIsInFlight
  <2>4. (\A q \in Request : RunSound(q))' /\ (\A c \in Build : BuildSound(c))'
    BY <2>1 DEF PipelineInv, RunSound, BuildSound
  <2>5. (\A q \in Request : SandboxSound(q))' /\ OneRun' /\ AliveSound'
    BY <2>1, <2>2 DEF PipelineInv, SandboxSound, OneRun, AliveSound
  <2> QED BY <2>3, <2>4, <2>5 DEF PipelineInv
<1> QED BY <1>1, <1>2, <1>3, restart_Keeps DEF Next

\* The invariant holds throughout: at every await of every request, whatever
\* calls fail, however requests overlap and however often the process dies.
THEOREM PipelineIsSound == Spec => []PipelineInv
<1> QED BY InitSound, NextSound, PTL DEF Spec

\* Every table, map and local of the pipeline keeps its type.
THEOREM PipelineTypes == Spec => []TypeOK
<1>1. PipelineInv => TypeOK
  BY DEF PipelineInv
<1> QED BY <1>1, PipelineIsSound, PTL

\* A reservation is HELD exactly while its call is in flight or because the
\* process died in it (quota.ts reserve, settle, release).
THEOREM ReservationsBalance == Spec => []HeldIsInFlight
<1>1. PipelineInv => HeldIsInFlight
  BY DEF PipelineInv
<1> QED BY <1>1, PipelineIsSound, PTL

\* A COMPLETED build without overlapping runs has a complete green pass for its
\* present build revision (pipeline.ts runBuild).
THEOREM CompletionIsEarned == Spec => []CompletedIsProven
<1>1. PipelineInv => CompletedIsProven
  BY DEF PipelineInv, BuildSound, CompletedIsProven
<1> QED BY <1>1, PipelineIsSound, PTL

\* A build has no more complete green passes than the policy allows (quota.ts
\* assertCanSimulate), whatever the policy.
THEOREM PassCeilingHolds == Spec => []PassesAreCapped
<1>1. PipelineInv => PassesAreCapped
  BY DEF PipelineInv, BuildSound, PassesAreCapped
<1> QED BY <1>1, PipelineIsSound, PTL

\* A sandbox exists as long as its run needs it and no longer, except where runs
\* overlapped, destroying failed or the process died (runBuild's finally).
THEOREM SandboxesAreOwned == Spec => []SandboxHasItsRun
<1>1. PipelineInv => SandboxHasItsRun
  <2> SUFFICES ASSUME PipelineInv PROVE SandboxHasItsRun
    OBVIOUS
  <2>1. ASSUME NEW r \in Request, run[r].at \in Holding
        PROVE  mine(r) \in alive \/ run[r].build \in overlapped
    BY <2>1, Apart DEF PipelineInv, SandboxSound
  <2>2. \A r \in atPoint("writing") \cup atPoint("testing") \cup atPoint("repairing") :
          r \in Request /\ run[r].at \in Holding
    BY DEF atPoint, Holding
  <2>3. \A s \in alive : s[1] \in overlapped \cup astray \/ \E r \in Request : mine(r) = s
    BY DEF PipelineInv, AliveSound
  <2> QED BY <2>1, <2>2, <2>3 DEF SandboxHasItsRun
<1> QED BY <1>1, PipelineIsSound, PTL

-----------------------------------------------------------------------------
(* How far a build's model requests can overshoot.                         *)

\* The most requests one call can turn out to have made, and what a build has
\* spent: requests used and reservations held.
LargestUsage == CHOOSE n \in Usage : \A m \in Usage : m <= n
Spent(b)     == quota[b].used + quota[b].held

\* Each call in flight may still cost what it makes beyond its reservation.
SpentInv ==
  \A b \in Build :
    Spent(b) + Cardinality(inCall(b)) * (LargestUsage - 1)
      <= modelRequestsPerBuild + Cardinality(Request) * (LargestUsage - 1)

\* What a step can do to a build's spending: reserve within the limit, leave it
\* alone, or end a call and count what it made beyond its reservation.
SpendMove(b) ==
  \/ Spent(b)' <= modelRequestsPerBuild
  \/ Spent(b)' = Spent(b) /\ inCall(b)' \subseteq inCall(b)
  \/ \E r \in inCall(b) :
       /\ inCall(b)' \subseteq inCall(b) \ {r}
       /\ Spent(b)' <= Spent(b) + (LargestUsage - 1)

\* Every call makes at least one request and at most the largest usage.
LEMMA UsageBounds ==
  LargestUsage \in Nat /\ LargestUsage - 1 \in Nat /\ \A n \in Usage : n <= LargestUsage
<1>1. LargestUsage \in Usage /\ \A m \in Usage : m <= LargestUsage
  BY PipelineAssumption DEF LargestUsage
<1> QED BY <1>1, PipelineAssumption

\* What fewer calls can cost is less.
LEMMA FewerCostLess ==
  ASSUME NEW m \in Nat, NEW n \in Nat, NEW d \in Nat, m <= n
  PROVE  m * d \in Nat /\ n * d \in Nat /\ m * d <= n * d
OBVIOUS

\* One call fewer costs one overshoot less.
LEMMA OneCallLess ==
  ASSUME NEW n \in Nat \ {0}, NEW d \in Nat PROVE (n - 1) * d = n * d - d
OBVIOUS

\* The calls of a build are among the requests.
LEMMA CallsAreRequests ==
  ASSUME NEW b \in Build
  PROVE  /\ IsFiniteSet(inCall(b)) /\ Cardinality(inCall(b)) \in Nat
         /\ Cardinality(inCall(b)) <= Cardinality(Request) /\ Cardinality(Request) \in Nat
<1>1. inCall(b) \subseteq Request
  BY DEF inCall
<1> QED BY <1>1, PipelineAssumption, FS_Subset, FS_CardinalityType

\* Spending moves keep the bound.
LEMMA MovesKeep ==
  ASSUME PipelineInv, PipelineInv', SpentInv, \A b \in Build : SpendMove(b)
  PROVE  SpentInv'
<1> SUFFICES ASSUME NEW b \in Build
             PROVE  Spent(b)' + Cardinality(inCall(b)') * (LargestUsage - 1)
                      <= modelRequestsPerBuild + Cardinality(Request) * (LargestUsage - 1)
  BY DEF SpentInv
<1>1. PICK d \in Nat : d = LargestUsage - 1
  BY UsageBounds
<1>2. PICK limit \in Nat : limit = modelRequestsPerBuild
  BY PipelineAssumption
<1>3. PICK all \in Nat : all = Cardinality(Request)
  BY CallsAreRequests
<1>4. PICK n \in Nat : n = Cardinality(inCall(b))
  BY CallsAreRequests
<1>5. IsFiniteSet(inCall(b)) /\ n <= all
  BY <1>3, <1>4, CallsAreRequests
<1>6. IsFiniteSet(inCall(b)') /\ Cardinality(inCall(b)') \in Nat
      /\ Cardinality(inCall(b)') <= all
  <2>1. inCall(b)' \subseteq Request
    BY DEF inCall
  <2> QED BY <1>3, <2>1, PipelineAssumption, FS_Subset, FS_CardinalityType
<1>7. PICK k \in Nat : k = Cardinality(inCall(b)')
  BY <1>6
<1>8. Spent(b) \in Nat /\ Spent(b)' \in Nat
  BY DEF PipelineInv, TypeOK, Spent
<1>9. PICK old \in Nat, new \in Nat : old = Spent(b) /\ new = Spent(b)'
  BY <1>8
<1>10. old + n * d <= limit + all * d
  BY <1>1, <1>2, <1>3, <1>4, <1>9 DEF SpentInv
<1> SUFFICES new + k * d <= limit + all * d
  BY <1>1, <1>2, <1>3, <1>7, <1>9
<1>11. CASE Spent(b)' <= modelRequestsPerBuild
  <2>1. new <= limit /\ k <= all
    BY <1>2, <1>6, <1>7, <1>9, <1>11
  <2>2. k * d \in Nat /\ all * d \in Nat /\ k * d <= all * d
    BY <2>1, FewerCostLess
  <2> QED BY <2>1, <2>2
<1>12. CASE Spent(b)' = Spent(b) /\ inCall(b)' \subseteq inCall(b)
  <2>1. new = old /\ k <= n
    BY <1>4, <1>5, <1>7, <1>9, <1>12, FS_Subset
  <2>2. k * d \in Nat /\ n * d \in Nat /\ k * d <= n * d
    BY <2>1, FewerCostLess
  <2>3. all * d \in Nat
    BY <1>5, FewerCostLess
  <2> QED BY <1>10, <2>1, <2>2, <2>3
<1>13. ASSUME NEW r \in inCall(b), inCall(b)' \subseteq inCall(b) \ {r},
              Spent(b)' <= Spent(b) + (LargestUsage - 1)
       PROVE  new + k * d <= limit + all * d
  <2>1. IsFiniteSet(inCall(b) \ {r}) /\ Cardinality(inCall(b) \ {r}) = n - 1
    BY <1>4, <1>5, FS_RemoveElement
  <2>2. k <= n - 1
    BY <1>7, <1>13, <2>1, FS_Subset
  <2>3. n \in Nat \ {0} /\ n - 1 \in Nat /\ new <= old + d
    BY <1>1, <1>9, <1>13, <2>2
  <2>4. k * d \in Nat /\ (n - 1) * d \in Nat /\ k * d <= (n - 1) * d
    BY <2>2, <2>3, FewerCostLess
  <2>5. (n - 1) * d = n * d - d
    BY <2>3, OneCallLess
  <2>6. n * d \in Nat /\ all * d \in Nat
    BY <1>5, FewerCostLess
  <2> QED BY <1>10, <2>3, <2>4, <2>5, <2>6
<1> QED BY <1>11, <1>12, <1>13 DEF SpendMove

\* Settling counts at most the overshoot, releasing nothing.
LEMMA SettledSpends ==
  ASSUME NEW q \in [held : Nat, used : Nat], NEW p \in settled(q) \cup {released(q)}
  PROVE  p.used + p.held <= q.used + q.held + (LargestUsage - 1)
<1>1. CASE p \in settled(q)
  <2>1. PICK n \in Usage : p = [held |-> q.held - 1, used |-> q.used + n]
    BY <1>1 DEF settled
  <2>2. n \in Nat /\ n <= LargestUsage /\ LargestUsage \in Nat
    BY UsageBounds, PipelineAssumption
  <2> QED BY <2>1, <2>2
<1>2. CASE p = released(q)
  BY <1>2, UsageBounds DEF released
<1> QED BY <1>1, <1>2

\* A request's handler changes the spending of its build only.
LEMMA HandlerMoves ==
  ASSUME PipelineInv, NEW r \in Request, NEW b \in Build, NEW new \in Run, NEW q,
         run' = [run EXCEPT ![r] = new], quota' = [quota EXCEPT ![b] = q],
         new.at \in Calling => new.build = b,
         \/ q.used + q.held <= modelRequestsPerBuild
         \/ q = quota[b] /\ new.at \notin Calling
         \/ /\ run[r].at \in Calling /\ run[r].build = b /\ new.at \notin Calling
            /\ q.used + q.held <= Spent(b) + (LargestUsage - 1)
  PROVE  \A c \in Build : SpendMove(c)
<1>1. run \in [Request -> Run] /\ quota \in [Build -> [held : Nat, used : Nat]]
  BY DEF PipelineInv, TypeOK
<1>2. \A p \in Request : run'[p] = IF p = r THEN new ELSE run[p]
  BY <1>1
<1>3. \A c \in Build : /\ inCall(c)' = {p \in Request : run'[p].build = c /\ run'[p].at \in Calling}
                       /\ inCall(c) = {p \in Request : run[p].build = c /\ run[p].at \in Calling}
  BY DEF inCall, Calling
<1>4. \A c \in Build : Spent(c)' = quota'[c].used + quota'[c].held
  BY DEF Spent
<1>5. ASSUME NEW c \in Build, c # b PROVE SpendMove(c)
  <2>1. inCall(c)' \subseteq inCall(c)
    BY <1>2, <1>3, <1>5
  <2>2. quota'[c] = quota[c]
    BY <1>1, <1>5
  <2> QED BY <2>1, <2>2 DEF SpendMove, Spent
<1>6. quota'[b] = q
  BY <1>1
<1>7. SpendMove(b)
  <2>1. CASE q.used + q.held <= modelRequestsPerBuild
    BY <1>4, <1>6, <2>1 DEF SpendMove
  <2>2. CASE q = quota[b] /\ new.at \notin Calling
    <3>1. inCall(b)' \subseteq inCall(b)
      BY <1>2, <1>3, <2>2
    <3> QED BY <1>6, <2>2, <3>1 DEF SpendMove, Spent
  <2>3. CASE /\ run[r].at \in Calling /\ run[r].build = b /\ new.at \notin Calling
             /\ q.used + q.held <= Spent(b) + (LargestUsage - 1)
    <3>1. inCall(b)' \subseteq inCall(b) \ {r} /\ r \in inCall(b)
      BY <1>2, <1>3, <2>3
    <3> QED BY <1>4, <1>6, <2>3, <3>1 DEF SpendMove
  <2> QED BY <2>1, <2>2, <2>3
<1> QED BY <1>5, <1>7

\* A step that leaves the ledger alone starts no call.
LEMMA QuietMoves ==
  ASSUME PipelineInv, UNCHANGED quota,
         \A p \in Request : run'[p] = run[p] \/ run'[p].at \notin Calling
  PROVE  \A c \in Build : SpendMove(c)
<1>1. \A c \in Build : inCall(c)' \subseteq inCall(c)
  BY DEF inCall, Calling
<1> QED BY <1>1 DEF SpendMove, Spent

\* callModel reserves within the limit or ends the request.
LEMMA callModel_Moves ==
  ASSUME PipelineInv, NEW r \in Request, NEW b \in Build, NEW q \in [held : Int, used : Nat],
         NEW row, NEW point \in Point, run[r] \in Run, callModel(r, b, q, row, point),
         \/ q = quota[b]
         \/ /\ run[r].at \in Calling /\ run[r].build = b
            /\ q.used + q.held <= Spent(b) + (LargestUsage - 1)
  PROVE  \A c \in Build : SpendMove(c)
<1>1. CASE affordable(q)
  <2> DEFINE new == [run[r] EXCEPT !.at = point, !.build = b]
  <2>1. new \in Run /\ new.build = b
    BY DEF Run
  <2>2. PICK more : more = reserved(q)
    OBVIOUS
  <2>3. more.used + more.held <= modelRequestsPerBuild
    BY <1>1, <2>2 DEF affordable, reserved
  <2>4. run' = [run EXCEPT ![r] = new] /\ quota' = [quota EXCEPT ![b] = more]
    BY <1>1, <2>2 DEF callModel, setQuota, setRun
  <2> HIDE DEF new
  <2> QED BY <2>1, <2>3, <2>4, HandlerMoves
<1>2. CASE ~affordable(q)
  <2>1. run' = [run EXCEPT ![r] = idle] /\ quota' = [quota EXCEPT ![b] = q]
    BY <1>2 DEF callModel, setQuota, setRun
  <2>2. idle \in Run /\ idle.at \notin Calling
    BY IdleRun, Apart
  <2> QED BY <2>1, <2>2, HandlerMoves
<1> QED BY <1>1, <1>2

\* The requests that call a model move as they should.
LEMMA CallsMove ==
  ASSUME PipelineInv, NEW r \in Request,
         \/ \E b \in Build : design(r, b)
         \/ requirements(r) \/ architecture(r) \/ security(r) \/ designFails(r)
         \/ simulate(r) \/ reviewed(r)
  PROVE  \A c \in Build : SpendMove(c)
<1> DEFINE b == run[r].build
<1>0. run[r] \in Run /\ idle \in Run /\ idle.at \notin Calling
  BY IdleRun, Apart DEF PipelineInv, TypeOK
<1>1. run[r].at \in Calling => /\ b \in Build /\ quota[b] \in [held : Nat, used : Nat]
                               /\ Spent(b) = quota[b].used + quota[b].held
  <2>1. run[r].at \in Calling => run[r].at \in Designing \cup Building
    BY Apart
  <2>2. run[r].at \in Calling => b \in Build
    BY <2>1 DEF PipelineInv, RunSound
  <2> QED BY <2>2 DEF PipelineInv, TypeOK, Spent
<1>2. ASSUME run[r].at \in Calling, NEW q \in settled(quota[b]) \cup {released(quota[b])}
      PROVE  q \in [held : Int, used : Nat] /\ q.used + q.held <= Spent(b) + (LargestUsage - 1)
  <2>1. q = [held |-> quota[b].held - 1, used |-> q.used] /\ q.used \in Nat
    BY <1>1, <1>2, Settled
  <2>2. quota[b].held - 1 \in Int
    BY <1>1, <1>2
  <2>3. q \in [held : Int, used : Nat]
    BY <2>1, <2>2
  <2>4. q.used + q.held <= quota[b].used + quota[b].held + (LargestUsage - 1)
    BY <1>1, <1>2, SettledSpends
  <2> QED BY <1>1, <1>2, <2>3, <2>4
<1>3. ASSUME NEW c \in Build, design(r, c) PROVE \A e \in Build : SpendMove(e)
  <2>1. quota[c] \in [held : Int, used : Nat]
    BY DEF PipelineInv, TypeOK
  <2>2. PICK row : callModel(r, c, quota[c], row, "requirements")
    BY <1>3 DEF design
  <2> QED BY <1>0, <2>1, <2>2, callModel_Moves DEF Point
<1>4. ASSUME requirements(r) PROVE \A e \in Build : SpendMove(e)
  <2>1. run[r].at \in Calling
    BY <1>4 DEF requirements, Calling
  <2> DEFINE row == [build[b] EXCEPT !.stage = "BLUEPRINT"]
  <2>2. PICK q \in settled(quota[b]) : callModel(r, b, q, row, "architecture")
    BY <1>4 DEF requirements
  <2>3. q \in [held : Int, used : Nat] /\ q.used + q.held <= Spent(b) + (LargestUsage - 1)
    BY <1>2, <2>1, <2>2
  <2> HIDE DEF b, row
  <2>4. run[r].build = b
    BY DEF b
  <2> QED BY <1>0, <1>1, <2>1, <2>2, <2>3, <2>4, callModel_Moves DEF Point
<1>5. ASSUME architecture(r) PROVE \A e \in Build : SpendMove(e)
  <2>1. run[r].at \in Calling
    BY <1>5 DEF architecture, Calling
  <2>2. PICK q \in settled(quota[b]), buildable \in BOOLEAN :
          IF affordable(q)
            THEN /\ setQuota(b, reserved(q))
                 /\ setRun(r, [run[r] EXCEPT !.at = "security", !.buildable = buildable])
            ELSE setQuota(b, q) /\ setRun(r, idle)
    BY <1>5 DEF architecture
  <2>3. q \in [held : Int, used : Nat] /\ q.used + q.held <= Spent(b) + (LargestUsage - 1)
    BY <1>2, <2>1, <2>2
  <2>4. CASE affordable(q)
    <3> DEFINE new == [run[r] EXCEPT !.at = "security", !.buildable = buildable]
    <3>1. new \in Run /\ new.build = b
      BY <1>0 DEF Run, Point
    <3>2. PICK more : more = reserved(q)
      OBVIOUS
    <3>3. more.used + more.held <= modelRequestsPerBuild
      BY <2>3, <2>4, <3>2 DEF affordable, reserved
    <3>4. run' = [run EXCEPT ![r] = new] /\ quota' = [quota EXCEPT ![b] = more]
      BY <2>2, <2>4, <3>2 DEF setQuota, setRun
    <3> HIDE DEF new, b
    <3> QED BY <1>1, <2>1, <3>1, <3>3, <3>4, HandlerMoves
  <2>5. CASE ~affordable(q)
    <3>1. run' = [run EXCEPT ![r] = idle] /\ quota' = [quota EXCEPT ![b] = q]
      BY <2>2, <2>5 DEF setQuota, setRun
    <3>2. run[r].build = b
      OBVIOUS
    <3> HIDE DEF b
    <3> QED BY <1>0, <1>1, <2>1, <2>3, <3>1, <3>2, HandlerMoves
  <2> QED BY <2>4, <2>5
<1>6. ASSUME run[r].at \in Calling, NEW new \in Run, run' = [run EXCEPT ![r] = new],
             new.at \notin Calling,
             \E q \in settled(quota[b]) \cup {released(quota[b])} : setQuota(b, q)
      PROVE  \A e \in Build : SpendMove(e)
  <2>1. PICK q \in settled(quota[b]) \cup {released(quota[b])} : quota' = [quota EXCEPT ![b] = q]
    BY <1>6 DEF setQuota
  <2>2. q.used + q.held <= Spent(b) + (LargestUsage - 1)
    BY <1>2, <1>6, <2>1
  <2>3. run[r].build = b
    OBVIOUS
  <2> HIDE DEF b
  <2> QED BY <1>1, <1>6, <2>1, <2>2, <2>3, HandlerMoves
<1>7. ASSUME security(r) \/ designFails(r) PROVE \A e \in Build : SpendMove(e)
  <2>1. run[r].at \in Calling /\ run' = [run EXCEPT ![r] = idle]
    BY <1>7 DEF security, designFails, Calling, setRun
  <2>2. \E q \in settled(quota[b]) \cup {released(quota[b])} : setQuota(b, q)
    BY <1>7 DEF security, designFails
  <2> QED BY <1>0, <1>6, <2>1, <2>2
<1>8. ASSUME reviewed(r) PROVE \A e \in Build : SpendMove(e)
  <2> DEFINE new == [run[r] EXCEPT !.at = "destroying", !.green = FALSE]
  <2>1. run[r].at \in Calling /\ run' = [run EXCEPT ![r] = new]
    BY <1>8 DEF reviewed, gate, Calling, setRun
  <2>2. \E q \in settled(quota[b]) \cup {released(quota[b])} : setQuota(b, q)
    BY <1>8 DEF reviewed
  <2>3. new \in Run /\ new.at \notin Calling
    BY <1>0, Apart DEF Run, Point
  <2> HIDE DEF new
  <2> QED BY <1>6, <2>1, <2>2, <2>3
<1>9. ASSUME simulate(r) PROVE \A e \in Build : SpendMove(e)
  <2>1. PICK outcome \in passOutcome(passes[b]) :
          IF affordable(quota[b])
            THEN /\ setQuota(b, reserved(quota[b]))
                 /\ setRun(r, [run[r] EXCEPT !.at = "reviewing", !.green = outcome[2]])
            ELSE /\ UNCHANGED quota
                 /\ setRun(r, [run[r] EXCEPT !.at = "destroying", !.green = FALSE])
    BY <1>9 DEF simulate, gate
  <2>2. b \in Build /\ quota[b] \in [held : Nat, used : Nat]
    <3>1. run[r].at \in Building
      BY <1>9, Apart DEF simulate
    <3>2. b \in Build
      BY <3>1 DEF PipelineInv, RunSound
    <3> QED BY <3>2 DEF PipelineInv, TypeOK
  <2>3. CASE affordable(quota[b])
    <3> DEFINE new == [run[r] EXCEPT !.at = "reviewing", !.green = outcome[2]]
    <3>1. outcome[2] \in BOOLEAN
      <4>1. passes[b] \in [count : Nat, green : SUBSET (1..MaxBuildRevision)]
        BY <2>2 DEF PipelineInv, TypeOK
      <4> HIDE DEF b
      <4> QED BY <2>1, <4>1, PassOutcome
    <3>2. new \in Run /\ new.build = b
      BY <1>0, <3>1 DEF Run, Point
    <3>3. PICK more : more = reserved(quota[b])
      OBVIOUS
    <3>4. more.used + more.held <= modelRequestsPerBuild
      BY <2>2, <2>3, <3>3 DEF affordable, reserved
    <3>5. run' = [run EXCEPT ![r] = new] /\ quota' = [quota EXCEPT ![b] = more]
      BY <2>1, <2>3, <3>3 DEF setQuota, setRun
    <3> HIDE DEF new, b
    <3> QED BY <2>2, <3>2, <3>4, <3>5, HandlerMoves
  <2>4. CASE ~affordable(quota[b])
    <3> DEFINE new == [run[r] EXCEPT !.at = "destroying", !.green = FALSE]
    <3>1. new.at = "destroying"
      BY <1>0 DEF Run
    <3>2. run' = [run EXCEPT ![r] = new] /\ run \in [Request -> Run] /\ UNCHANGED quota
      BY <2>1, <2>4 DEF setRun, PipelineInv, TypeOK
    <3> HIDE DEF new
    <3>3. \A p \in Request : run'[p] = run[p] \/ run'[p].at = "destroying"
      BY <3>1, <3>2
    <3> QED BY <3>2, <3>3, Apart, QuietMoves
  <2> QED BY <2>3, <2>4
<1> QED BY <1>3, <1>4, <1>5, <1>7, <1>8, <1>9

\* Every step moves each build's spending as it should.
LEMMA StepsMove == PipelineInv /\ [Next]_vars => \A b \in Build : SpendMove(b)
<1> SUFFICES ASSUME PipelineInv, [Next]_vars PROVE \A b \in Build : SpendMove(b)
  OBVIOUS
<1>0. run \in [Request -> Run]
  BY DEF PipelineInv, TypeOK
<1>1. ASSUME users PROVE \A b \in Build : SpendMove(b)
  <2>1. CASE \E b \in Build, r \in Request : design(r, b)
    BY <2>1, CallsMove
  <2>2. CASE \E b \in Build, r \in Request : startBuild(r, b)
    <3>1. PICK b \in Build, r \in Request : startBuild(r, b)
      BY <2>2
    <3>2. \A p \in Request : run'[p] = run[p] \/ run'[p].at = "creating"
      BY <1>0, <3>1 DEF startBuild, setRun, idle
    <3>3. "creating" \notin Calling
      BY DEF Calling
    <3>4. UNCHANGED quota
      BY <3>1 DEF startBuild
    <3> QED BY <3>2, <3>3, <3>4, QuietMoves
  <2>3. CASE UNCHANGED <<quota, run>>
    BY <2>3, QuietMoves
  <2> QED BY <1>1, <2>1, <2>2, <2>3 DEF users, createBuild, approve, abandon, editBlueprint
<1>2. ASSUME NEW r \in Request, handlerStep(r) PROVE \A b \in Build : SpendMove(b)
  <2>1. CASE requirements(r) \/ architecture(r) \/ security(r) \/ designFails(r)
             \/ simulate(r) \/ reviewed(r)
    BY <2>1, CallsMove
  <2>2. CASE createSandbox(r) \/ writeFiles(r) \/ tested(r) \/ repaired(r) \/ buildFails(r)
             \/ destroySandbox(r) \/ forgetSandbox(r)
    <3> DEFINE points == {"writing", "testing", "simulating", "repairing", "destroying",
                          "leaving"}
    <3>0. run[r] \in Run
      BY <1>0
    <3>1. \/ \E point \in points : run' = [run EXCEPT ![r] = [run[r] EXCEPT !.at = point]]
          \/ run' = [run EXCEPT ![r] = [run[r] EXCEPT !.at = "writing", !.buildable = FALSE]]
          \/ run' = [run EXCEPT ![r] = idle]
      BY <2>2 DEF createSandbox, writeFiles, tested, repaired, buildFails, destroySandbox,
             forgetSandbox, endBuild, goTo, setRun
    <3>2. \A p \in Request : run'[p] = run[p] \/ run'[p].at \in points \cup {"idle"}
      <4>1. CASE \E point \in points : run' = [run EXCEPT ![r] = [run[r] EXCEPT !.at = point]]
        BY <1>0, <3>0, <4>1 DEF Run
      <4>2. CASE run' = [run EXCEPT ![r] = [run[r] EXCEPT !.at = "writing", !.buildable = FALSE]]
        BY <1>0, <3>0, <4>2 DEF Run
      <4>3. CASE run' = [run EXCEPT ![r] = idle]
        BY <1>0, <4>3, IdleRun
      <4> QED BY <3>1, <4>1, <4>2, <4>3
    <3>4. \A point \in points \cup {"idle"} : point \notin Calling
      BY DEF Calling
    <3>3. UNCHANGED quota
      BY <2>2 DEF createSandbox, writeFiles, tested, repaired, buildFails, destroySandbox,
             forgetSandbox
    <3> HIDE DEF points
    <3> QED BY <3>2, <3>3, <3>4, QuietMoves
  <2> QED BY <1>2, <2>1, <2>2 DEF handlerStep
<1>3. ASSUME restart PROVE \A b \in Build : SpendMove(b)
  <2>1. UNCHANGED quota /\ \A p \in Request : run'[p].at \notin Calling
    BY <1>3, IdleRun, Apart DEF restart
  <2> QED BY <2>1, QuietMoves
<1>4. ASSUME UNCHANGED vars PROVE \A b \in Build : SpendMove(b)
  BY <1>4, QuietMoves DEF vars
<1> QED BY <1>1, <1>2, <1>3, <1>4 DEF Next

\* However requests race for a build's last model requests, it overshoots the
\* limit by no more than each request can make beyond its reservation, for any
\* limit, any usage and any number of requests (quota.ts reserve, settle).
THEOREM OvershootHolds == Spec => []OvershootIsBounded
<1>1. Init => SpentInv
  <2> SUFFICES ASSUME Init, NEW b \in Build
               PROVE  Spent(b) + Cardinality(inCall(b)) * (LargestUsage - 1)
                        <= modelRequestsPerBuild + Cardinality(Request) * (LargestUsage - 1)
    BY DEF SpentInv
  <2>1. Spent(b) = 0
    BY DEF Init, Spent
  <2>2. modelRequestsPerBuild \in Nat /\ LargestUsage - 1 \in Nat
    BY PipelineAssumption, UsageBounds
  <2>3. Cardinality(inCall(b)) * (LargestUsage - 1) <= Cardinality(Request) * (LargestUsage - 1)
        /\ Cardinality(inCall(b)) * (LargestUsage - 1) \in Nat
        /\ Cardinality(Request) * (LargestUsage - 1) \in Nat
    BY <2>2, CallsAreRequests, FewerCostLess
  <2> QED BY <2>1, <2>2, <2>3
<1>2. PipelineInv /\ PipelineInv' /\ SpentInv /\ [Next]_vars => SpentInv'
  BY StepsMove, MovesKeep
<1>3. PipelineInv /\ SpentInv => OvershootIsBounded
  <2> SUFFICES ASSUME PipelineInv, SpentInv, NEW b \in Build
               PROVE  Spent(b) <= modelRequestsPerBuild + Cardinality(Request) * (LargestUsage - 1)
    BY DEF OvershootIsBounded, Spent, LargestUsage
  <2>1. Cardinality(inCall(b)) * (LargestUsage - 1) \in Nat
    BY UsageBounds, CallsAreRequests, FewerCostLess
  <2>2. Cardinality(Request) * (LargestUsage - 1) \in Nat
    BY UsageBounds, CallsAreRequests, FewerCostLess
  <2>3. Spent(b) \in Nat /\ modelRequestsPerBuild \in Nat
    BY PipelineAssumption DEF PipelineInv, TypeOK, Spent
  <2>4. Spent(b) + Cardinality(inCall(b)) * (LargestUsage - 1)
          <= modelRequestsPerBuild + Cardinality(Request) * (LargestUsage - 1)
    BY DEF SpentInv
  <2> QED BY <2>1, <2>2, <2>3, <2>4
<1> QED BY <1>1, <1>2, <1>3, PipelineIsSound, PTL DEF Spec
=============================================================================
