----------------------------- MODULE ControlProofs -----------------------------
(***************************************************************************)
(* What ForkRuntime promises, for any number of drivers, steps, proposals  *)
(* and approve requests in progress, and what the control plane promises   *)
(* over it, for any number of requests, operations and client keys.  The   *)
(* runtime's properties are about records on the fork; what makes them     *)
(* inductive is what the tick in flight and each approve request know      *)
(* about the record they are working on.  The control plane moves the      *)
(* runtime only in ways the runtime allows, so the runtime's invariant     *)
(* holds under it as well.                                                 *)
(***************************************************************************)
EXTENDS ControlPlane, TLAPS

\* Before s, every step of the set is done.
UpTo(s, done) == \A t \in Step : t < s => t \in done

\* The places of a tick that has no record in hand.
Resting == {"idle", "observing", "positions", "deciding"}

\* A tick that prepares holds a fresh record of its own driver, which nobody
\* can have answered; one that executes holds an allowed record.
TickSound ==
  LET p == tick.id IN
  /\ tick.at \in Resting => tick.step = 1
  /\ tick.at \in {"preparing", "executing", "observed"} => p \in 1..made
  /\ tick.at \in {"preparing", "executing"} => tick.step \in Step
  /\ tick.at = "preparing" =>
       /\ decisions[p].driver = tick.driver /\ ~outstanding(tick.driver)
       /\ decisions[p].used = {}
       /\ p \notin declined /\ ~inApproval(p)
  /\ tick.at \in {"executing", "observed"} => decisions[p].verdict = "ALLOW"
  /\ tick.at = "executing" => UpTo(tick.step, decisions[p].used)
  /\ tick.at = "observed" => decisions[p].used = Step

\* An approve request works on an escalation that was asked for, and executes
\* once every step is approved and the escalation has left the map.
ApproveSound(c) ==
  LET p == approving[c].id IN
  approving[c].at # "idle" =>
    /\ p \in 1..made /\ p \in asked /\ decisions[p].verdict = "ESCALATE"
    /\ p \in declined => p \in raced
    /\ approving[c].at \in {"relaying", "executing"} => approving[c].step \in Step
    /\ approving[c].at = "relaying" => UpTo(approving[c].step, decisions[p].approved)
    /\ approving[c].at \in {"executing", "observed"} =>
         decisions[p].approved = Step /\ p \notin pending
    /\ approving[c].at = "executing" => UpTo(approving[c].step, decisions[p].used)
    /\ approving[c].at = "observed" => decisions[p].used = Step

\* A pending record has not run; the rest are the properties, record by record.
DecisionSound(p) ==
  /\ p \in pending =>
       decisions[p].verdict = "ESCALATE" /\ decisions[p].used = {} /\ p \notin declined
  /\ decisions[p].verdict = "ESCALATE" /\ decisions[p].used # {} =>
       p \in asked /\ decisions[p].approved = Step
  /\ decisions[p].executed =>
       /\ decisions[p].used = Step
       /\ decisions[p].approvedByHuman <=> decisions[p].verdict = "ESCALATE"
  /\ decisions[p].approvedByHuman => decisions[p].verdict = "ESCALATE"
  /\ p \in declined \ raced => decisions[p].verdict = "ESCALATE" /\ decisions[p].used = {}

RuntimeInv ==
  /\ TypeOK
  /\ declined \subseteq 1..made
  /\ TickSound
  /\ \A c \in Caller : ApproveSound(c)
  /\ \A p \in 1..made : DecisionSound(p)
  /\ OneOpenQuestion

-----------------------------------------------------------------------------
(* Records and ticks, as the actions make them.                            *)

\* The tick that is not running is a tick.
LEMMA IdleTick == idleTick \in Tick
BY RuntimeAssumption DEF idleTick, Tick, Need

\* What the actions leave of a tick that has no record in hand.
Rests(t) == t \in Tick /\ t.at \in Resting /\ t.step = 1

\* settle and nextDriver leave a tick without a record.
LEMMA NextDriver ==
  ASSUME TypeOK, settle \/ nextDriver
  PROVE  Rests(tick') /\ timer' \in {"null", "set", "fired"}
                      /\ loop' \in {"none", "start", "loop"}
<1>1. CASE settle
  BY <1>1, IdleTick DEF settle, Rests, Resting, idleTick, TypeOK
<1>2. CASE nextDriver
  <2>1. CASE tick.driver = Drivers
    <3>1. settle
      BY <1>2, <2>1 DEF nextDriver
    <3> QED BY <3>1, IdleTick DEF settle, Rests, Resting, idleTick, TypeOK
  <2>2. CASE tick.driver # Drivers
    <3>1. tick.driver + 1 \in 1..Drivers
      BY <2>2, RuntimeAssumption DEF TypeOK, Tick
    <3>2. tick' = [tick EXCEPT !.at = "deciding", !.driver = @ + 1, !.id = 0, !.step = 1]
          /\ UNCHANGED <<timer, loop>>
      BY <1>2, <2>2 DEF nextDriver
    <3>3. 0 \in 0..MaxProposals /\ 1 \in 1..Steps + 1
      BY RuntimeAssumption
    <3> QED BY <3>1, <3>2, <3>3 DEF Rests, Resting, TypeOK, Tick
  <2> QED BY <2>1, <2>2
<1> QED BY <1>1, <1>2

\* A tick without a record has nothing to be sound about.
LEMMA RestsIsSound == ASSUME Rests(tick') PROVE TickSound'
BY DEF Rests, Resting, TickSound

\* What every update of one record leaves alone.
Same(q) ==
  /\ decisions'[q].driver = decisions[q].driver
  /\ decisions'[q].verdict = decisions[q].verdict
  /\ decisions'[q].executed = decisions[q].executed
  /\ decisions'[q].approvedByHuman = decisions[q].approvedByHuman

\* A submitted transaction: the step of p is used, nothing else.
Ran(p, s) ==
  /\ decisions' \in [1..made -> Decision]
  /\ need' \in [1..Drivers -> Need] /\ enabled' \in BOOLEAN /\ bound' \in BOOLEAN
  /\ \A q \in 1..made :
       Same(q) /\ decisions'[q].approved = decisions[q].approved
  /\ \A q \in 1..made : q # p => decisions'[q].used = decisions[q].used
  /\ decisions'[p].used = decisions[p].used \cup {s}

\* runStep does just that.
LEMMA RunStep ==
  ASSUME TypeOK, NEW p \in 1..made, NEW s \in Step, runStep(p, s)
  PROVE  Ran(p, s)
<1>1. decisions' = [decisions EXCEPT ![p].used = @ \cup {s}]
  BY DEF runStep
<1>2. decisions \in [1..made -> Decision]
  BY DEF TypeOK
<1>3. decisions' \in [1..made -> Decision]
  BY <1>1, <1>2 DEF Decision
<1>4. need' \in [1..Drivers -> Need]
  BY <1>2 DEF runStep, needAfter, TypeOK, Decision, Need
<1>5. \A q \in 1..made : Same(q) /\ decisions'[q].approved = decisions[q].approved
  BY <1>1, <1>2 DEF Same, Decision
<1>6. \A q \in 1..made : q # p => decisions'[q].used = decisions[q].used
  BY <1>1, <1>2 DEF Decision
<1>7. decisions'[p].used = decisions[p].used \cup {s}
  BY <1>1, <1>2 DEF Decision
<1> QED BY <1>3, <1>4, <1>5, <1>6, <1>7 DEF Ran, runStep, TypeOK

\* A recorded approval: the step of p is approved, nothing else.
Relayed(p, s) ==
  /\ decisions' \in [1..made -> Decision]
  /\ \A q \in 1..made : Same(q) /\ decisions'[q].used = decisions[q].used
  /\ \A q \in 1..made : q # p => decisions'[q].approved = decisions[q].approved
  /\ decisions'[p].approved = decisions[p].approved \cup {s}

\* submitApproval does just that.
LEMMA Relay ==
  ASSUME TypeOK, NEW p \in 1..made, NEW s \in Step,
         decisions' = [decisions EXCEPT ![p].approved = @ \cup {s}]
  PROVE  Relayed(p, s)
<1>1. decisions \in [1..made -> Decision]
  BY DEF TypeOK
<1>2. decisions' \in [1..made -> Decision]
  BY <1>1 DEF Decision
<1> QED BY <1>1, <1>2 DEF Relayed, Same, Decision

\* A recorded authorization, or the passing of its expiry: nothing a property
\* speaks of changes.
Noted ==
  /\ decisions' \in [1..made -> Decision]
  /\ \A q \in 1..made :
       /\ Same(q)
       /\ decisions'[q].used = decisions[q].used
       /\ decisions'[q].approved = decisions[q].approved

\* recordAuthorization and the clock do just that.
LEMMA Note ==
  ASSUME TypeOK, NEW p \in 1..made, NEW s \in Step,
         \/ decisions' = [decisions EXCEPT ![p].authorized = @ \cup {s}]
         \/ decisions' = [decisions EXCEPT ![p].lapsed = TRUE]
         \/ decisions' = decisions
  PROVE  Noted
<1>1. decisions \in [1..made -> Decision]
  BY DEF TypeOK
<1>2. CASE decisions' = [decisions EXCEPT ![p].authorized = @ \cup {s}]
  <2>1. decisions' \in [1..made -> Decision]
    BY <1>1, <1>2 DEF Decision
  <2> QED BY <1>1, <1>2, <2>1 DEF Noted, Same, Decision
<1>3. CASE decisions' = [decisions EXCEPT ![p].lapsed = TRUE]
  <2>1. decisions' \in [1..made -> Decision]
    BY <1>1, <1>3 DEF Decision
  <2> QED BY <1>1, <1>3, <2>1 DEF Noted, Same, Decision
<1>4. CASE decisions' = decisions
  BY <1>1, <1>4 DEF Noted, Same
<1> QED BY <1>2, <1>3, <1>4

-----------------------------------------------------------------------------
(* What the record's new contents mean for the invariant.                  *)

\* The rest of the invariant, the tick apart.
Rest ==
  /\ declined \subseteq 1..made
  /\ \A c \in Caller : ApproveSound(c)
  /\ \A p \in 1..made : DecisionSound(p)
  /\ OneOpenQuestion

\* Nothing the properties speak of changes.
LEMMA NotedKeeps ==
  ASSUME RuntimeInv, Noted, UNCHANGED <<made, pending, approving, past>>
  PROVE  Rest'
<1> USE DEF RuntimeInv, Noted, Same, past
<1>1. (\A c \in Caller : ApproveSound(c))'
  BY DEF ApproveSound, UpTo
<1>2. (\A p \in 1..made : DecisionSound(p))'
  BY DEF DecisionSound
<1>3. OneOpenQuestion'
  BY DEF OneOpenQuestion, TypeOK
<1> QED BY <1>1, <1>2, <1>3 DEF Rest

\* The tick in flight runs a step of its allowed record.
LEMMA TickRuns ==
  ASSUME RuntimeInv, tick.at = "executing", runStep(tick.id, tick.step),
         UNCHANGED <<made, pending, approving, past>>
  PROVE  Ran(tick.id, tick.step) /\ Rest'
<1> DEFINE p == tick.id  s == tick.step
<1> USE DEF RuntimeInv, past
<1>1. p \in 1..made /\ s \in Step /\ decisions[p].verdict = "ALLOW"
  BY DEF TickSound
<1>2. Ran(p, s)
  BY <1>1, RunStep
<1>3. (\A c \in Caller : ApproveSound(c))'
  <2> SUFFICES ASSUME NEW c \in Caller PROVE ApproveSound(c)'
    OBVIOUS
  <2>1. CASE approving[c].at = "idle"
    BY <2>1 DEF ApproveSound
  <2>2. CASE approving[c].at # "idle"
    <3>1. approving[c].id \in 1..made /\ approving[c].id # p
      BY <1>1, <2>2 DEF ApproveSound
    <3> HIDE DEF p, s
    <3> QED BY <3>1, <1>2 DEF Ran, Same, ApproveSound, UpTo
  <2> QED BY <2>1, <2>2
<1>4. (\A q \in 1..made : DecisionSound(q))'
  <2> SUFFICES ASSUME NEW q \in 1..made PROVE DecisionSound(q)'
    OBVIOUS
  <2>1. decisions[q].used \subseteq Step
    BY DEF TypeOK, Decision
  <2>2. DecisionSound(q)
    OBVIOUS
  <2>3. s \in Step /\ (q = p => decisions[q].verdict = "ALLOW")
    BY <1>1
  <2> HIDE DEF p, s
  <2>4. CASE q = p
    BY <2>1, <2>2, <2>3, <2>4, <1>2 DEF Ran, Same, DecisionSound
  <2>5. CASE q # p
    BY <2>2, <2>5, <1>2 DEF Ran, Same, DecisionSound
  <2> QED BY <2>4, <2>5
<1>5. OneOpenQuestion'
  <2> HIDE DEF p, s
  <2> QED BY <1>2 DEF Ran, Same, OneOpenQuestion, TypeOK
<1> QED BY <1>2, <1>3, <1>4, <1>5 DEF Rest

\* An approve request runs a step of its approved record; what is left to show
\* is where the request is then.
LEMMA ApproverRuns ==
  ASSUME RuntimeInv, NEW c \in Caller, approving[c].at = "executing",
         runStep(approving[c].id, approving[c].step),
         UNCHANGED <<tick, made, pending, past>>,
         \A b \in Caller : b # c => approving'[b] = approving[b],
         approving'[c].at # "idle" => approving'[c].id = approving[c].id
  PROVE  /\ Ran(approving[c].id, approving[c].step)
         /\ declined' \subseteq 1..made' /\ OneOpenQuestion' /\ TickSound'
         /\ \A q \in 1..made : DecisionSound(q)'
         /\ \A b \in Caller \ {c} : ApproveSound(b)'
<1> DEFINE p == approving[c].id  s == approving[c].step
<1> USE DEF RuntimeInv, past
<1>1. /\ p \in 1..made /\ s \in Step /\ decisions[p].verdict = "ESCALATE"
      /\ decisions[p].approved = Step /\ p \notin pending /\ p \in asked
      /\ p \in declined => p \in raced
  BY DEF ApproveSound
<1>2. Ran(p, s)
  BY <1>1, RunStep
<1>3. \A b \in Caller \ {c} : ApproveSound(b)'
  <2> SUFFICES ASSUME NEW b \in Caller \ {c} PROVE ApproveSound(b)'
    OBVIOUS
  <2>1. approving'[b] = approving[b] /\ ApproveSound(b)
    OBVIOUS
  <2>2. CASE approving[b].at = "idle"
    BY <2>1, <2>2 DEF ApproveSound
  <2>3. CASE approving[b].at # "idle"
    <3>1. approving[b].id \in 1..made /\ decisions[approving[b].id].used \subseteq Step
      BY <2>1, <2>3 DEF ApproveSound, TypeOK, Decision
    <3> HIDE DEF p, s
    <3>2. decisions[approving[b].id].used \subseteq decisions'[approving[b].id].used
      BY <1>2, <3>1 DEF Ran
    <3>3. decisions'[approving[b].id].used \subseteq Step
      BY <1>2, <3>1 DEF Ran, Decision
    <3>4. decisions[approving[b].id].used = Step => decisions'[approving[b].id].used = Step
      BY <3>2, <3>3
    <3> QED BY <2>1, <3>1, <3>2, <3>4, <1>2 DEF Ran, Same, ApproveSound, UpTo
  <2> QED BY <2>2, <2>3
<1>4. \A q \in 1..made : DecisionSound(q)'
  <2> SUFFICES ASSUME NEW q \in 1..made PROVE DecisionSound(q)'
    OBVIOUS
  <2>1. decisions[q].used \subseteq Step
    BY DEF TypeOK, Decision
  <2>2. DecisionSound(q)
    OBVIOUS
  <2>3. /\ s \in Step /\ p \notin pending /\ p \in asked /\ (p \in declined => p \in raced)
        /\ (q = p => decisions[q].approved = Step)
    BY <1>1
  <2> HIDE DEF p, s
  <2>4. CASE q = p
    BY <2>1, <2>2, <2>3, <2>4, <1>2 DEF Ran, Same, DecisionSound
  <2>5. CASE q # p
    BY <2>2, <2>5, <1>2 DEF Ran, Same, DecisionSound
  <2> QED BY <2>4, <2>5
<1>5. OneOpenQuestion'
  <2> HIDE DEF p, s
  <2> QED BY <1>2 DEF Ran, Same, OneOpenQuestion, TypeOK
<1>6. TickSound'
  <2>1. tick.at \in {"preparing", "executing", "observed"} => tick.id \in 1..made /\ tick.id # p
    BY <1>1 DEF TickSound, inApproval
  <2>2. tick.at = "preparing" => ~inApproval(tick.id)'
    BY <2>1 DEF TickSound, inApproval
  <2>3. \A d : outstanding(d)' => outstanding(d)
    <3> HIDE DEF p, s
    <3> QED BY <1>2 DEF Ran, Same, outstanding, TypeOK
  <2> HIDE DEF p, s
  <2> QED BY <2>1, <2>2, <2>3, <1>2 DEF Ran, Same, TickSound, UpTo
<1> QED BY <1>2, <1>3, <1>4, <1>5, <1>6

\* An approval is recorded; again the request's own place is left to show.
LEMMA ApproverRelays ==
  ASSUME RuntimeInv, NEW c \in Caller, approving[c].at = "relaying",
         Relayed(approving[c].id, approving[c].step),
         pending' \in {pending, pending \ {approving[c].id}},
         UNCHANGED <<tick, made, past>>,
         \A b \in Caller : b # c => approving'[b] = approving[b],
         approving'[c].at # "idle" => approving'[c].id = approving[c].id
  PROVE  /\ declined' \subseteq 1..made' /\ OneOpenQuestion' /\ TickSound'
         /\ \A q \in 1..made : DecisionSound(q)'
         /\ \A b \in Caller \ {c} : ApproveSound(b)'
<1> DEFINE p == approving[c].id  s == approving[c].step
<1> USE DEF RuntimeInv, past
<1>1. p \in 1..made /\ s \in Step
  BY DEF ApproveSound
<1>2. Relayed(p, s)
  OBVIOUS
<1>3. \A b \in Caller \ {c} : ApproveSound(b)'
  <2> SUFFICES ASSUME NEW b \in Caller \ {c} PROVE ApproveSound(b)'
    OBVIOUS
  <2>1. approving'[b] = approving[b] /\ ApproveSound(b)
    OBVIOUS
  <2>2. CASE approving[b].at = "idle"
    BY <2>1, <2>2 DEF ApproveSound
  <2>3. CASE approving[b].at # "idle"
    <3>1. approving[b].id \in 1..made /\ pending' \subseteq pending
      BY <2>1, <2>3 DEF ApproveSound
    <3> HIDE DEF p, s
    <3>2. decisions[approving[b].id].approved \subseteq decisions'[approving[b].id].approved
      BY <1>2, <3>1 DEF Relayed
    <3>3. decisions'[approving[b].id].approved \subseteq Step
      BY <1>2, <3>1 DEF Relayed, Decision
    <3>4. decisions[approving[b].id].approved = Step
            => decisions'[approving[b].id].approved = Step
      BY <3>2, <3>3
    <3> QED BY <2>1, <3>1, <3>2, <3>4, <1>2 DEF Relayed, Same, ApproveSound, UpTo
  <2> QED BY <2>2, <2>3
<1>4. \A q \in 1..made : DecisionSound(q)'
  <2> SUFFICES ASSUME NEW q \in 1..made PROVE DecisionSound(q)'
    OBVIOUS
  <2>1. DecisionSound(q) /\ pending' \subseteq pending
    OBVIOUS
  <2> HIDE DEF p, s
  <2>2. decisions[q].approved \subseteq decisions'[q].approved
    BY <1>2 DEF Relayed
  <2>3. decisions'[q].approved \subseteq Step
    BY <1>2 DEF Relayed, Decision
  <2>4. decisions[q].approved = Step => decisions'[q].approved = Step
    BY <2>2, <2>3
  <2> QED BY <2>1, <2>4, <1>2 DEF Relayed, Same, DecisionSound
<1>5. OneOpenQuestion'
  <2>1. pending' \subseteq pending
    OBVIOUS
  <2> HIDE DEF p, s
  <2> QED BY <1>2, <2>1 DEF Relayed, Same, OneOpenQuestion, TypeOK
<1>6. TickSound'
  <2>1. tick.at = "preparing" => ~inApproval(tick.id)'
    BY DEF TickSound, inApproval
  <2>2. \A d : outstanding(d)' => outstanding(d)
    <3>1. pending' \subseteq pending
      OBVIOUS
    <3> HIDE DEF p, s
    <3> QED BY <1>2, <3>1 DEF Relayed, Same, outstanding, TypeOK
  <2> HIDE DEF p, s
  <2> QED BY <2>1, <2>2, <1>2 DEF Relayed, Same, TickSound, UpTo
<1> QED BY <1>3, <1>4, <1>5, <1>6

-----------------------------------------------------------------------------
(* One lemma per action.                                                   *)

\* A tick that begins is a tick, and has no record yet.
LEMMA BeginTick == ASSUME beginTick PROVE Rests(tick')
BY IdleTick DEF beginTick, idleTick, Rests, Resting, Tick

\* Records, answers and the tick's record stay: only the loop and the tick move.
LEMMA LoopKeeps ==
  ASSUME RuntimeInv, Rests(tick'),
         state' \in [paused : BOOLEAN, stopping : BOOLEAN, started : BOOLEAN],
         timer' \in {"null", "set", "fired"}, loop' \in {"none", "start", "loop"},
         lastVerdict' \in [1..Drivers -> {"NONE", "ESCALATE", "DENY"}],
         UNCHANGED <<chain, made, decisions, pending, approving, past>>
  PROVE  RuntimeInv'
<1> USE DEF RuntimeInv, chain, past
<1>1. TypeOK'
  BY DEF TypeOK, Rests
<1>2. TickSound'
  BY RestsIsSound
<1>3. (\A c \in Caller : ApproveSound(c))'
  BY DEF ApproveSound
<1>4. (\A p \in 1..made : DecisionSound(p))'
  BY DEF DecisionSound
<1>5. OneOpenQuestion'
  BY DEF OneOpenQuestion
<1> QED BY <1>1, <1>2, <1>3, <1>4, <1>5

\* start keeps the invariant.
LEMMA start_Keeps == ASSUME RuntimeInv, start PROVE RuntimeInv'
<1>1. state' \in [paused : BOOLEAN, stopping : BOOLEAN, started : BOOLEAN]
  BY DEF start, RuntimeInv, TypeOK
<1>2. CASE state.stopping \/ state.paused
  <2>1. RuntimeInv /\ tick' = tick /\ timer' = "set" /\ loop' = loop
        /\ UNCHANGED <<chain, book, approving, past>>
    BY <1>2 DEF start
  <2>2. TypeOK'
    BY <1>1, <2>1 DEF RuntimeInv, TypeOK, chain, book, past
  <2> QED BY <2>1, <2>2 DEF RuntimeInv, TickSound, ApproveSound, DecisionSound,
        OneOpenQuestion, outstanding, inApproval, chain, book, past
<1>3. CASE ~(state.stopping \/ state.paused)
  BY <1>1, <1>3, BeginTick, LoopKeeps DEF start, RuntimeInv, TypeOK, book
<1> QED BY <1>2, <1>3

\* timerFires keeps the invariant.
LEMMA timerFires_Keeps == ASSUME RuntimeInv, timerFires PROVE RuntimeInv'
<1>1. CASE tick' = tick
  <2>1. TypeOK'
    BY <1>1 DEF timerFires, RuntimeInv, TypeOK, chain, book, past
  <2> QED BY <1>1, <2>1 DEF timerFires, RuntimeInv, TickSound, ApproveSound,
        DecisionSound, OneOpenQuestion, outstanding, inApproval, chain, book, past
<1>2. CASE beginTick
  <2>1. timer' \in {"null", "set", "fired"} /\ loop' \in {"none", "start", "loop"}
    BY DEF timerFires, RuntimeInv, TypeOK
  <2> QED BY <1>2, <2>1, BeginTick, LoopKeeps DEF timerFires, RuntimeInv, TypeOK, book
<1> QED BY <1>1, <1>2 DEF timerFires

\* tickNow keeps the invariant.
LEMMA tickNow_Keeps == ASSUME RuntimeInv, tickNow PROVE RuntimeInv'
BY BeginTick, LoopKeeps DEF tickNow, RuntimeInv, TypeOK, book, clock

\* observePolicy keeps the invariant.
LEMMA observePolicy_Keeps == ASSUME RuntimeInv, observePolicy PROVE RuntimeInv'
<1>1. Rests(tick')
  BY DEF observePolicy, Rests, Resting, TickSound, RuntimeInv, TypeOK, Tick
<1> QED BY <1>1, LoopKeeps DEF observePolicy, RuntimeInv, TypeOK, book, clock

\* observePositions keeps the invariant.
LEMMA observePositions_Keeps == ASSUME RuntimeInv, observePositions PROVE RuntimeInv'
<1>1. Rests(tick')
  BY DEF observePositions, Rests, Resting, TickSound, RuntimeInv, TypeOK, Tick
<1> QED BY <1>1, LoopKeeps DEF observePositions, RuntimeInv, TypeOK, book, clock

\* decideNothing keeps the invariant.
LEMMA decideNothing_Keeps == ASSUME RuntimeInv, decideNothing PROVE RuntimeInv'
<1>1. Rests(tick') /\ timer' \in {"null", "set", "fired"} /\ loop' \in {"none", "start", "loop"}
  BY NextDriver DEF decideNothing, RuntimeInv
<1>2. lastVerdict' \in [1..Drivers -> {"NONE", "ESCALATE", "DENY"}]
  BY DEF decideNothing, RuntimeInv, TypeOK, Tick
<1> QED BY <1>1, <1>2, LoopKeeps DEF decideNothing, RuntimeInv, TypeOK

\* decide keeps the invariant: the new record is nobody's yet.
LEMMA decide_Keeps == ASSUME RuntimeInv, decide PROVE RuntimeInv'
<1>0. PICK n \in Nat : n = made + 1
  BY DEF RuntimeInv, TypeOK
<1>1. /\ made \in 0..MaxProposals /\ made < MaxProposals /\ evaluate \in Verdict
      /\ made' = n /\ decisions \in [1..made -> Decision] /\ tick \in Tick
      /\ tick' = [tick EXCEPT !.at = "preparing", !.id = n]
      /\ tick.driver \in 1..Drivers /\ pending \subseteq 1..made /\ declined \subseteq 1..made
      /\ UNCHANGED <<chain, clock, pending, approving, past>>
      /\ ~outstanding(tick.driver)
  BY <1>0 DEF decide, RuntimeInv, TypeOK, Tick
<1>2. n \in 1..MaxProposals /\ n \in 0..MaxProposals /\ n \in 1..n /\ n \notin 1..made
      /\ 1..made \subseteq 1..n /\ n \in 0..MaxProposals /\ \A p \in 1..n : p # n => p \in 1..made
  BY <1>0, <1>1, RuntimeAssumption
<1>3. newDecision(evaluate) \in Decision
  BY <1>1 DEF newDecision, Decision
<1>4. decisions' = [p \in 1..n |-> IF p = n THEN newDecision(evaluate) ELSE decisions[p]]
  BY <1>0 DEF decide
<1>5. decisions' \in [1..n -> Decision] /\ decisions'[n] = newDecision(evaluate)
      /\ \A p \in 1..made : decisions'[p] = decisions[p]
  BY <1>1, <1>2, <1>3, <1>4
<1>6. lastVerdict' \in [1..Drivers -> {"NONE", "ESCALATE", "DENY"}]
  BY <1>1 DEF decide, RuntimeInv, TypeOK, remembered, Verdict
<1>7. tick' \in Tick /\ tick'.at = "preparing" /\ tick'.id = n /\ tick'.driver = tick.driver
      /\ tick'.step = tick.step
  BY <1>1, <1>2 DEF Tick
<1>8. tick.step \in Step
  BY RuntimeAssumption DEF decide, RuntimeInv, TickSound, Resting, Step
<1>9. TypeOK'
  BY <1>1, <1>2, <1>5, <1>6, <1>7 DEF RuntimeInv, TypeOK, chain, clock, past
<1>10. (declined \subseteq 1..made)'
  BY <1>1, <1>2 DEF past
<1>11. (\A c \in Caller : ApproveSound(c))'
  BY <1>1, <1>2, <1>5 DEF RuntimeInv, ApproveSound, past
<1>12. \A p \in 1..made : DecisionSound(p)'
  BY <1>1, <1>5 DEF RuntimeInv, DecisionSound, past
<1>13. DecisionSound(n)'
  BY <1>1, <1>2, <1>5 DEF DecisionSound, newDecision, past
<1>14. OneOpenQuestion'
  BY <1>1, <1>2, <1>5 DEF RuntimeInv, OneOpenQuestion
<1>15. ~outstanding(tick.driver)'
  BY <1>1, <1>2, <1>5 DEF outstanding
<1>16. ~inApproval(n)'
  BY <1>1, <1>2 DEF RuntimeInv, ApproveSound, inApproval
<1>17. TickSound'
  BY <1>1, <1>2, <1>5, <1>7, <1>8, <1>15, <1>16 DEF TickSound, Resting, newDecision, past, outstanding
<1> QED BY <1>1, <1>2, <1>9, <1>10, <1>11, <1>12, <1>13, <1>14, <1>17 DEF RuntimeInv

\* The record of the tick that prepares is authorized for one more step.
LEMMA Authorizes ==
  ASSUME RuntimeInv, tick.at = "preparing",
         decisions' = [decisions EXCEPT ![tick.id].authorized = @ \cup {tick.step}],
         UNCHANGED <<made, approving, past>>
  PROVE  Noted /\ (pending' = pending => Rest')
<1>1. tick.id \in 1..made /\ tick.step \in Step
  BY DEF RuntimeInv, TickSound
<1>2. Noted
  BY <1>1, Note DEF RuntimeInv
<1> QED BY <1>2, NotedKeeps

\* The invariant follows from its parts.
LEMMA Assembled ==
  ASSUME TypeOK', TickSound', Rest' PROVE RuntimeInv'
BY DEF Rest, RuntimeInv

\* prepare keeps the invariant.
LEMMA prepare_Keeps == ASSUME RuntimeInv, prepare PROVE RuntimeInv'
<1>1. /\ tick.at = "preparing" /\ UNCHANGED <<chain, state, made, lastVerdict, approving, past>>
      /\ decisions' = [decisions EXCEPT ![tick.id].authorized = @ \cup {tick.step}]
  BY DEF prepare
<1>2. Noted /\ (pending' = pending => Rest')
  BY <1>1, Authorizes
<1>3. /\ tick.id \in 1..made /\ tick.step \in Step /\ tick \in Tick
      /\ decisions[tick.id].driver = tick.driver /\ ~outstanding(tick.driver)
      /\ decisions[tick.id].used = {} /\ tick.id \notin declined /\ ~inApproval(tick.id)
  BY <1>1 DEF RuntimeInv, TypeOK, TickSound
<1>4. ASSUME tick' \in Tick, timer' \in {"null", "set", "fired"},
             loop' \in {"none", "start", "loop"}, pending' \subseteq 1..made
      PROVE  TypeOK'
  BY <1>1, <1>2, <1>4 DEF Noted, RuntimeInv, TypeOK, chain, past
<1>5. CASE tick.step < Steps /\ tick' = [tick EXCEPT !.step = @ + 1]
           /\ UNCHANGED <<pending, timer, loop>>
  <2>1. tick' \in Tick /\ tick'.step \in Step /\ tick'.id = tick.id /\ tick'.at = "preparing"
        /\ tick'.driver = tick.driver
    <3>1. tick.step + 1 \in 1..Steps + 1 /\ tick.step + 1 \in Step
      BY <1>3, <1>5, RuntimeAssumption DEF Step
    <3> QED BY <1>1, <1>3, <1>5, <3>1 DEF Tick
  <2>2. TypeOK'
    BY <1>4, <1>5, <2>1 DEF RuntimeInv, TypeOK
  <2>3. ~outstanding(tick.driver)'
    BY <1>2, <1>3, <1>5, <2>1 DEF Noted, Same, outstanding, RuntimeInv, TypeOK
  <2>4. TickSound'
    BY <1>1, <1>2, <1>3, <2>1, <2>3 DEF TickSound, Resting, Noted, Same, outstanding, inApproval, past
  <2> QED BY <1>2, <1>5, <2>2, <2>4, Assembled
<1>6. CASE tick.step = Steps /\ decisions[tick.id].verdict = "ALLOW"
           /\ tick' = [tick EXCEPT !.at = "executing", !.step = 1]
           /\ UNCHANGED <<pending, timer, loop>>
  <2>1. tick' \in Tick /\ tick'.step = 1 /\ tick'.id = tick.id /\ tick'.at = "executing"
    <3>1. 1 \in 1..Steps + 1
      BY RuntimeAssumption
    <3> QED BY <1>3, <1>6, <3>1 DEF Tick
  <2>2. TypeOK'
    BY <1>4, <1>6, <2>1 DEF RuntimeInv, TypeOK
  <2>3. TickSound'
    BY <1>1, <1>2, <1>3, <1>6, <2>1, RuntimeAssumption
       DEF TickSound, Resting, Noted, Same, UpTo, Step
  <2> QED BY <1>2, <1>6, <2>2, <2>3, Assembled
<1>7. CASE tick.step = Steps /\ decisions[tick.id].verdict = "ESCALATE"
           /\ pending' = pending \cup {tick.id} /\ nextDriver
  <2>1. Rests(tick') /\ timer' \in {"null", "set", "fired"} /\ loop' \in {"none", "start", "loop"}
    BY <1>7, NextDriver DEF RuntimeInv
  <2>2. TypeOK'
    BY <1>3, <1>4, <1>7, <2>1 DEF RuntimeInv, TypeOK, Rests
  <2>3. (\A c \in Caller : ApproveSound(c))'
    BY <1>1, <1>2, <1>3, <1>7
       DEF RuntimeInv, ApproveSound, UpTo, Noted, Same, inApproval, past
  <2>4. (\A p \in 1..made : DecisionSound(p))'
    BY <1>1, <1>2, <1>3, <1>7 DEF RuntimeInv, DecisionSound, Noted, Same, past
  <2>5. OneOpenQuestion'
    <3> SUFFICES ASSUME NEW p \in pending', NEW q \in pending',
                        decisions'[p].driver = decisions'[q].driver
                 PROVE  p = q
      BY DEF OneOpenQuestion
    <3>1. decisions[p].driver = decisions[q].driver
      BY <1>2, <1>3, <1>7 DEF Noted, Same, RuntimeInv, TypeOK
    <3> QED BY <1>3, <1>7, <3>1 DEF RuntimeInv, OneOpenQuestion, outstanding
  <2>6. (declined \subseteq 1..made)'
    BY <1>1 DEF RuntimeInv, past
  <2> QED BY <2>1, <2>2, <2>3, <2>4, <2>5, <2>6, RestsIsSound DEF RuntimeInv
<1> QED BY <1>5, <1>6, <1>7 DEF prepare

\* A tick that leaves its record, which its last call may still have changed.
LEMMA LeavesRecord ==
  ASSUME RuntimeInv, settle \/ nextDriver,
         UNCHANGED <<state, made, pending, lastVerdict, approving, past>>,
         decisions' \in [1..made -> Decision],
         need' \in [1..Drivers -> Need], enabled' \in BOOLEAN, bound' \in BOOLEAN, Rest'
  PROVE  RuntimeInv'
<1>1. Rests(tick') /\ timer' \in {"null", "set", "fired"} /\ loop' \in {"none", "start", "loop"}
  BY NextDriver DEF RuntimeInv
<1>2. TypeOK'
  BY <1>1 DEF RuntimeInv, TypeOK, Rests, past
<1> QED BY <1>1, <1>2, RestsIsSound, Assembled

\* A tick that leaves its record as it is.
LEMMA LeavesUnchanged ==
  ASSUME RuntimeInv, settle \/ nextDriver,
         UNCHANGED <<state, made, pending, lastVerdict, approving, past, decisions, chain>>
  PROVE  RuntimeInv'
<1>1. Rests(tick') /\ timer' \in {"null", "set", "fired"} /\ loop' \in {"none", "start", "loop"}
  BY NextDriver DEF RuntimeInv
<1> QED BY <1>1, LoopKeeps DEF RuntimeInv, TypeOK

\* executeStep keeps the invariant.
LEMMA executeStep_Keeps == ASSUME RuntimeInv, executeStep PROVE RuntimeInv'
<1>1. tick.at = "executing" /\ UNCHANGED <<state, made, pending, lastVerdict, approving, past>>
  BY DEF executeStep
<1>2. CASE runStep(tick.id, tick.step)
           /\ tick' = (IF tick.step < Steps THEN [tick EXCEPT !.step = @ + 1]
                       ELSE [tick EXCEPT !.at = "observed"])
           /\ UNCHANGED <<timer, loop>>
  <2>1. Ran(tick.id, tick.step) /\ Rest'
    BY <1>1, <1>2, TickRuns
  <2>2. /\ tick.id \in 1..made /\ tick.step \in Step /\ tick \in Tick
        /\ decisions[tick.id].verdict = "ALLOW" /\ UpTo(tick.step, decisions[tick.id].used)
        /\ decisions'[tick.id].used \subseteq Step
    BY <1>1, <2>1 DEF RuntimeInv, TypeOK, TickSound, Ran, Decision
  <2>3. tick' \in Tick /\ tick'.id = tick.id
        /\ \/ tick'.at = "executing" /\ tick.step < Steps /\ tick'.step = tick.step + 1
           \/ tick'.at = "observed" /\ tick.step = Steps
    BY <1>1, <1>2, <2>2, RuntimeAssumption DEF Tick, Step
  <2>4. TypeOK'
    BY <1>1, <1>2, <2>1, <2>3 DEF RuntimeInv, TypeOK, Ran, past
  <2>5. \A t \in Step : t <= tick.step => t \in decisions'[tick.id].used
    <3> SUFFICES ASSUME NEW t \in Step, t <= tick.step PROVE t \in decisions'[tick.id].used
      OBVIOUS
    <3>1. t < tick.step \/ t = tick.step
      BY <2>2, RuntimeAssumption DEF Step
    <3> QED BY <2>1, <2>2, <3>1 DEF UpTo, Ran
  <2>6. decisions'[tick.id].verdict = "ALLOW"
    BY <2>1, <2>2 DEF Ran, Same
  <2>7. CASE tick'.at = "executing" /\ tick.step < Steps /\ tick'.step = tick.step + 1
    <3>1. tick'.step \in Step /\ UpTo(tick'.step, decisions'[tick.id].used)
      BY <2>2, <2>5, <2>7, RuntimeAssumption DEF Step, UpTo
    <3> QED BY <1>1, <2>1, <2>2, <2>3, <2>4, <2>6, <2>7, <3>1, Assembled DEF TickSound, Resting, UpTo
  <2>8. CASE tick'.at = "observed" /\ tick.step = Steps
    <3>1. decisions'[tick.id].used = Step
      <4>1. \A t \in Step : t <= tick.step
        BY <2>8, RuntimeAssumption DEF Step
      <4> QED BY <2>2, <2>5, <4>1
    <3> QED BY <1>1, <2>1, <2>2, <2>3, <2>4, <2>6, <2>8, <3>1, Assembled DEF TickSound, Resting
  <2> QED BY <2>3, <2>7, <2>8
<1>3. CASE nextDriver /\ UNCHANGED <<decisions, chain>>
  BY <1>1, <1>3, LeavesUnchanged
<1> QED BY <1>2, <1>3 DEF executeStep

\* executed keeps the invariant: the record is marked only when all of it ran.
LEMMA executed_Keeps == ASSUME RuntimeInv, executed PROVE RuntimeInv'
<1> DEFINE p == tick.id
<1>1. /\ tick.at = "observed" /\ decisions' = [decisions EXCEPT ![p].executed = TRUE]
      /\ UNCHANGED <<chain, state, made, pending, lastVerdict, approving, past>>
      /\ nextDriver
  BY DEF executed
<1>2. /\ p \in 1..made /\ decisions[p].verdict = "ALLOW" /\ decisions[p].used = Step
      /\ decisions \in [1..made -> Decision]
  BY <1>1 DEF RuntimeInv, TypeOK, TickSound
<1> HIDE DEF p
<1>3. decisions' \in [1..made -> Decision]
  <2>1. decisions' = [decisions EXCEPT ![p].executed = TRUE]
    BY <1>1
  <2>2. p \in 1..made /\ decisions \in [1..made -> Decision]
    BY <1>2
  <2> QED BY <2>1, <2>2 DEF Decision
<1>4. \A q \in 1..made :
        /\ decisions'[q].driver = decisions[q].driver
        /\ decisions'[q].verdict = decisions[q].verdict
        /\ decisions'[q].used = decisions[q].used
        /\ decisions'[q].approved = decisions[q].approved
        /\ decisions'[q].approvedByHuman = decisions[q].approvedByHuman
        /\ q # p => decisions'[q].executed = decisions[q].executed
  BY <1>1, <1>2 DEF Decision
<1>5. (\A c \in Caller : ApproveSound(c))'
  BY <1>1, <1>4 DEF RuntimeInv, ApproveSound, UpTo, past
<1>6. (\A q \in 1..made : DecisionSound(q))'
  BY <1>1, <1>2, <1>4 DEF RuntimeInv, DecisionSound, past
<1>7. OneOpenQuestion'
  BY <1>1, <1>4 DEF RuntimeInv, OneOpenQuestion, TypeOK
<1>8. Rest'
  BY <1>1, <1>5, <1>6, <1>7 DEF Rest, RuntimeInv, past
<1> QED BY <1>1, <1>3, <1>8, LeavesRecord DEF RuntimeInv, TypeOK, chain

\* tickFails keeps the invariant.
LEMMA tickFails_Keeps == ASSUME RuntimeInv, tickFails PROVE RuntimeInv'
<1>1. UNCHANGED <<state, made, pending, lastVerdict, approving, past>>
  BY DEF tickFails
<1>2. CASE (settle \/ nextDriver) /\ UNCHANGED <<decisions, chain>>
  BY <1>1, <1>2, LeavesUnchanged
<1>3. CASE /\ tick.at = "preparing" /\ nextDriver /\ UNCHANGED chain
           /\ decisions' = [decisions EXCEPT ![tick.id].authorized = @ \cup {tick.step}]
  <2>1. Noted /\ Rest'
    BY <1>1, <1>3, Authorizes
  <2> QED BY <1>1, <1>3, <2>1, LeavesRecord DEF Noted, RuntimeInv, TypeOK, chain
<1>4. CASE tick.at = "executing" /\ runStep(tick.id, tick.step) /\ nextDriver
  <2>1. Ran(tick.id, tick.step) /\ Rest'
    BY <1>1, <1>4, TickRuns
  <2> QED BY <1>1, <1>4, <2>1, LeavesRecord DEF Ran
<1> QED BY <1>2, <1>3, <1>4 DEF tickFails

\* The place of one approve request changes to a, the others stay.
LEMMA Moved ==
  ASSUME TypeOK, NEW c \in Caller, NEW a \in Approve,
         approving' = [approving EXCEPT ![c] = a]
  PROVE  /\ approving' \in [Caller -> Approve] /\ approving'[c] = a
         /\ \A b \in Caller : b # c => approving'[b] = approving[b]
BY DEF TypeOK

\* A request that is not in progress is a request.
LEMMA IdleApprove == idleApprove \in Approve /\ idleApprove.at = "idle"
BY RuntimeAssumption DEF idleApprove, Approve

\* approve keeps the invariant: what is asked for is pending, so not declined.
LEMMA approve_Keeps ==
  ASSUME RuntimeInv, NEW c \in Caller, NEW p \in pending, approve(c, p)
  PROVE  RuntimeInv'
<1> DEFINE a == [at |-> "relaying", id |-> p, step |-> 1]
<1>1. /\ p \in 1..made /\ p \in 0..MaxProposals /\ p \in Proposal
      /\ 1 \in 1..Steps + 1 /\ 1 \in Step
  BY RuntimeAssumption DEF RuntimeInv, TypeOK, Proposal, Step
<1>2. a \in Approve
  BY <1>1 DEF Approve
<1>3. /\ approving' = [approving EXCEPT ![c] = a] /\ asked' = asked \cup {p}
      /\ UNCHANGED <<chain, clock, tick, book, declined, raced>>
  BY DEF approve
<1>4. /\ approving' \in [Caller -> Approve] /\ approving'[c] = a
      /\ \A b \in Caller : b # c => approving'[b] = approving[b]
  BY <1>2, <1>3, Moved DEF RuntimeInv
<1>5. TypeOK'
  BY <1>1, <1>3, <1>4 DEF RuntimeInv, TypeOK, chain, clock, book
<1>6. ApproveSound(c)'
  BY <1>1, <1>3, <1>4, RuntimeAssumption DEF RuntimeInv, ApproveSound, DecisionSound, UpTo, Step, book
<1>7. \A b \in Caller : b # c => ApproveSound(b)'
  BY <1>3, <1>4 DEF RuntimeInv, ApproveSound, book
<1>8. (\A q \in 1..made : DecisionSound(q))'
  BY <1>3 DEF RuntimeInv, DecisionSound, book
<1>9. tick.at = "preparing" => p # tick.id
  BY DEF RuntimeInv, TickSound, outstanding
<1>10. TickSound'
  BY <1>3, <1>4, <1>9 DEF RuntimeInv, TickSound, outstanding, inApproval, book
<1>11. OneOpenQuestion' /\ (declined \subseteq 1..made)'
  BY <1>3 DEF RuntimeInv, OneOpenQuestion, book
<1> QED BY <1>5, <1>6, <1>7, <1>8, <1>10, <1>11 DEF RuntimeInv

\* A request that leaves while no record changes.
LEMMA LeaveKeeps ==
  ASSUME RuntimeInv, NEW c \in Caller, leave(c),
         UNCHANGED <<chain, clock, tick, made, decisions, pending, lastVerdict, past>>
  PROVE  RuntimeInv'
<1>1. /\ approving' \in [Caller -> Approve] /\ approving'[c] = idleApprove
      /\ \A b \in Caller : b # c => approving'[b] = approving[b]
  BY IdleApprove, Moved DEF leave, RuntimeInv
<1>2. TypeOK'
  BY <1>1 DEF RuntimeInv, TypeOK, chain, clock, past
<1>3. (\A b \in Caller : ApproveSound(b))'
  BY <1>1, IdleApprove DEF RuntimeInv, ApproveSound, past
<1>4. (\A q \in 1..made : DecisionSound(q))'
  BY DEF RuntimeInv, DecisionSound, past
<1>5. TickSound'
  BY <1>1, IdleApprove DEF RuntimeInv, TickSound, outstanding, inApproval, past
<1>6. OneOpenQuestion' /\ (declined \subseteq 1..made)'
  BY DEF RuntimeInv, OneOpenQuestion, past
<1> QED BY <1>2, <1>3, <1>4, <1>5, <1>6 DEF RuntimeInv

\* What an approve request knows about its record before it relays or executes.
LEMMA Holds ==
  ASSUME RuntimeInv, NEW c \in Caller, approving[c].at # "idle"
  PROVE  /\ approving[c] \in Approve /\ approving[c].id \in 1..made
         /\ approving[c].at \in {"relaying", "executing"} => approving[c].step \in Step
BY DEF RuntimeInv, TypeOK, ApproveSound

\* Recording an approval and going on, or leaving, keeps the invariant.
LEMMA relay_Keeps ==
  ASSUME RuntimeInv, NEW c \in Caller, approving[c].at = "relaying",
         decisions' = [decisions EXCEPT ![approving[c].id].approved = @ \cup {approving[c].step}],
         UNCHANGED <<chain, clock, tick, made, lastVerdict, past>>,
         \/ leave(c) /\ UNCHANGED pending
         \/ /\ approving[c].step < Steps /\ UNCHANGED pending
            /\ approving' = [approving EXCEPT ![c].step = @ + 1]
         \/ /\ approving[c].step = Steps /\ pending' = pending \ {approving[c].id}
            /\ approving' = [approving EXCEPT ![c].at = "executing", ![c].step = 1]
  PROVE  RuntimeInv'
<1>0. /\ approving[c] \in Approve /\ approving[c].id \in 1..made /\ approving[c].step \in Step
      /\ approving \in [Caller -> Approve]
  BY Holds DEF RuntimeInv, TypeOK
<1>1. PICK p \in 1..made, s \in Step : p = approving[c].id /\ s = approving[c].step
  BY <1>0
<1>2. Relayed(p, s)
  BY <1>1, Relay DEF RuntimeInv
<1>3. /\ p \in asked /\ decisions[p].verdict = "ESCALATE" /\ (p \in declined => p \in raced)
      /\ UpTo(s, decisions[p].approved)
  BY <1>1 DEF RuntimeInv, ApproveSound
<1>4. ASSUME NEW a \in Approve, approving' = [approving EXCEPT ![c] = a],
             a.at # "idle" => a.id = p, pending' \in {pending, pending \ {p}}, ApproveSound(c)'
      PROVE  RuntimeInv'
  <2>1. /\ approving' \in [Caller -> Approve] /\ approving'[c] = a
        /\ \A b \in Caller : b # c => approving'[b] = approving[b]
    BY <1>4, Moved DEF RuntimeInv
  <2>2. /\ declined' \subseteq 1..made' /\ OneOpenQuestion' /\ TickSound'
        /\ \A q \in 1..made : DecisionSound(q)'
        /\ \A b \in Caller \ {c} : ApproveSound(b)'
    BY <1>1, <1>2, <1>4, <2>1, ApproverRelays
  <2>3. TypeOK'
    BY <1>2, <1>4, <2>1 DEF RuntimeInv, TypeOK, Relayed, chain, clock, past
  <2> QED BY <1>4, <2>2, <2>3 DEF RuntimeInv
<1>5. \A t \in Step : t <= s => t \in decisions'[p].approved
  <2> SUFFICES ASSUME NEW t \in Step, t <= s PROVE t \in decisions'[p].approved
    OBVIOUS
  <2>1. t < s \/ t = s
    BY RuntimeAssumption DEF Step
  <2> QED BY <1>2, <1>3, <2>1 DEF Relayed, UpTo
<1>6. decisions'[p].verdict = "ESCALATE" /\ decisions'[p].approved \subseteq Step
  BY <1>2, <1>3 DEF Relayed, Same, Decision
<1>7. CASE leave(c) /\ UNCHANGED pending
  <2>1. approving' = [approving EXCEPT ![c] = idleApprove]
    BY <1>7 DEF leave
  <2>2. ApproveSound(c)'
    BY <1>0, <2>1, IdleApprove DEF ApproveSound
  <2> QED BY <1>4, <1>7, <2>1, <2>2, IdleApprove
<1>8. CASE /\ approving[c].step < Steps /\ UNCHANGED pending
           /\ approving' = [approving EXCEPT ![c].step = @ + 1]
  <2> DEFINE a == [approving[c] EXCEPT !.step = @ + 1]
  <2>1. s + 1 \in Step /\ s + 1 \in 1..Steps + 1
    BY <1>1, <1>8, RuntimeAssumption DEF Step
  <2>2. /\ a \in Approve /\ a.at = "relaying" /\ a.id = p /\ a.step = s + 1
        /\ approving' = [approving EXCEPT ![c] = a]
    BY <1>0, <1>1, <1>8, <2>1 DEF Approve
  <2> HIDE DEF a
  <2>3. approving'[c] = a
    BY <1>0, <2>2
  <2>4. UpTo(s + 1, decisions'[p].approved)
    BY <1>5, RuntimeAssumption DEF UpTo, Step
  <2>5. ApproveSound(c)'
    BY <1>3, <1>6, <2>1, <2>2, <2>3, <2>4 DEF ApproveSound, UpTo, past
  <2> QED BY <1>4, <1>8, <2>2, <2>5
<1>9. CASE /\ approving[c].step = Steps /\ pending' = pending \ {approving[c].id}
           /\ approving' = [approving EXCEPT ![c].at = "executing", ![c].step = 1]
  <2> DEFINE a == [approving[c] EXCEPT !.at = "executing", !.step = 1]
  <2>1. 1 \in Step /\ 1 \in 1..Steps + 1
    BY RuntimeAssumption DEF Step
  <2>2. /\ a \in Approve /\ a.at = "executing" /\ a.id = p /\ a.step = 1
        /\ approving' = [approving EXCEPT ![c] = a]
    BY <1>0, <1>1, <1>9, <2>1 DEF Approve
  <2> HIDE DEF a
  <2>3. approving'[c] = a
    BY <1>0, <2>2
  <2>4. decisions'[p].approved = Step
    <3>1. \A t \in Step : t <= s
      BY <1>1, <1>9, RuntimeAssumption DEF Step
    <3> QED BY <1>5, <1>6, <3>1
  <2>5. UpTo(1, decisions'[p].used)
    BY RuntimeAssumption DEF UpTo, Step
  <2>6. ApproveSound(c)'
    BY <1>1, <1>3, <1>6, <1>9, <2>1, <2>2, <2>3, <2>4, <2>5 DEF ApproveSound, UpTo, past
  <2> QED BY <1>1, <1>4, <1>9, <2>2, <2>6
<1> QED BY <1>7, <1>8, <1>9

\* Running an approved step and going on, or leaving, keeps the invariant.
LEMMA run_Keeps ==
  ASSUME RuntimeInv, NEW c \in Caller, approving[c].at = "executing",
         runStep(approving[c].id, approving[c].step),
         UNCHANGED <<clock, tick, made, pending, lastVerdict, past>>,
         \/ leave(c)
         \/ /\ approving[c].step < Steps
            /\ approving' = [approving EXCEPT ![c].step = @ + 1]
         \/ /\ approving[c].step = Steps
            /\ approving' = [approving EXCEPT ![c].at = "observed"]
  PROVE  RuntimeInv'
<1>0. /\ approving[c] \in Approve /\ approving[c].id \in 1..made /\ approving[c].step \in Step
      /\ approving \in [Caller -> Approve]
  BY Holds DEF RuntimeInv, TypeOK
<1>1. PICK p \in 1..made, s \in Step : p = approving[c].id /\ s = approving[c].step
  BY <1>0
<1>2. Ran(p, s)
  BY <1>1, RunStep DEF RuntimeInv
<1>3. /\ p \in asked /\ decisions[p].verdict = "ESCALATE" /\ (p \in declined => p \in raced)
      /\ UpTo(s, decisions[p].used) /\ decisions[p].approved = Step /\ p \notin pending
  BY <1>1 DEF RuntimeInv, ApproveSound
<1>4. ASSUME NEW a \in Approve, approving' = [approving EXCEPT ![c] = a],
             a.at # "idle" => a.id = p, ApproveSound(c)'
      PROVE  RuntimeInv'
  <2>1. /\ approving' \in [Caller -> Approve] /\ approving'[c] = a
        /\ \A b \in Caller : b # c => approving'[b] = approving[b]
    BY <1>4, Moved DEF RuntimeInv
  <2>2. /\ declined' \subseteq 1..made' /\ OneOpenQuestion' /\ TickSound'
        /\ \A q \in 1..made : DecisionSound(q)'
        /\ \A b \in Caller \ {c} : ApproveSound(b)'
    BY <1>1, <1>4, <2>1, ApproverRuns
  <2>3. TypeOK'
    BY <1>2, <1>4, <2>1 DEF RuntimeInv, TypeOK, Ran, clock, past
  <2> QED BY <1>4, <2>2, <2>3 DEF RuntimeInv
<1>5. \A t \in Step : t <= s => t \in decisions'[p].used
  <2> SUFFICES ASSUME NEW t \in Step, t <= s PROVE t \in decisions'[p].used
    OBVIOUS
  <2>1. t < s \/ t = s
    BY RuntimeAssumption DEF Step
  <2> QED BY <1>2, <1>3, <2>1 DEF Ran, UpTo
<1>6. decisions'[p].verdict = "ESCALATE" /\ decisions'[p].approved = Step
      /\ decisions'[p].used \subseteq Step
  BY <1>2, <1>3 DEF Ran, Same, Decision
<1>7. CASE leave(c)
  <2>1. approving' = [approving EXCEPT ![c] = idleApprove]
    BY <1>7 DEF leave
  <2>2. ApproveSound(c)'
    BY <1>0, <2>1, IdleApprove DEF ApproveSound
  <2> QED BY <1>4, <2>1, <2>2, IdleApprove
<1>8. CASE /\ approving[c].step < Steps
           /\ approving' = [approving EXCEPT ![c].step = @ + 1]
  <2> DEFINE a == [approving[c] EXCEPT !.step = @ + 1]
  <2>1. s + 1 \in Step /\ s + 1 \in 1..Steps + 1
    BY <1>1, <1>8, RuntimeAssumption DEF Step
  <2>2. /\ a \in Approve /\ a.at = "executing" /\ a.id = p /\ a.step = s + 1
        /\ approving' = [approving EXCEPT ![c] = a]
    BY <1>0, <1>1, <1>8, <2>1 DEF Approve
  <2> HIDE DEF a
  <2>3. approving'[c] = a
    BY <1>0, <2>2
  <2>4. UpTo(s + 1, decisions'[p].used)
    BY <1>5, RuntimeAssumption DEF UpTo, Step
  <2>5. ApproveSound(c)'
    BY <1>3, <1>6, <2>1, <2>2, <2>3, <2>4 DEF ApproveSound, UpTo, past
  <2> QED BY <1>4, <1>8, <2>2, <2>5
<1>9. CASE /\ approving[c].step = Steps
           /\ approving' = [approving EXCEPT ![c].at = "observed"]
  <2> DEFINE a == [approving[c] EXCEPT !.at = "observed"]
  <2>1. /\ a \in Approve /\ a.at = "observed" /\ a.id = p
        /\ approving' = [approving EXCEPT ![c] = a]
    BY <1>0, <1>1, <1>9 DEF Approve
  <2> HIDE DEF a
  <2>2. approving'[c] = a
    BY <1>0, <2>1
  <2>3. decisions'[p].used = Step
    <3>1. \A t \in Step : t <= s
      BY <1>1, <1>9, RuntimeAssumption DEF Step
    <3> QED BY <1>5, <1>6, <3>1
  <2>4. ApproveSound(c)'
    BY <1>3, <1>6, <2>1, <2>2, <2>3 DEF ApproveSound, past
  <2> QED BY <1>4, <2>1, <2>4
<1> QED BY <1>7, <1>8, <1>9

\* relayApproval keeps the invariant.
LEMMA relayApproval_Keeps ==
  ASSUME RuntimeInv, NEW c \in Caller, relayApproval(c) PROVE RuntimeInv'
<1>1. approving[c].at = "relaying" /\ approving[c].step \in Step
      /\ UNCHANGED <<chain, clock, tick, made, lastVerdict, past>>
  BY Holds DEF relayApproval
<1>2. CASE leave(c) /\ UNCHANGED <<decisions, pending>>
  BY <1>1, <1>2, LeaveKeeps
<1>3. CASE approving[c].step < Steps /\ ~(leave(c) /\ UNCHANGED <<decisions, pending>>)
  BY <1>1, <1>3, relay_Keeps DEF relayApproval
<1>4. CASE ~(approving[c].step < Steps) /\ ~(leave(c) /\ UNCHANGED <<decisions, pending>>)
  <2>1. approving[c].step = Steps
    BY <1>1, <1>4, RuntimeAssumption DEF Step
  <2> QED BY <1>1, <1>4, <2>1, relay_Keeps DEF relayApproval
<1> QED BY <1>2, <1>3, <1>4

\* executeApproved keeps the invariant.
LEMMA executeApproved_Keeps ==
  ASSUME RuntimeInv, NEW c \in Caller, executeApproved(c) PROVE RuntimeInv'
<1>1. approving[c].at = "executing" /\ approving[c].step \in Step
      /\ UNCHANGED <<clock, tick, made, pending, lastVerdict, past>>
  BY Holds DEF executeApproved
<1>2. CASE leave(c) /\ UNCHANGED <<decisions, chain>>
  BY <1>1, <1>2, LeaveKeeps
<1>3. CASE approving[c].step < Steps /\ ~(leave(c) /\ UNCHANGED <<decisions, chain>>)
  BY <1>1, <1>3, run_Keeps DEF executeApproved
<1>4. CASE ~(approving[c].step < Steps) /\ ~(leave(c) /\ UNCHANGED <<decisions, chain>>)
  <2>1. approving[c].step = Steps
    BY <1>1, <1>4, RuntimeAssumption DEF Step
  <2> QED BY <1>1, <1>4, <2>1, run_Keeps DEF executeApproved
<1> QED BY <1>2, <1>3, <1>4

\* approveFails keeps the invariant.
LEMMA approveFails_Keeps ==
  ASSUME RuntimeInv, NEW c \in Caller, approveFails(c) PROVE RuntimeInv'
<1>1. leave(c) /\ UNCHANGED <<clock, tick, made, pending, lastVerdict, past>>
  BY DEF approveFails
<1>2. CASE UNCHANGED <<decisions, chain>>
  BY <1>1, <1>2, LeaveKeeps
<1>3. CASE /\ approving[c].at = "relaying" /\ UNCHANGED chain
           /\ decisions' = [decisions EXCEPT ![approving[c].id].approved =
                              @ \cup {approving[c].step}]
  BY <1>1, <1>3, relay_Keeps
<1>4. CASE approving[c].at = "executing" /\ runStep(approving[c].id, approving[c].step)
  BY <1>1, <1>4, run_Keeps
<1> QED BY <1>2, <1>3, <1>4 DEF approveFails

\* approved keeps the invariant: the record is marked only when all of it ran.
LEMMA approved_Keeps ==
  ASSUME RuntimeInv, NEW c \in Caller, approved(c) PROVE RuntimeInv'
<1>1. PICK p \in 1..made : p = approving[c].id
  BY Holds DEF approved
<1>2. /\ approving[c].at = "observed" /\ leave(c)
      /\ decisions' = [decisions EXCEPT ![p].executed = TRUE, ![p].approvedByHuman = TRUE]
      /\ lastVerdict' = [lastVerdict EXCEPT ![decisions[p].driver] = "NONE"]
      /\ UNCHANGED <<chain, clock, tick, made, pending, past>>
  BY <1>1 DEF approved
<1>3. decisions[p].verdict = "ESCALATE" /\ decisions[p].used = Step
  BY <1>1, <1>2 DEF RuntimeInv, ApproveSound
<1>4. decisions \in [1..made -> Decision]
  BY DEF RuntimeInv, TypeOK
<1>5. decisions' \in [1..made -> Decision]
  <2>1. decisions' = [decisions EXCEPT ![p].executed = TRUE, ![p].approvedByHuman = TRUE]
    BY <1>2
  <2> QED BY <1>4, <2>1 DEF Decision
<1>6. \A q \in 1..made :
        /\ decisions'[q].driver = decisions[q].driver
        /\ decisions'[q].verdict = decisions[q].verdict
        /\ decisions'[q].used = decisions[q].used
        /\ decisions'[q].approved = decisions[q].approved
        /\ q # p => Same(q)
  BY <1>2, <1>4 DEF Same, Decision
<1>7. decisions'[p].executed /\ decisions'[p].approvedByHuman
  BY <1>2, <1>4 DEF Decision
<1>8. /\ approving' \in [Caller -> Approve] /\ approving'[c] = idleApprove
      /\ \A b \in Caller : b # c => approving'[b] = approving[b]
  BY <1>2, IdleApprove, Moved DEF leave, RuntimeInv
<1>9. TypeOK'
  BY <1>2, <1>5, <1>8 DEF RuntimeInv, TypeOK, chain, clock, past
<1>10. UNCHANGED <<tick, made, pending, asked, declined, raced>>
  BY <1>2 DEF past
<1>11. (\A b \in Caller : ApproveSound(b))'
  <2> SUFFICES ASSUME NEW b \in Caller PROVE ApproveSound(b)'
    OBVIOUS
  <2>1. CASE b = c
    BY <1>8, <2>1, IdleApprove DEF ApproveSound
  <2>2. CASE b # c
    BY <1>6, <1>8, <1>10, <2>2 DEF RuntimeInv, ApproveSound, UpTo
  <2> QED BY <2>1, <2>2
<1>others. \A q \in 1..made : q # p => DecisionSound(q)'
  BY <1>6, <1>10 DEF RuntimeInv, DecisionSound, Same
<1>12. DecisionSound(p)'
  BY <1>2, <1>3, <1>6, <1>7 DEF RuntimeInv, DecisionSound, past
<1>13. ~outstanding(tick.driver) => ~outstanding(tick.driver)'
  BY <1>2, <1>6 DEF outstanding, RuntimeInv, TypeOK
<1>14. TickSound'
  BY <1>2, <1>6, <1>8, <1>13, IdleApprove DEF RuntimeInv, TickSound, UpTo, inApproval, outstanding, past
<1>15. OneOpenQuestion' /\ (declined \subseteq 1..made)'
  BY <1>2, <1>6 DEF RuntimeInv, OneOpenQuestion, TypeOK, past
<1> QED BY <1>9, <1>10, <1>11, <1>others, <1>12, <1>14, <1>15 DEF RuntimeInv

\* decline keeps the invariant: a pending record has not run.
LEMMA decline_Keeps ==
  ASSUME RuntimeInv, NEW p \in pending, decline(p) PROVE RuntimeInv'
<1>1. /\ pending' = pending \ {p} /\ declined' = declined \cup {p}
      /\ raced' = (IF inApproval(p) THEN raced \cup {p} ELSE raced)
      /\ UNCHANGED <<chain, clock, tick, made, decisions, lastVerdict, approving, asked>>
  BY DEF decline
<1>2. p \in 1..made /\ p \in Proposal
  BY RuntimeAssumption DEF RuntimeInv, TypeOK, Proposal
<1>3. TypeOK'
  BY <1>1, <1>2 DEF RuntimeInv, TypeOK, chain, clock
<1>4. (\A c \in Caller : ApproveSound(c))'
  BY <1>1 DEF RuntimeInv, ApproveSound, inApproval
<1>5. (\A q \in 1..made : DecisionSound(q))'
  BY <1>1 DEF RuntimeInv, DecisionSound
<1>6. tick.at = "preparing" => p # tick.id
  BY DEF RuntimeInv, TickSound, outstanding
<1>7. TickSound'
  BY <1>1, <1>6 DEF RuntimeInv, TickSound, outstanding, inApproval
<1>8. OneOpenQuestion' /\ (declined \subseteq 1..made)'
  BY <1>1, <1>2 DEF RuntimeInv, OneOpenQuestion
<1> QED BY <1>3, <1>4, <1>5, <1>7, <1>8 DEF RuntimeInv

\* Steps that touch no record, no answer and no tick: the operator's controls,
\* the market, and the clocks.
LEMMA OutsideKeeps ==
  ASSUME RuntimeInv, TypeOK', UNCHANGED <<tick, made, decisions, pending, approving, past>>
  PROVE  RuntimeInv'
BY DEF RuntimeInv, TickSound, ApproveSound, DecisionSound, OneOpenQuestion,
       outstanding, inApproval, past

\* The operator's controls keep the invariant.
LEMMA controls_Keep == ASSUME RuntimeInv, controls PROVE RuntimeInv'
<1> USE DEF chain, book, past
<1>1. CASE pause \/ resume \/ stop
  <2>1. state' \in [paused : BOOLEAN, stopping : BOOLEAN, started : BOOLEAN]
    BY <1>1 DEF pause, resume, stop, RuntimeInv, TypeOK
  <2>2. TypeOK'
    BY <1>1, <2>1 DEF pause, resume, stop, RuntimeInv, TypeOK
  <2> QED BY <1>1, <2>2, OutsideKeeps DEF pause, resume, stop
<1>2. CASE revoke \/ \E b \in BOOLEAN : setPolicy(b)
  <2>1. TypeOK'
    BY <1>2 DEF revoke, setPolicy, RuntimeInv, TypeOK, clock
  <2> QED BY <1>2, <2>1, OutsideKeeps DEF revoke, setPolicy
<1> QED BY <1>1, <1>2 DEF controls

\* The market and the clocks keep the invariant.
LEMMA world_Keeps == ASSUME RuntimeInv, world PROVE RuntimeInv'
<1> USE DEF chain, clock, book, past
<1>1. ASSUME NEW d \in 1..Drivers, NEW n \in Need, stress(d, n) PROVE RuntimeInv'
  <2>1. TypeOK'
    BY <1>1 DEF stress, RuntimeInv, TypeOK
  <2> QED BY <1>1, <2>1, OutsideKeeps DEF stress
<1>2. ASSUME NEW d \in 1..Drivers, verdictAges(d) PROVE RuntimeInv'
  <2>1. TypeOK'
    BY <1>2 DEF verdictAges, RuntimeInv, TypeOK
  <2> QED BY <1>2, <2>1, OutsideKeeps DEF verdictAges
<1>3. ASSUME NEW p \in Proposal, lapse(p) PROVE RuntimeInv'
  <2>1. p \in 1..made /\ decisions' = [decisions EXCEPT ![p].lapsed = TRUE]
        /\ UNCHANGED <<chain, clock, tick, made, pending, lastVerdict, approving, past>>
    BY <1>3 DEF lapse, RuntimeInv, TypeOK
  <2>2. 1 \in Step
    BY RuntimeAssumption DEF Step
  <2>3. Noted
    BY <2>1, <2>2, Note DEF RuntimeInv
  <2>4. Rest'
    BY <2>1, <2>3, NotedKeeps
  <2>5. TypeOK'
    BY <2>1, <2>3 DEF Noted, RuntimeInv, TypeOK
  <2>6. ~outstanding(tick.driver) => ~outstanding(tick.driver)'
    BY <2>1, <2>3 DEF Noted, Same, outstanding, RuntimeInv, TypeOK
  <2>7. TickSound'
    BY <2>1, <2>3, <2>6 DEF Noted, Same, RuntimeInv, TickSound, UpTo, inApproval, outstanding
  <2> QED BY <2>4, <2>5, <2>7, Assembled
<1> QED BY <1>1, <1>2, <1>3 DEF world

-----------------------------------------------------------------------------
(* The theorems.                                                           *)

\* The constructed runtime satisfies the invariant.
LEMMA InitSound == ASSUME Init PROVE RuntimeInv
<1>1. TypeOK
  <2>1. need \in [1..Drivers -> Need] /\ lastVerdict \in [1..Drivers -> {"NONE", "ESCALATE", "DENY"}]
    BY DEF Init, Need
  <2>2. made \in 0..MaxProposals /\ 1..made = {}
    BY RuntimeAssumption DEF Init
  <2>3. decisions \in [1..made -> Decision]
    BY <2>2 DEF Init
  <2> QED BY <2>1, <2>2, <2>3, IdleTick, IdleApprove DEF Init, TypeOK
<1>2. TickSound
  BY DEF Init, idleTick, TickSound, Resting
<1>3. \A c \in Caller : ApproveSound(c)
  BY IdleApprove DEF Init, ApproveSound
<1>4. \A p \in 1..made : FALSE
  BY DEF Init
<1> QED BY <1>1, <1>2, <1>3, <1>4 DEF Init, RuntimeInv, OneOpenQuestion

\* Every step keeps it.
LEMMA NextSound == ASSUME RuntimeInv, Next PROVE RuntimeInv'
<1>1. CASE process
  BY <1>1, start_Keeps, timerFires_Keeps, observePolicy_Keeps, observePositions_Keeps,
     decideNothing_Keeps, decide_Keeps, prepare_Keeps, executeStep_Keeps, executed_Keeps,
     relayApproval_Keeps, executeApproved_Keeps, approved_Keeps
     DEF process, loopStep, tickStep, approveStep
<1>2. CASE faults
  BY <1>2, tickFails_Keeps, approveFails_Keeps DEF faults
<1>3. CASE users
  BY <1>3, tickNow_Keeps, approve_Keeps, decline_Keeps DEF users
<1> QED BY <1>1, <1>2, <1>3, controls_Keep, world_Keeps DEF Next

\* Nothing happens: the invariant stays.
LEMMA StutterSound == ASSUME RuntimeInv, UNCHANGED vars PROVE RuntimeInv'
<1>1. TypeOK'
  BY DEF RuntimeInv, TypeOK, vars, chain, clock, book, past
<1> QED BY <1>1, OutsideKeeps DEF vars, chain, clock, book, past

\* The inductive invariant holds of every behaviour of the runtime.
THEOREM RuntimeIsSound == Spec => []RuntimeInv
<1>1. RuntimeInv /\ [Next]_vars => RuntimeInv'
  BY NextSound, StutterSound
<1> QED BY InitSound, <1>1, PTL DEF Spec

\* Every variable keeps its type.
THEOREM RuntimeTypes == Spec => []TypeOK
<1>1. RuntimeInv => TypeOK
  BY DEF RuntimeInv
<1> QED BY RuntimeIsSound, <1>1, PTL

\* No step of an escalated proposal runs before a human asked for it and every
\* one of its steps has an approval on the fork (runtime.ts approve, execute).
THEOREM EscalationsNeedHumans == Spec => []EscalationNeedsHuman
<1>1. RuntimeInv => EscalationNeedsHuman
  BY DEF RuntimeInv, TypeOK, DecisionSound, EscalationNeedsHuman
<1> QED BY RuntimeIsSound, <1>1, PTL

\* A record that says executed was executed in full, and one that says a human
\* approved it was an escalation (runtime.ts DecisionRecord).
THEOREM RecordsTellTheTruth == Spec => []RecordsAreTrue
<1>1. RuntimeInv => RecordsAreTrue
  BY DEF RuntimeInv, TypeOK, DecisionSound, RecordsAreTrue
<1> QED BY RuntimeIsSound, <1>1, PTL

\* A driver has at most one escalation open (runtime.ts decide).
THEOREM OneQuestionAtATime == Spec => []OneOpenQuestion
<1>1. RuntimeInv => OneOpenQuestion
  BY DEF RuntimeInv
<1> QED BY RuntimeIsSound, <1>1, PTL

\* What was declined while nobody was approving it never runs (runtime.ts decline).
THEOREM QuietDeclinesAreFinal == Spec => []QuietDeclineIsFinal
<1>1. RuntimeInv => QuietDeclineIsFinal
  BY DEF RuntimeInv, DecisionSound, QuietDeclineIsFinal
<1> QED BY RuntimeIsSound, <1>1, PTL

-----------------------------------------------------------------------------
\* The control plane.

\* A request in progress has its operation and its key, and a lock that waits
\* for an answer is at one of its steps; no other operation has any.
RequestSound(r) ==
  /\ request[r] \in RequestState
  /\ request[r].at \notin {"new", "done"} =>
       request[r].op \in Operation /\ request[r].key \in Key
  /\ request[r].at = "reading" => request[r].step <= Len(LockStep)
  /\ request[r].op # "EMERGENCY_LOCK" => request[r].step = 1

\* The log knows every key whose operation was started.
LogSound ==
  \A k \in Key : /\ performed[k] <= 1
                 /\ commands[k] = "none" => performed[k] = 0

ControlInv ==
  /\ RuntimeInv
  /\ commands \in [Key -> Outcome]
  /\ request \in [Request -> RequestState]
  /\ emergencyLocked \in BOOLEAN
  /\ performed \in [Key -> Nat]
  /\ lockComplete \in BOOLEAN /\ enabledSince \in BOOLEAN /\ restored \in BOOLEAN
  /\ \A r \in Request : RequestSound(r)
  /\ LogSound
  /\ enabled => enabledSince

\* What the control plane does to the runtime is what the runtime's operator
\* may do, or nothing.
LEMMA ControlMovesTheRuntime ==
  ASSUME ControlNext PROVE Next \/ UNCHANGED vars
<1>1. CASE (process \/ faults \/ users \/ world) /\ UNCHANGED controlVars
  BY <1>1 DEF Next
<1>2. ASSUME NEW r \in Request, issue(r) \/ handlerStep(r) \/ handlerFault(r)
      PROVE  Next \/ UNCHANGED vars
  <2>1. CASE issue(r) \/ refuse(r) \/ executeThrows(r) \/ lockStepThrows(r)
    BY <2>1 DEF issue, refuse, executeThrows, lockStepThrows, Next, controls
  <2>2. CASE lockStep(r)
    BY <2>2 DEF lockStep, lockSendDisable, lockReadDisabled, lockDeny, lockSkipCre,
       lockStopRuntime, lockRevoke, lockReadRevoked, lockDone, Next, controls
  <2>3. CASE handlerStep(r) /\ ~lockStep(r)
    BY <2>3 DEF handlerStep, replay, begin, complete, pauseRuntime, resumeRuntime,
       notApplicable, sendPolicy, readPolicy, sendRevoke, readRevoke, Next, controls
  <2> QED BY <1>2, <2>1, <2>2, <2>3 DEF handlerFault
<1> QED BY <1>1, <1>2 DEF ControlNext, control

\* While the policy is disabled the executor refuses every step.
LEMMA DisabledMovesNothing ==
  ASSUME RuntimeInv, ~enabled, Next
  PROVE  \A p \in DOMAIN decisions : decisions'[p].used = decisions[p].used
<1>1. DOMAIN decisions = 1..made /\ decisions \in [1..made -> Decision]
  BY DEF RuntimeInv, TypeOK
<1>2. \A p, s : ~executorAccepts(p, s)
  BY DEF executorAccepts
<1>3. CASE decisions' = decisions
  BY <1>3
<1>4. CASE decide
  <2>1. made \in Nat
    BY RuntimeAssumption DEF RuntimeInv, TypeOK
  <2>2. \A p \in 1..made : p \in 1..made + 1 /\ p # made + 1
    BY <2>1
  <2> QED BY <1>1, <1>4, <2>2 DEF decide
<1>5. ASSUME NEW p, NEW s,
             \/ decisions' = [decisions EXCEPT ![p].authorized = @ \cup {s}]
             \/ decisions' = [decisions EXCEPT ![p].approved = @ \cup {s}]
             \/ decisions' = [decisions EXCEPT ![p].lapsed = TRUE]
             \/ decisions' = [decisions EXCEPT ![p].executed = TRUE]
             \/ decisions' = [decisions EXCEPT ![p].executed = TRUE, ![p].approvedByHuman = TRUE]
      PROVE  \A q \in DOMAIN decisions : decisions'[q].used = decisions[q].used
  <2> SUFFICES ASSUME NEW q \in 1..made PROVE decisions'[q].used = decisions[q].used
    BY <1>1
  <2>1. CASE decisions' = [decisions EXCEPT ![p].authorized = @ \cup {s}]
    BY <1>1, <2>1 DEF Decision
  <2>2. CASE decisions' = [decisions EXCEPT ![p].approved = @ \cup {s}]
    BY <1>1, <2>2 DEF Decision
  <2>3. CASE decisions' = [decisions EXCEPT ![p].lapsed = TRUE]
    BY <1>1, <2>3 DEF Decision
  <2>4. CASE decisions' = [decisions EXCEPT ![p].executed = TRUE]
    BY <1>1, <2>4 DEF Decision
  <2>5. CASE decisions' = [decisions EXCEPT ![p].executed = TRUE, ![p].approvedByHuman = TRUE]
    BY <1>1, <2>5 DEF Decision
  <2> QED BY <1>5, <2>1, <2>2, <2>3, <2>4, <2>5
<1>6. CASE process
  <2>1. CASE start \/ timerFires \/ observePolicy \/ observePositions \/ decideNothing
    BY <1>3, <2>1 DEF start, timerFires, observePolicy, observePositions, decideNothing, book
  <2>2. CASE prepare \/ executed
    BY <1>5, <2>2 DEF prepare, executed
  <2>3. CASE executeStep
    BY <1>2, <1>3, <2>3 DEF executeStep
  <2>4. CASE \E c \in Caller : approveStep(c)
    BY <1>2, <1>3, <1>5, <2>4 DEF approveStep, relayApproval, executeApproved, approved
  <2> QED BY <1>4, <1>6, <2>1, <2>2, <2>3, <2>4 DEF process, loopStep, tickStep
<1>7. CASE faults
  BY <1>2, <1>3, <1>5, <1>7 DEF faults, tickFails, approveFails
<1>8. CASE users \/ controls
  BY <1>3, <1>8 DEF users, controls, tickNow, approve, decline, pause, resume, stop, revoke,
     setPolicy, book
<1>9. CASE world
  BY <1>3, <1>5, <1>9 DEF world, stress, lapse, verdictAges, book
<1> QED BY <1>6, <1>7, <1>8, <1>9 DEF Next

\* The runtime alone enables nothing.
LEMMA RuntimeEnablesNothing ==
  ASSUME process \/ faults \/ users \/ world PROVE enabled' = enabled
<1> USE DEF chain
<1>1. CASE process
  BY <1>1 DEF process, loopStep, tickStep, approveStep, start, timerFires, observePolicy,
     observePositions, decideNothing, decide, prepare, executeStep, executed, relayApproval,
     executeApproved, approved, runStep
<1>2. CASE faults
  BY <1>2 DEF faults, tickFails, approveFails, runStep
<1>3. CASE users \/ world
  BY <1>3 DEF users, tickNow, approve, decline, world, stress, lapse, verdictAges
<1> QED BY <1>1, <1>2, <1>3

-----------------------------------------------------------------------------
(* The handlers.                                                           *)

\* Five steps are frozen.
LEMMA LockLength == Len(LockStep) = 5
BY DEF LockStep

\* A new request is a request.
LEMMA NewRequest == newRequest \in RequestState
BY LockLength DEF newRequest, RequestState

\* The request's own state changes to one that is sound; the log and the
\* histories say for themselves.
LEMMA RequestKeeps ==
  ASSUME ControlInv, RuntimeInv', NEW r \in Request, NEW new \in RequestState, set(r, new),
         new.at \notin {"new", "done"} => new.op \in Operation /\ new.key \in Key,
         new.at = "reading" => new.step <= Len(LockStep),
         new.op # "EMERGENCY_LOCK" => new.step = 1,
         commands' \in [Key -> Outcome], performed' \in [Key -> Nat], LogSound',
         emergencyLocked' \in BOOLEAN, lockComplete' \in BOOLEAN,
         enabledSince' \in BOOLEAN, restored' \in BOOLEAN,
         enabled' => enabledSince'
  PROVE  ControlInv'
<1>1. request' \in [Request -> RequestState] /\ request'[r] = new
      /\ \A q \in Request : q # r => request'[q] = request[q]
  BY DEF set, ControlInv
<1>2. (\A q \in Request : RequestSound(q))'
  BY <1>1 DEF RequestSound, ControlInv
<1> QED BY <1>1, <1>2 DEF ControlInv

\* A request that starts, ends or is answered: the log gains nothing new.
LEMMA StartAndEnd ==
  ASSUME ControlInv, NEW r \in Request, issue(r) \/ refuse(r) \/ replay(r) \/ complete(r),
         RuntimeInv'
  PROVE  ControlInv'
<1> USE DEF ControlInv, history
<1>0. UNCHANGED <<vars, emergencyLocked, history>> /\ enabled' = enabled
  BY DEF issue, refuse, replay, complete, vars, chain
<1>1. CASE issue(r)
  <2>1. PICK op \in Operation, withIdentity \in BOOLEAN, key \in Key :
          set(r, [newRequest EXCEPT !.at = "refreshing", !.op = op, !.key = key,
                                    !.withIdentity = withIdentity])
    BY <1>1 DEF issue, Key
  <2> DEFINE new == [newRequest EXCEPT !.at = "refreshing", !.op = op, !.key = key,
                                       !.withIdentity = withIdentity]
  <2>2. new \in RequestState /\ new.at = "refreshing" /\ new.op = op /\ new.key = key
        /\ new.step = 1
    <3>1. newRequest.step = 1
      BY DEF newRequest
    <3> QED BY <3>1, NewRequest DEF RequestState
  <2>3. LogSound' /\ UNCHANGED commands
    BY <1>0, <1>1 DEF issue, LogSound
  <2> HIDE DEF new
  <2>4. set(r, new)
    BY <2>1 DEF new
  <2> QED BY <1>0, <2>2, <2>3, <2>4, RequestKeeps
<1>2. CASE refuse(r) \/ replay(r) \/ complete(r)
  <2> DEFINE new == [newRequest EXCEPT !.at = "done"]
  <2>1. new \in RequestState /\ new.at = "done" /\ new.step = 1
    BY NewRequest DEF newRequest, RequestState
  <2>2. set(r, new)
    BY <1>2 DEF refuse, replay, complete, finish
  <2> HIDE DEF new
  <2>3. commands' \in [Key -> Outcome] /\ (\A k \in Key : commands'[k] = "none" => commands[k] = "none")
    BY <1>2 DEF refuse, replay, complete, Outcome
  <2>4. LogSound'
    BY <1>0, <2>3 DEF LogSound
  <2> QED BY <1>0, <2>1, <2>2, <2>3, <2>4, RequestKeeps
<1> QED BY <1>1, <1>2

\* begin: the key is not in the log, so its operation has not been started.
LEMMA BeginKeeps ==
  ASSUME ControlInv, NEW r \in Request, begin(r), RuntimeInv' PROVE ControlInv'
<1> USE DEF ControlInv, history
<1> DEFINE new == [request[r] EXCEPT !.at = "executing"]
<1>1. PICK k \in Key : k = request[r].key
  BY DEF begin, RequestSound
<1>2. /\ commands[k] = "none" /\ commands' = [commands EXCEPT ![k] = "PENDING"]
      /\ performed' = [performed EXCEPT ![k] = @ + 1]
      /\ UNCHANGED <<vars, emergencyLocked, lockComplete, enabledSince>>
      /\ set(r, new) /\ request[r].at = "refreshing"
  BY <1>1 DEF begin
<1>3. /\ request[r] \in RequestState /\ request[r].op \in Operation
      /\ request[r].op # "EMERGENCY_LOCK" => request[r].step = 1
  BY <1>2 DEF RequestSound
<1>4. /\ new \in RequestState /\ new.at = "executing" /\ new.op \in Operation /\ new.key = k
      /\ new.op # "EMERGENCY_LOCK" => new.step = 1
  BY <1>1, <1>3 DEF RequestState
<1> HIDE DEF new
<1>5. commands' \in [Key -> Outcome] /\ performed' \in [Key -> Nat]
  BY <1>2 DEF Outcome
<1>6. performed[k] = 0
  BY <1>2 DEF LogSound
<1>7. LogSound'
  BY <1>2, <1>6 DEF LogSound
<1>8. restored' \in BOOLEAN
  BY DEF begin
<1>9. enabled' => enabledSince'
  BY <1>2 DEF vars, chain
<1> QED BY <1>2, <1>4, <1>5, <1>7, <1>8, <1>9, RequestKeeps

\* An operation in progress moves on: to its answer (toComplete), to the next
\* step of a lock (advance), to a read, or out of the handler (finish).  The log
\* is not touched, and a policy is only enabled on the record.
LEMMA WorkKeeps ==
  ASSUME ControlInv, RuntimeInv', NEW r \in Request, request[r].at \in {"executing", "reading"},
         \/ \E ok \in BOOLEAN : toComplete(r, ok)
         \/ /\ \E ok \in BOOLEAN : advance(r, ok)
            /\ request[r].step <= Len(LockStep) /\ request[r].op = "EMERGENCY_LOCK"
         \/ /\ set(r, [request[r] EXCEPT !.at = "reading"])
            /\ request[r].step <= Len(LockStep)
         \/ finish(r),
         UNCHANGED <<commands, performed, restored>>,
         emergencyLocked' \in BOOLEAN, lockComplete' \in BOOLEAN, enabledSince' \in BOOLEAN,
         enabled' => enabledSince'
  PROVE  ControlInv'
<1>1. /\ request[r] \in RequestState /\ request[r].op \in Operation /\ request[r].key \in Key
      /\ request[r].op # "EMERGENCY_LOCK" => request[r].step = 1
  BY DEF ControlInv, RequestSound
<1>2. LogSound'
  BY DEF ControlInv, LogSound
<1>3. ASSUME NEW new \in RequestState, set(r, new),
             new.at \notin {"new", "done"} => new.op \in Operation /\ new.key \in Key,
             new.at = "reading" => new.step <= Len(LockStep),
             new.op # "EMERGENCY_LOCK" => new.step = 1
      PROVE  ControlInv'
  BY <1>2, <1>3, RequestKeeps DEF ControlInv
<1>4. ASSUME NEW ok \in BOOLEAN, toComplete(r, ok) PROVE ControlInv'
  <2> DEFINE new == [request[r] EXCEPT !.at = "completing", !.ok = ok]
  <2>1. new \in RequestState /\ new.at = "completing" /\ new.op = request[r].op
        /\ new.key = request[r].key /\ new.step = request[r].step
    BY <1>1 DEF RequestState
  <2>2. set(r, new)
    BY <1>4 DEF toComplete
  <2> HIDE DEF new
  <2> QED BY <1>1, <1>3, <2>1, <2>2
<1>5. ASSUME NEW ok \in BOOLEAN, advance(r, ok), request[r].step <= Len(LockStep),
             request[r].op = "EMERGENCY_LOCK"
      PROVE  ControlInv'
  <2> DEFINE new == [request[r] EXCEPT !.at = "executing", !.step = @ + 1,
                       !.failed = IF ok THEN @ ELSE @ \cup {request[r].step}]
  <2>0. request[r].step \in 1..Len(LockStep) /\ request[r].step + 1 \in 1..Len(LockStep) + 1
    BY <1>1, <1>5, LockLength DEF RequestState
  <2>1. new \in RequestState /\ new.at = "executing" /\ new.op = request[r].op
        /\ new.key = request[r].key
    BY <1>1, <2>0 DEF RequestState
  <2>2. set(r, new)
    BY <1>5 DEF advance
  <2> HIDE DEF new
  <2> QED BY <1>1, <1>3, <1>5, <2>1, <2>2
<1>6. ASSUME set(r, [request[r] EXCEPT !.at = "reading"]), request[r].step <= Len(LockStep)
      PROVE  ControlInv'
  <2> DEFINE new == [request[r] EXCEPT !.at = "reading"]
  <2>1. new \in RequestState /\ new.at = "reading" /\ new.op = request[r].op
        /\ new.key = request[r].key /\ new.step = request[r].step
    BY <1>1 DEF RequestState
  <2>2. set(r, new)
    BY <1>6
  <2> HIDE DEF new
  <2> QED BY <1>1, <1>3, <1>6, <2>1, <2>2
<1>7. ASSUME finish(r) PROVE ControlInv'
  <2> DEFINE new == [newRequest EXCEPT !.at = "done"]
  <2>1. new \in RequestState /\ new.at = "done" /\ new.step = 1
    BY NewRequest DEF newRequest, RequestState
  <2>2. set(r, new)
    BY <1>7 DEF finish
  <2> HIDE DEF new
  <2> QED BY <1>3, <2>1, <2>2
<1> QED BY <1>4, <1>5, <1>6, <1>7

\* The runtime's variables stay, and with them the policy.
LEMMA VarsKeepPolicy == ASSUME UNCHANGED vars PROVE enabled' = enabled
BY DEF vars, chain

\* The operations of one call each.
LEMMA OperationKeeps ==
  ASSUME ControlInv, RuntimeInv', NEW r \in Request,
         \/ pauseRuntime(r) \/ resumeRuntime(r) \/ notApplicable(r)
         \/ sendPolicy(r, "ENABLE_POLICY", TRUE) \/ readPolicy(r, "ENABLE_POLICY", TRUE)
         \/ sendPolicy(r, "DISABLE_POLICY", FALSE) \/ readPolicy(r, "DISABLE_POLICY", FALSE)
         \/ sendRevoke(r) \/ readRevoke(r)
         \/ executeThrows(r)
  PROVE  ControlInv'
<1> USE DEF history, at
<1>1. CASE pauseRuntime(r) \/ resumeRuntime(r) \/ notApplicable(r)
  <2>1. enabled' = enabled
    BY <1>1, VarsKeepPolicy DEF pauseRuntime, resumeRuntime, notApplicable, pause, resume, chain
  <2>2. /\ request[r].at = "executing" /\ \E ok \in BOOLEAN : toComplete(r, ok)
        /\ UNCHANGED <<commands, emergencyLocked, history>>
    BY <1>1 DEF pauseRuntime, resumeRuntime, notApplicable
  <2> QED BY <2>1, <2>2, WorkKeeps DEF ControlInv
<1>2. CASE readPolicy(r, "ENABLE_POLICY", TRUE) \/ readPolicy(r, "DISABLE_POLICY", FALSE)
           \/ readRevoke(r)
  <2>1. /\ request[r].at = "reading" /\ \E ok \in BOOLEAN : toComplete(r, ok)
        /\ UNCHANGED <<vars, commands, emergencyLocked, history>>
    BY <1>2 DEF readPolicy, readRevoke, ControlInv, RuntimeInv, TypeOK
  <2>2. enabled' = enabled
    BY <2>1, VarsKeepPolicy
  <2> QED BY <2>1, <2>2, WorkKeeps DEF ControlInv
<1>3. ASSUME request[r].at = "executing", request[r].op # "EMERGENCY_LOCK"
      PROVE  request[r].step <= Len(LockStep)
  BY <1>3, LockLength DEF ControlInv, RequestSound
<1>4. CASE sendPolicy(r, "ENABLE_POLICY", TRUE) \/ sendPolicy(r, "DISABLE_POLICY", FALSE)
  <2>1. /\ request[r].at = "executing" /\ request[r].op # "EMERGENCY_LOCK"
        /\ set(r, [request[r] EXCEPT !.at = "reading"])
        /\ UNCHANGED <<commands, emergencyLocked, performed, lockComplete, restored>>
        /\ enabledSince' \in BOOLEAN /\ (enabled' => enabledSince')
    BY <1>4 DEF sendPolicy, setPolicy
  <2> QED BY <1>3, <2>1, WorkKeeps DEF ControlInv
<1>5. CASE sendRevoke(r)
  <2>1. /\ request[r].at = "executing" /\ request[r].op # "EMERGENCY_LOCK"
        /\ set(r, [request[r] EXCEPT !.at = "reading"])
        /\ UNCHANGED <<commands, emergencyLocked, history>> /\ enabled' = enabled
    BY <1>5 DEF sendRevoke, revoke
  <2> QED BY <1>3, <2>1, WorkKeeps DEF ControlInv
<1>6. CASE executeThrows(r)
  <2>1. /\ request[r].at \in {"executing", "reading"} /\ finish(r)
        /\ UNCHANGED <<commands, emergencyLocked, performed, lockComplete, restored>>
    BY <1>6 DEF executeThrows
  <2>2. CASE UNCHANGED <<vars, enabledSince>>
    <3>1. enabled' = enabled /\ enabledSince' = enabledSince
      BY <2>2, VarsKeepPolicy
    <3> QED BY <2>1, <3>1, WorkKeeps DEF ControlInv
  <2>3. CASE setPolicy(TRUE) /\ enabledSince' = TRUE
    BY <2>1, <2>3, WorkKeeps DEF ControlInv
  <2>4. CASE setPolicy(FALSE) /\ UNCHANGED enabledSince
    BY <2>1, <2>4, WorkKeeps DEF ControlInv, setPolicy
  <2>5. CASE revoke /\ UNCHANGED enabledSince
    BY <2>1, <2>5, WorkKeeps DEF ControlInv, revoke
  <2> QED BY <1>6, <2>2, <2>3, <2>4, <2>5 DEF executeThrows
<1> QED BY <1>1, <1>2, <1>4, <1>5, <1>6

\* The emergency lock.
LEMMA LockKeeps ==
  ASSUME ControlInv, RuntimeInv', NEW r \in Request, lockStep(r) \/ lockStepThrows(r)
  PROVE  ControlInv'
<1> USE DEF history, at
<1>1. CASE lockDeny(r) \/ lockSkipCre(r) \/ lockStopRuntime(r) \/ lockReadRevoked(r)
  <2>1. /\ request[r].at \in {"executing", "reading"} /\ request[r].op = "EMERGENCY_LOCK"
        /\ request[r].step <= Len(LockStep) /\ \E ok \in BOOLEAN : advance(r, ok)
        /\ UNCHANGED <<commands, emergencyLocked, history>> /\ enabled' = enabled
    BY <1>1, VarsKeepPolicy DEF lockDeny, lockSkipCre, lockStopRuntime, lockReadRevoked, lockAt,
       stop, chain, ControlInv, RuntimeInv, TypeOK
  <2> QED BY <2>1, WorkKeeps DEF ControlInv
<1>2. CASE lockSendDisable(r)
  <2>1. /\ request[r].at = "executing" /\ request[r].step <= Len(LockStep)
        /\ set(r, [request[r] EXCEPT !.at = "reading"])
        /\ UNCHANGED <<commands, emergencyLocked, history>> /\ ~enabled'
    BY <1>2 DEF lockSendDisable, lockAt, setPolicy
  <2> QED BY <2>1, WorkKeeps DEF ControlInv
<1>3. CASE lockReadDisabled(r)
  <2>1. /\ request[r].at = "reading" /\ request[r].op = "EMERGENCY_LOCK"
        /\ request[r].step <= Len(LockStep) /\ \E ok \in BOOLEAN : advance(r, ok)
        /\ enabledSince' = (enabledSince /\ enabled) /\ enabled' = enabled
        /\ UNCHANGED <<commands, emergencyLocked, performed, lockComplete, restored>>
    BY <1>3, VarsKeepPolicy DEF lockReadDisabled, lockAt, ControlInv, RuntimeInv, TypeOK
  <2> QED BY <2>1, WorkKeeps DEF ControlInv
<1>4. CASE lockRevoke(r)
  <2>1. /\ request[r].at = "executing" /\ request[r].op = "EMERGENCY_LOCK"
        /\ request[r].step <= Len(LockStep) /\ enabled' = enabled
        /\ UNCHANGED <<commands, emergencyLocked, history>>
        /\ \/ set(r, [request[r] EXCEPT !.at = "reading"])
           \/ \E ok \in BOOLEAN : advance(r, ok)
    BY <1>4, VarsKeepPolicy DEF lockRevoke, lockAt, revoke
  <2> QED BY <2>1, WorkKeeps DEF ControlInv
<1>5. CASE lockDone(r)
  <2>1. /\ request[r].at = "executing" /\ \E ok \in BOOLEAN : toComplete(r, ok)
        /\ emergencyLocked' \in BOOLEAN /\ lockComplete' \in BOOLEAN /\ enabled' = enabled
        /\ UNCHANGED <<commands, performed, enabledSince, restored>>
    BY <1>5, VarsKeepPolicy DEF lockDone, ControlInv
  <2> QED BY <2>1, WorkKeeps DEF ControlInv
<1>6. CASE lockStepThrows(r)
  <2>1. /\ request[r].at \in {"executing", "reading"} /\ request[r].op = "EMERGENCY_LOCK"
        /\ request[r].step <= Len(LockStep)
    BY <1>6 DEF lockStepThrows, lockAt, ControlInv, RequestSound
  <2>2. advance(r, FALSE) /\ UNCHANGED <<commands, emergencyLocked, history>>
    BY <1>6 DEF lockStepThrows
  <2>3. UNCHANGED vars \/ setPolicy(FALSE) \/ revoke
    BY <1>6 DEF lockStepThrows
  <2>4. enabled' => enabled
    BY <2>3, VarsKeepPolicy DEF setPolicy, revoke
  <2> QED BY <2>1, <2>2, <2>4, WorkKeeps DEF ControlInv
<1> QED BY <1>1, <1>2, <1>3, <1>4, <1>5, <1>6 DEF lockStep

-----------------------------------------------------------------------------
(* The theorems.                                                           *)

\* The deployment's first state satisfies the invariant.
LEMMA ControlInitSound == ASSUME ControlInit PROVE ControlInv
<1>1. RuntimeInv
  BY InitSound DEF ControlInit
<1>2. \A r \in Request : RequestSound(r)
  BY NewRequest, LockLength DEF ControlInit, RequestSound, newRequest
<1>3. request \in [Request -> RequestState] /\ commands \in [Key -> Outcome]
      /\ performed \in [Key -> Nat]
  BY NewRequest DEF ControlInit, Outcome
<1>4. LogSound
  BY DEF ControlInit, LogSound
<1> QED BY <1>1, <1>2, <1>3, <1>4 DEF ControlInit, ControlInv, Init

\* Every step keeps it.
LEMMA ControlNextSound == ASSUME ControlInv, ControlNext PROVE ControlInv'
<1>1. RuntimeInv'
  BY ControlMovesTheRuntime, NextSound, StutterSound DEF ControlInv
<1>2. CASE (process \/ faults \/ users \/ world) /\ UNCHANGED controlVars
  <2>1. enabled' = enabled
    BY <1>2, RuntimeEnablesNothing
  <2> QED BY <1>1, <1>2, <2>1 DEF ControlInv, RequestSound, LogSound, controlVars, history
<1>3. ASSUME NEW r \in Request, issue(r) \/ handlerStep(r) \/ handlerFault(r)
      PROVE  ControlInv'
  BY <1>1, <1>3, StartAndEnd, BeginKeeps, OperationKeeps, LockKeeps DEF handlerStep, handlerFault
<1> QED BY <1>2, <1>3 DEF ControlNext, control

\* Nothing happens: the invariant stays.
LEMMA ControlStutterSound == ASSUME ControlInv, UNCHANGED allVars PROVE ControlInv'
<1>1. RuntimeInv' /\ enabled' = enabled
  BY StutterSound, VarsKeepPolicy DEF ControlInv, allVars
<1> QED BY <1>1 DEF ControlInv, RequestSound, LogSound, allVars, controlVars, history

\* The inductive invariant holds of every behaviour of the control plane over
\* its runtime.
THEOREM ControlIsSound == ControlSpec => []ControlInv
<1>1. ControlInv /\ [ControlNext]_allVars => ControlInv'
  BY ControlNextSound, ControlStutterSound
<1> QED BY ControlInitSound, <1>1, PTL DEF ControlSpec

\* Every variable of the control plane and of the runtime keeps its type.
THEOREM ControlTypes == ControlSpec => []ControlTypeOK
<1>1. ControlInv => ControlTypeOK
  BY DEF ControlInv, ControlTypeOK, RuntimeInv
<1> QED BY ControlIsSound, <1>1, PTL

\* The control plane refines the runtime: whatever commands and locks do, what
\* they leave of a behaviour is one of the runtime, its fairness included.  So
\* every property of the runtime, the ones only TLC checks among them, holds
\* under the control plane (service.ts execute acts on runtime.ts by the calls
\* its operator has).
THEOREM ControlImplementsRuntime == ControlSpec => Spec
<1>1. ControlInit => Init
  BY DEF ControlInit
<1>2. [ControlNext]_allVars => [Next]_vars
  BY ControlMovesTheRuntime DEF allVars
<1> QED BY <1>1, <1>2, PTL DEF ControlSpec, Spec

\* What the runtime promises a human it promises under the control plane too:
\* no command makes an escalation run unasked (service.ts execute, runtime.ts).
THEOREM EscalationsUnderControl ==
  ControlSpec => [](EscalationNeedsHuman /\ QuietDeclineIsFinal)
<1>1. ControlInv => EscalationNeedsHuman /\ QuietDeclineIsFinal
  BY DEF ControlInv, RuntimeInv, TypeOK, DecisionSound, EscalationNeedsHuman, QuietDeclineIsFinal
<1> QED BY ControlIsSound, <1>1, PTL

\* However often and however late a command is delivered, its operation starts
\* at most once (api.ts, store.ts beginCommand).
THEOREM IntentsAreIdempotent == ControlSpec => []OncePerIntent
<1>1. ControlInv => OncePerIntent
  BY DEF ControlInv, LogSound, OncePerIntent
<1> QED BY ControlIsSound, <1>1, PTL

\* After a COMPLETE lock nothing runs on the fork until a policy is enabled
\* again, whatever tick or approval was under way (runEmergencyLock).
THEOREM LocksHold == ControlSpec => NothingMovesAfterLock
<1> DEFINE Still == \A p \in DOMAIN decisions : decisions'[p].used = decisions[p].used
<1>1. ASSUME ControlInv, ControlNext, ~enabledSince PROVE Still
  <2>1. RuntimeInv /\ ~enabled
    BY <1>1 DEF ControlInv
  <2>2. CASE Next
    BY <2>1, <2>2, DisabledMovesNothing
  <2>3. CASE UNCHANGED vars
    BY <2>3 DEF vars, book
  <2> QED BY <1>1, <2>2, <2>3, ControlMovesTheRuntime
<1>2. ControlInv /\ [ControlNext]_allVars => [lockComplete /\ ~enabledSince => Still]_allVars
  BY <1>1
<1> QED BY ControlIsSound, <1>2, PTL DEF ControlSpec, NothingMovesAfterLock
=============================================================================
