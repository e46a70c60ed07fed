----------------------------- MODULE ForkRuntime -----------------------------
(***************************************************************************)
(* The agent runtime of a fork deployment (apps/studio/src/fork/runtime.ts)*)
(* and the fork's contracts as it uses them.  One JavaScript process:      *)
(* ticks, approve and decline requests and the operator's controls         *)
(* interleave at their awaits, and each action below is one stretch of     *)
(* code between two awaits.  Every await on the fork can fail, and a       *)
(* transaction whose answer is lost may or may not have been mined.        *)
(* Amounts are abstracted to the verdict the policy engine gives them.     *)
(***************************************************************************)
EXTENDS Naturals, FiniteSets

CONSTANTS
  Drivers,       \* this.drivers, by position: 1..Drivers
  Steps,         \* transactions of a proposal (approve, then the action)
  MaxProposals,  \* bound: proposals recorded over the life of the runtime
  Call,          \* what a position can call for, as the policy engine rules it
  Caller         \* approve requests that can be in progress at once

ASSUME RuntimeAssumption ==
  /\ Drivers \in Nat \ {0} /\ Steps \in Nat \ {0} /\ MaxProposals \in Nat
  /\ Call \subseteq {"ALLOW", "ESCALATE", "DENY"}

VARIABLES
  enabled,    \* ContextLockPolicyRegistry.isPolicyEnabled on the fork
  bound,      \* LocalAgentIdentityVerifier: the identity is bound
  need,       \* what each position calls for, as the policy engine rules it
  state,      \* this.state: paused, stopping; and whether start() has run
  timer,      \* this.timer: null, a set timeout, or one that has fired
  loop,       \* what runs when the awaited tick settles: start's or loop's
  tick,       \* this.inFlight: the tick that runs
  made,       \* proposals recorded so far
  decisions,  \* this.decisions with their steps on the fork, by correlation id
  pending,    \* this.pendingByCorrelation
  lastVerdict,\* this.lastVerdict while younger than REPEAT_DECISION_MS
  approving,  \* the approve request each caller is in
  asked,      \* history: escalations a human asked to approve
  declined,   \* history: escalations a human declined
  raced       \* history: of those, the ones an approve was in progress for

chain == <<enabled, bound, need>>
clock == <<state, timer, loop>>
book  == <<made, decisions, pending, lastVerdict>>
past  == <<asked, declined, raced>>
vars  == <<chain, clock, tick, book, approving, past>>

Verdict  == {"ALLOW", "ESCALATE"}
Need     == Call \cup {"NONE"}
Proposal == 1..MaxProposals
Step     == 1..Steps
Decision == [driver : 1..Drivers, verdict : Verdict,
             authorized : SUBSET Step,  \* steps with a recorded authorization
             approved   : SUBSET Step,  \* steps with a recorded approval
             used       : SUBSET Step,  \* steps the executor has run
             lapsed     : BOOLEAN,      \* the capabilities have expired
             executed   : BOOLEAN, approvedByHuman : BOOLEAN]
Tick     == [at : {"idle", "observing", "positions", "deciding", "preparing",
                   "executing", "observed"},
             driver : 1..Drivers, id : 0..MaxProposals, step : 1..Steps + 1,
             enabled : BOOLEAN, obs : [1..Drivers -> Need]]
Approve  == [at : {"idle", "relaying", "executing", "observed"},
             id : 0..MaxProposals, step : 1..Steps + 1]

idleTick    == [at |-> "idle", driver |-> 1, id |-> 0, step |-> 1,
                enabled |-> FALSE, obs |-> [d \in 1..Drivers |-> "NONE"]]
idleApprove == [at |-> "idle", id |-> 0, step |-> 1]

\* The constructed runtime of a deployment whose policy is registered DISABLED.
Init ==
  /\ enabled = FALSE /\ bound = TRUE
  /\ need = [d \in 1..Drivers |-> "NONE"]
  /\ state = [paused |-> FALSE, stopping |-> FALSE, started |-> FALSE]
  /\ timer = "null" /\ loop = "none"
  /\ tick = idleTick
  /\ made = 0 /\ decisions = [p \in {} |-> 0] /\ pending = {}
  /\ lastVerdict = [d \in 1..Drivers |-> "NONE"]
  /\ approving = [c \in Caller |-> idleApprove]
  /\ asked = {} /\ declined = {} /\ raced = {}

-----------------------------------------------------------------------------
(* The fork's contracts.                                                   *)

\* The checks of ContextLockExecutor.execute for one step of a proposal.
executorAccepts(p, s) ==
  /\ enabled /\ bound
  /\ ~decisions[p].lapsed
  /\ s \in decisions[p].authorized
  /\ s \notin decisions[p].used
  /\ decisions[p].verdict = "ESCALATE" => s \in decisions[p].approved

\* The position after a step: the last one does what the position called for.
needAfter(p, s) ==
  IF s = Steps THEN [need EXCEPT ![decisions[p].driver] = "NONE"] ELSE need

runStep(p, s) ==
  /\ decisions' = [decisions EXCEPT ![p].used = @ \cup {s}]
  /\ need' = needAfter(p, s)
  /\ UNCHANGED <<enabled, bound>>

-----------------------------------------------------------------------------
(* The loop: start, the timer, and ticks asked for over HTTP.              *)

\* The tick in flight settles: inFlight is cleared and the finally blocks run.
\* Mutant: the loop goes on only if the timer's own tick ran.
settleForgetting ==
  /\ tick' = idleTick
  /\ timer' = IF loop = "start" THEN "set" ELSE timer
  /\ loop' = "none"
settle ==
  /\ tick' = idleTick
  /\ timer' = IF loop = "start" \/ (loop = "loop" /\ ~state.stopping)
              THEN "set" ELSE timer
  /\ loop' = "none"

\* runTick up to its first await.
beginTick == tick' = [idleTick EXCEPT !.at = "observing"]

start ==
  /\ ~state.started /\ timer = "null"
  /\ state' = [state EXCEPT !.started = TRUE]
  /\ IF state.stopping \/ state.paused
       THEN timer' = "set" /\ UNCHANGED <<tick, loop>>
       ELSE beginTick /\ loop' = "start" /\ UNCHANGED timer
  /\ UNCHANGED <<chain, book, approving, past>>

\* The timeout fires and calls tick(), which joins the tick in flight or
\* starts one.  A paused runtime's tick settles at once and the timer is set
\* again: nothing changes.
timerFires ==
  /\ timer = "set"
  /\ \/ /\ state.stopping
        /\ timer' = "fired" /\ UNCHANGED <<tick, loop>>
     \/ /\ ~state.stopping /\ tick.at # "idle"
        /\ timer' = "fired" /\ loop' = "loop" /\ UNCHANGED tick
     \/ /\ ~state.stopping /\ tick.at = "idle" /\ ~state.paused
        /\ timer' = "fired" /\ loop' = "loop" /\ beginTick
  /\ UNCHANGED <<chain, state, book, approving, past>>

\* Mutant: a stopped runtime still looks when it is asked to.
tickNowStopped ==
  /\ tick.at = "idle" /\ state.started /\ ~state.paused
  /\ beginTick
  /\ UNCHANGED <<chain, clock, book, approving, past>>
\* ForkLabService.tickNow: one observation outside the loop's cadence.
tickNow ==
  /\ tick.at = "idle" /\ state.started
  /\ ~state.stopping /\ ~state.paused
  /\ beginTick
  /\ UNCHANGED <<chain, clock, book, approving, past>>

-----------------------------------------------------------------------------
(* One tick: observe, then decide for every driver in turn.                *)

nextDriver ==
  IF tick.driver = Drivers
    THEN settle
    ELSE /\ tick' = [tick EXCEPT !.at = "deciding", !.driver = @ + 1,
                                 !.id = 0, !.step = 1]
         /\ UNCHANGED <<timer, loop>>

\* observe: the registry bit is read before the positions are.
observePolicy ==
  /\ tick.at = "observing"
  /\ tick' = [tick EXCEPT !.at = "positions", !.enabled = enabled]
  /\ UNCHANGED <<chain, clock, book, approving, past>>

observePositions ==
  /\ tick.at = "positions"
  /\ tick' = [tick EXCEPT !.at = "deciding", !.obs = need]
  /\ UNCHANGED <<chain, clock, book, approving, past>>

\* Every step is ruled on with the registry bit of the sample.
evaluate == IF tick.enabled THEN tick.obs[tick.driver] ELSE "DENY"

outstanding(d) == \E p \in pending : decisions[p].driver = d

\* decide, where nothing is asked for: an escalation is outstanding, the
\* position calls for nothing, the same answer was given a moment ago, or the
\* answer is DENY, which is logged and goes no further.
decideNothing ==
  /\ tick.at = "deciding"
  /\ LET d == tick.driver IN
       \/ outstanding(d) /\ UNCHANGED lastVerdict
       \/ /\ ~outstanding(d) /\ tick.obs[d] = "NONE"
          /\ lastVerdict' = [lastVerdict EXCEPT ![d] = "NONE"]
       \/ /\ ~outstanding(d) /\ tick.obs[d] # "NONE"
          /\ \/ evaluate = "ESCALATE" /\ lastVerdict[d] = "ESCALATE"
                /\ UNCHANGED lastVerdict
             \/ evaluate = "DENY" /\ lastVerdict' = [lastVerdict EXCEPT ![d] = "DENY"]
  /\ nextDriver
  /\ UNCHANGED <<chain, state, made, decisions, pending, approving, past>>

newDecision(v) ==
  [driver |-> tick.driver, verdict |-> v, authorized |-> {}, approved |-> {},
   used |-> {}, lapsed |-> FALSE, executed |-> FALSE, approvedByHuman |-> FALSE]

\* Only a repeated answer other than ALLOW is suppressed.
remembered(v) == IF v = "ALLOW" THEN "NONE" ELSE v

\* decide, where the agent asks and may: the decision is recorded and prepared.
\* Mutant: a driver asks again while its escalation waits for the human.
decideAgain ==
  /\ tick.at = "deciding" /\ made < MaxProposals
  /\ tick.obs[tick.driver] # "NONE"
  /\ evaluate \in Verdict
  /\ evaluate = "ESCALATE" => lastVerdict[tick.driver] # "ESCALATE"
  /\ made' = made + 1
  /\ decisions' = [p \in 1..made + 1 |-> IF p = made + 1 THEN newDecision(evaluate)
                                         ELSE decisions[p]]
  /\ lastVerdict' = [lastVerdict EXCEPT ![tick.driver] = remembered(evaluate)]
  /\ tick' = [tick EXCEPT !.at = "preparing", !.id = made + 1]
  /\ UNCHANGED <<chain, clock, pending, approving, past>>
decide ==
  /\ tick.at = "deciding" /\ made < MaxProposals
  /\ ~outstanding(tick.driver)
  /\ tick.obs[tick.driver] # "NONE"
  /\ evaluate \in Verdict
  /\ evaluate = "ESCALATE" => lastVerdict[tick.driver] # "ESCALATE"
  /\ made' = made + 1
  /\ decisions' = [p \in 1..made + 1 |-> IF p = made + 1 THEN newDecision(evaluate)
                                         ELSE decisions[p]]
  /\ lastVerdict' = [lastVerdict EXCEPT ![tick.driver] = remembered(evaluate)]
  /\ tick' = [tick EXCEPT !.at = "preparing", !.id = made + 1]
  /\ UNCHANGED <<chain, clock, pending, approving, past>>

\* prepare: a capability is signed and its authorization recorded, per step.
\* After the last one an escalation waits and an allowed proposal is executed.
prepare ==
  /\ tick.at = "preparing"
  /\ decisions' = [decisions EXCEPT ![tick.id].authorized = @ \cup {tick.step}]
  /\ \/ /\ tick.step < Steps
        /\ tick' = [tick EXCEPT !.step = @ + 1]
        /\ UNCHANGED <<pending, timer, loop>>
     \/ /\ tick.step = Steps /\ decisions[tick.id].verdict = "ESCALATE"
        /\ pending' = pending \cup {tick.id}
        /\ nextDriver
     \/ /\ tick.step = Steps /\ decisions[tick.id].verdict = "ALLOW"
        /\ tick' = [tick EXCEPT !.at = "executing", !.step = 1]
        /\ UNCHANGED <<pending, timer, loop>>
  /\ UNCHANGED <<chain, state, made, lastVerdict, approving, past>>

\* execute: one step is submitted; a refused one ends the run of this driver.
executeStep ==
  /\ tick.at = "executing"
  /\ \/ /\ executorAccepts(tick.id, tick.step)
        /\ runStep(tick.id, tick.step)
        /\ tick' = IF tick.step < Steps THEN [tick EXCEPT !.step = @ + 1]
                   ELSE [tick EXCEPT !.at = "observed"]
        /\ UNCHANGED <<timer, loop>>
     \/ /\ ~executorAccepts(tick.id, tick.step)
        /\ nextDriver /\ UNCHANGED <<decisions, chain>>
  /\ UNCHANGED <<state, made, pending, lastVerdict, approving, past>>

\* execute's last read, then decide marks the record.
executed ==
  /\ tick.at = "observed"
  /\ decisions' = [decisions EXCEPT ![tick.id].executed = TRUE]
  /\ nextDriver
  /\ UNCHANGED <<chain, state, made, pending, lastVerdict, approving, past>>

\* An await on the fork fails.  While observing or proposing, runTick's catch
\* ends the tick; later decide's catch goes on to the next driver.  The
\* transaction that was waited for may have been mined all the same.
tickFails ==
  /\ \/ /\ tick.at \in {"observing", "positions", "deciding"}
        /\ settle /\ UNCHANGED <<decisions, chain>>
     \/ /\ tick.at \in {"preparing", "executing", "observed"}
        /\ nextDriver /\ UNCHANGED <<decisions, chain>>
     \/ /\ tick.at = "preparing"
        /\ decisions' = [decisions EXCEPT ![tick.id].authorized = @ \cup {tick.step}]
        /\ nextDriver /\ UNCHANGED chain
     \/ /\ tick.at = "executing" /\ executorAccepts(tick.id, tick.step)
        /\ runStep(tick.id, tick.step) /\ nextDriver
  /\ UNCHANGED <<state, made, pending, lastVerdict, approving, past>>

-----------------------------------------------------------------------------
(* The human's answer to an escalation.                                    *)

approve(c, p) ==
  /\ approving[c].at = "idle" /\ p \in pending
  /\ approving' = [approving EXCEPT ![c] = [at |-> "relaying", id |-> p, step |-> 1]]
  /\ asked' = asked \cup {p}
  /\ UNCHANGED <<chain, clock, tick, book, declined, raced>>

leave(c) == approving' = [approving EXCEPT ![c] = idleApprove]

\* submitApproval for one step; it reverts where an approval exists already.
\* After the last one the escalation leaves the map and execution begins.
\* Mutant: the escalation is executed as soon as one step is approved.
relayApprovalOnce(c) ==
  LET p == approving[c].id  s == approving[c].step IN
  /\ approving[c].at = "relaying"
  /\ \/ /\ s \notin decisions[p].approved
        /\ decisions' = [decisions EXCEPT ![p].approved = @ \cup {s}]
        /\ approving' = [approving EXCEPT ![c].at = "executing", ![c].step = 1]
        /\ pending' = pending \ {p}
     \/ /\ s \in decisions[p].approved
        /\ leave(c) /\ UNCHANGED <<decisions, pending>>
  /\ UNCHANGED <<chain, clock, tick, made, lastVerdict, past>>
relayApproval(c) ==
  LET p == approving[c].id  s == approving[c].step IN
  /\ approving[c].at = "relaying"
  /\ \/ /\ s \notin decisions[p].approved
        /\ decisions' = [decisions EXCEPT ![p].approved = @ \cup {s}]
        /\ IF s < Steps
             THEN /\ approving' = [approving EXCEPT ![c].step = @ + 1]
                  /\ UNCHANGED pending
             ELSE /\ approving' = [approving EXCEPT ![c].at = "executing",
                                                    ![c].step = 1]
                  /\ pending' = pending \ {p}
     \/ /\ s \in decisions[p].approved
        /\ leave(c) /\ UNCHANGED <<decisions, pending>>
  /\ UNCHANGED <<chain, clock, tick, made, lastVerdict, past>>

\* Mutant: a refused step counts as done.
executeApprovedAnyway(c) ==
  LET p == approving[c].id  s == approving[c].step IN
  /\ approving[c].at = "executing"
  /\ \/ executorAccepts(p, s) /\ runStep(p, s)
     \/ ~executorAccepts(p, s) /\ UNCHANGED <<decisions, chain>>
  /\ approving' = IF s < Steps THEN [approving EXCEPT ![c].step = @ + 1]
                  ELSE [approving EXCEPT ![c].at = "observed"]
  /\ UNCHANGED <<clock, tick, made, pending, lastVerdict, past>>
executeApproved(c) ==
  LET p == approving[c].id  s == approving[c].step IN
  /\ approving[c].at = "executing"
  /\ \/ /\ executorAccepts(p, s) /\ runStep(p, s)
        /\ approving' = IF s < Steps THEN [approving EXCEPT ![c].step = @ + 1]
                        ELSE [approving EXCEPT ![c].at = "observed"]
     \/ /\ ~executorAccepts(p, s)
        /\ leave(c) /\ UNCHANGED <<decisions, chain>>
  /\ UNCHANGED <<clock, tick, made, pending, lastVerdict, past>>

\* approve's last lines: the record is marked and the driver may ask again.
approved(c) ==
  LET p == approving[c].id IN
  /\ approving[c].at = "observed"
  /\ decisions' = [decisions EXCEPT ![p].executed = TRUE, ![p].approvedByHuman = TRUE]
  /\ lastVerdict' = [lastVerdict EXCEPT ![decisions[p].driver] = "NONE"]
  /\ leave(c)
  /\ UNCHANGED <<chain, clock, tick, made, pending, past>>

\* An await of approve fails or a signature is refused; a transaction that
\* was waited for may have been mined.
approveFails(c) ==
  LET p == approving[c].id  s == approving[c].step IN
  /\ approving[c].at # "idle" /\ leave(c)
  /\ \/ UNCHANGED <<decisions, chain>>
     \/ /\ approving[c].at = "relaying" /\ s \notin decisions[p].approved
        /\ decisions' = [decisions EXCEPT ![p].approved = @ \cup {s}]
        /\ UNCHANGED chain
     \/ /\ approving[c].at = "executing" /\ executorAccepts(p, s)
        /\ runStep(p, s)
  /\ UNCHANGED <<clock, tick, made, pending, lastVerdict, past>>

inApproval(p) == \E c \in Caller : approving[c].at # "idle" /\ approving[c].id = p

\* Mutant: the decline is noted and the escalation stays in the map.
declineKeeping(p) ==
  /\ p \in pending
  /\ declined' = declined \cup {p}
  /\ raced' = IF inApproval(p) THEN raced \cup {p} ELSE raced
  /\ UNCHANGED <<chain, clock, tick, book, approving, asked>>
decline(p) ==
  /\ p \in pending
  /\ pending' = pending \ {p}
  /\ declined' = declined \cup {p}
  /\ raced' = IF inApproval(p) THEN raced \cup {p} ELSE raced
  /\ UNCHANGED <<chain, clock, tick, made, decisions, lastVerdict, approving, asked>>

-----------------------------------------------------------------------------
(* The operator's controls, and the world.                                 *)

pause ==
  /\ state' = [state EXCEPT !.paused = TRUE]
  /\ UNCHANGED <<chain, timer, loop, tick, book, approving, past>>

resume ==
  /\ state' = [state EXCEPT !.paused = FALSE]
  /\ UNCHANGED <<chain, timer, loop, tick, book, approving, past>>

stop ==
  /\ state' = [state EXCEPT !.stopping = TRUE]
  /\ timer' = "null"
  /\ UNCHANGED <<chain, loop, tick, book, approving, past>>

\* The deployer's setPolicy and revoke transactions.
setPolicy(b) ==
  /\ enabled' = b
  /\ UNCHANGED <<bound, need, clock, tick, book, approving, past>>

revoke ==
  /\ bound' = FALSE
  /\ UNCHANGED <<enabled, need, clock, tick, book, approving, past>>

\* ForkLabService.stress, or the market: a position calls for something else.
stress(d, n) ==
  /\ need[d] # n
  /\ need' = [need EXCEPT ![d] = n]
  /\ UNCHANGED <<enabled, bound, clock, tick, book, approving, past>>

\* The fork's clock passes the expiry of a proposal's capabilities.
lapse(p) ==
  /\ p \in DOMAIN decisions /\ ~decisions[p].lapsed
  /\ decisions' = [decisions EXCEPT ![p].lapsed = TRUE]
  /\ UNCHANGED <<chain, clock, tick, made, pending, lastVerdict, approving, past>>

\* REPEAT_DECISION_MS pass, or the proposal's amount changes its bucket.
verdictAges(d) ==
  /\ lastVerdict[d] # "NONE"
  /\ lastVerdict' = [lastVerdict EXCEPT ![d] = "NONE"]
  /\ UNCHANGED <<chain, clock, tick, made, decisions, pending, approving, past>>

-----------------------------------------------------------------------------
tickStep ==
  \/ observePolicy \/ observePositions \/ decideNothing \/ decide
  \/ prepare \/ executeStep \/ executed

approveStep(c) == relayApproval(c) \/ executeApproved(c) \/ approved(c)

loopStep == start \/ timerFires

\* What the process does by itself, what goes wrong on the way to the fork,
\* what users ask for, and what the operator and the world change.
process == loopStep \/ tickStep \/ \E c \in Caller : approveStep(c)
faults  == tickFails \/ \E c \in Caller : approveFails(c)
users   ==
  \/ tickNow
  \/ \E c \in Caller, p \in pending : approve(c, p)
  \/ \E p \in pending : decline(p)
controls == pause \/ resume \/ stop \/ revoke \/ \E b \in BOOLEAN : setPolicy(b)
world ==
  \/ \E d \in 1..Drivers, n \in Need : stress(d, n)
  \/ \E p \in Proposal : lapse(p)
  \/ \E d \in 1..Drivers : verdictAges(d)

Next == process \/ faults \/ users \/ controls \/ world

\* Timers fire and awaits settle, by an answer or, since viem's calls time
\* out, by a failure.  Nothing is assumed of users, operator or world.
Fairness ==
  /\ WF_vars(loopStep)
  /\ WF_vars(tickStep \/ tickFails)
  /\ \A c \in Caller : WF_vars(approveStep(c) \/ approveFails(c))

Spec == Init /\ [][Next]_vars /\ Fairness

-----------------------------------------------------------------------------
(* Properties.                                                             *)

TypeOK ==
  /\ enabled \in BOOLEAN /\ bound \in BOOLEAN
  /\ need \in [1..Drivers -> Need]
  /\ state \in [paused : BOOLEAN, stopping : BOOLEAN, started : BOOLEAN]
  /\ timer \in {"null", "set", "fired"} /\ loop \in {"none", "start", "loop"}
  /\ tick \in Tick
  /\ made \in 0..MaxProposals
  /\ decisions \in [1..made -> Decision]
  /\ pending \subseteq 1..made
  /\ lastVerdict \in [1..Drivers -> {"NONE", "ESCALATE", "DENY"}]
  /\ approving \in [Caller -> Approve]
  /\ asked \subseteq Proposal /\ raced \subseteq declined /\ declined \subseteq Proposal

\* No step of an escalated proposal runs before a human asked for it and every
\* one of its steps has an approval on the fork, whatever approve requests,
\* ticks and failures interleave (runtime.ts approve, execute).
EscalationNeedsHuman ==
  \A p \in DOMAIN decisions :
    decisions[p].verdict = "ESCALATE" /\ decisions[p].used # {} =>
      p \in asked /\ decisions[p].approved = Step

\* A decision that says executed was executed in full on the fork, and one
\* that says a human approved it was asked of a human (DecisionRecord).
RecordsAreTrue ==
  \A p \in DOMAIN decisions :
    decisions[p].executed =>
      /\ decisions[p].used = Step
      /\ decisions[p].approvedByHuman <=> decisions[p].verdict = "ESCALATE"

\* The human is asked one question per driver at a time, although the timer
\* and HTTP requests start ticks independently (decide's outstanding check).
OneOpenQuestion ==
  \A p, q \in pending : decisions[p].driver = decisions[q].driver => p = q

\* An escalation that was declined while nobody was approving it never runs.
QuietDeclineIsFinal == \A p \in declined \ raced : decisions[p].used = {}

\* Once the runtime is told to stop, the tick in flight ends and no other
\* begins: the agent proposes nothing ever again (stop, tick).
StopQuiesces == state.stopping ~> [](tick.at = "idle")

\* The loop outlives every failure: a started runtime that is neither paused
\* nor stopping looks at the fork again and again, also when a tick asked for
\* over HTTP and the timer meet (start, tick).
KeepsLooking ==
  []<>(tick.at = "observing" \/ state.paused \/ state.stopping \/ ~state.started)
=============================================================================
