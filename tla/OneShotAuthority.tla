-------------------------- MODULE OneShotAuthority --------------------------
(***************************************************************************)
(* What ContextLock promises about execution, without contracts, clocks,   *)
(* keys or calls: verdicts are final once given, humans consent to single  *)
(* capabilities, and a capability takes effect once, on the verdict given  *)
(* for its request, with human consent when that verdict is ESCALATE.      *)
(***************************************************************************)
EXTENDS Naturals

CONSTANTS
  Capability, AuthorizationId, Report, NoRecord,
  SlotOf(_),      \* the replay slot of a capability
  RequestOf(_)    \* the request a capability is for

VARIABLES
  decided,      \* [AuthorizationId -> Report or NoRecord]
  consented,    \* capabilities a human has consented to
  executions    \* [Capability -> Nat]

vars == <<decided, consented, executions>>

Init ==
  /\ decided = [id \in AuthorizationId |-> NoRecord]
  /\ consented = {}
  /\ executions = [c \in Capability |-> 0]

Decide(id, r) ==
  /\ decided[id] = NoRecord
  /\ decided' = [decided EXCEPT ![id] = r]
  /\ UNCHANGED <<consented, executions>>

Consent(c) ==
  /\ consented' = consented \cup {c}
  /\ UNCHANGED <<decided, executions>>

Execute(c) ==
  /\ \A d \in Capability : SlotOf(d) = SlotOf(c) => executions[d] = 0
  /\ c.authorizationId \in AuthorizationId
  /\ LET r == decided[c.authorizationId]
     IN  /\ r # NoRecord
         /\ r.requestHash = RequestOf(c)
         /\ \/ r.verdict = "ALLOW"
            \/ r.verdict = "ESCALATE" /\ c \in consented
  /\ executions' = [executions EXCEPT ![c] = 1]
  /\ UNCHANGED <<decided, consented>>

Next ==
  \/ \E id \in AuthorizationId, r \in Report : Decide(id, r)
  \/ \E c \in Capability : Consent(c) \/ Execute(c)

Spec == Init /\ [][Next]_vars
=============================================================================
