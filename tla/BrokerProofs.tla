---------------------------- MODULE BrokerProofs ----------------------------
(***************************************************************************)
(* The broker makes at most one capability per idempotency key, gives no   *)
(* nonce twice, tracks what it returns, never reopens an outcome and never *)
(* disagrees with the chain unless two calls raced, for any number of      *)
(* calls, keys, restarts and interleavings.                                *)
(***************************************************************************)
EXTENDS Broker, TLAPS

\* The clock's second is itself a time.
LEMMA SecondTyped == \A t \in 0..MaxTime : second(t) \in 0..MaxTime
  BY BrokerAssumption DEF second

\* Every field of a call's local variables has its type.
LEMMA LocalTyped ==
  ASSUME TypeOK, NEW c \in Call
  PROVE  /\ local[c] \in Local /\ local[c].key \in Key \cup {None}
         /\ local[c].action \in Action \cup {None}
         /\ local[c].identity \in Identity \cup {None}
         /\ local[c].evaluation \in [id : AuthId, verdict : Verdict] \cup {None}
         /\ local[c].cap \in Capability \cup {None}
  BY DEF TypeOK, Local

\* An answer is well typed and ends the call.
LEMMA AnswerTyped ==
  ASSUME TypeOK, NEW c \in Call, NEW st \in Status, NEW x \in Capability \cup {None},
         Answer(c, st, x)
  PROVE  /\ pc' \in [Call -> {"idle", "done", "lost"} \cup InFlight]
         /\ reply' \in [Call -> Reply \cup {None}]
  BY DEF TypeOK, Answer, Goto, Reply

\* The broker starts well typed.
LEMMA TypeInit == Init => TypeOK
  BY BrokerAssumption, NoneAssumption
  DEF Init, TypeOK, blank, Local, InFlight

\* An exception changes nothing but the call's own answer.
LEMMA ThrowsTyped ==
  ASSUME TypeOK, NEW c \in Call, Throws(c), gateway' \in [RequestHash -> Nat]
  PROVE  TypeOK'
  <1>1. Answer(c, "FAILED", None) /\ UNCHANGED <<now, nonceCounter, tables, verdicts, mempool, local>>
    BY DEF Throws
  <1>2. /\ pc' \in [Call -> {"idle", "done", "lost"} \cup InFlight]
        /\ reply' \in [Call -> Reply \cup {None}]
    BY <1>1, AnswerTyped DEF Status
  <1> QED BY <1>1, <1>2 DEF TypeOK, tables

\* A row keeps its type when one of its fields gets a new value.
LEMMA RowTyped ==
  ASSUME TypeOK, NEW k \in Key, requests[k] # None
  PROVE  /\ \A st \in Status : [requests EXCEPT ![k].status = st] \in [Key -> Row \cup {None}]
         /\ \A i \in Identity : [requests EXCEPT ![k].identity = i] \in [Key -> Row \cup {None}]
         /\ requests[k].status \in Status
  BY DEF TypeOK, Row

\* createRequest's first stretch keeps the types.
LEMMA CreateTyped ==
  ASSUME TypeOK, NEW c \in Call, NEW k \in Key, NEW a \in Action, createRequest(c, k, a)
  PROVE  TypeOK'
  <1>0. UNCHANGED <<now, nonceCounter, creAuthorizations, capabilities, chain>>
    BY DEF createRequest
  <1>1. CASE requests[k] # None /\ getRequest(c, k) /\ UNCHANGED <<requests, local>>
    <2>1. requests[k].status \in Status
      BY <1>1, RowTyped
    <2>2. /\ pc' \in [Call -> {"idle", "done", "lost"} \cup InFlight]
          /\ reply' \in [Call -> Reply \cup {None}]
      BY <1>1, <2>1, AnswerTyped DEF getRequest
    <2> QED BY <1>0, <1>1, <2>2 DEF TypeOK, chain
  <1>2. CASE Answer(c, "DENIED", None) /\ UNCHANGED <<requests, local>>
    <2>1. /\ pc' \in [Call -> {"idle", "done", "lost"} \cup InFlight]
          /\ reply' \in [Call -> Reply \cup {None}]
      BY <1>2, AnswerTyped DEF Status
    <2> QED BY <1>0, <1>2, <2>1 DEF TypeOK, chain
  <1>3. CASE /\ requests' = [requests EXCEPT ![k] =
                  [action |-> a, identity |-> None, status |-> "PENDING"]]
             /\ local' = [local EXCEPT ![c].key = k, ![c].action = a]
             /\ Goto(c, "resolve") /\ UNCHANGED reply
    <2>1. requests' \in [Key -> Row \cup {None}]
      BY <1>3 DEF TypeOK, Row, Status
    <2>2. local' \in [Call -> Local]
      <3> DEFINE l == [local[c] EXCEPT !.key = k, !.action = a]
      <3>1. local[c] \in Local
        BY DEF TypeOK
      <3>2. l \in Local
        BY <3>1 DEF Local
      <3>3. local' = [local EXCEPT ![c] = l]
        BY <1>3 DEF TypeOK
      <3> QED BY <3>2, <3>3 DEF TypeOK
    <2>3. pc' \in [Call -> {"idle", "done", "lost"} \cup InFlight]
      BY <1>3 DEF TypeOK, Goto, InFlight
    <2> QED BY <1>0, <1>3, <2>1, <2>2, <2>3 DEF TypeOK, chain
  <1> QED BY <1>1, <1>2, <1>3 DEF createRequest

\* The calls to the outside keep the types.
LEMMA ResolveTyped ==
  ASSUME TypeOK, BrokerInv, NEW c \in Call
  PROVE  /\ \A i \in Identity : resolve(c, i) => TypeOK'
         /\ resolveFails(c) => TypeOK'
  <1>1. pc[c] = "resolve" => local[c].key \in Key /\ requests[local[c].key] # None
    BY NoneAssumption, BrokerAssumption DEF BrokerInv, KeyHasOneOwner, InFlight
  <1>2. ASSUME NEW i \in Identity, resolve(c, i) PROVE TypeOK'
    <2>1. requests' \in [Key -> Row \cup {None}]
      BY <1>1, <1>2, RowTyped DEF resolve
    <2>2. local' \in [Call -> Local]
      BY <1>2 DEF resolve, TypeOK, Local
    <2>3. pc' \in [Call -> {"idle", "done", "lost"} \cup InFlight]
      BY <1>2 DEF resolve, TypeOK, Goto, InFlight
    <2> QED BY <1>2, <2>1, <2>2, <2>3 DEF resolve, TypeOK, chain
  <1>3. ASSUME resolveFails(c) PROVE TypeOK'
    <2>1. requests' \in [Key -> Row \cup {None}]
      BY <1>1, <1>3, RowTyped DEF resolveFails, setStatus, Status
    <2>2. /\ pc' \in [Call -> {"idle", "done", "lost"} \cup InFlight]
          /\ reply' \in [Call -> Reply \cup {None}]
      BY <1>3, AnswerTyped DEF resolveFails, Status
    <2> QED BY <1>3, <2>1, <2>2 DEF resolveFails, TypeOK, chain
  <1> QED BY <1>2, <1>3

\* The evaluator's chain calls keep the types.
LEMMA EvaluateTyped ==
  ASSUME TypeOK, BrokerInv, NEW c \in Call
  PROVE  /\ announce(c) => TypeOK'
         /\ \A v \in Verdict : decide(c, v) => TypeOK'
         /\ estimate(c) => TypeOK'
         /\ onReport(c) => TypeOK'
         /\ receipt(c) => TypeOK'
  <1>1. pc[c] \in {"announce", "context"} => requestHash(c) \in RequestHash
    BY DEF BrokerInv, LocalsAreSet, InFlight, requestHash, RequestHash
  <1>2. pc[c] \in {"estimate", "receipt", "readId"} \/ c \in mempool =>
          local[c].evaluation \in [id : AuthId, verdict : Verdict]
    BY LocalTyped DEF BrokerInv, LocalsAreSet
  <1>3. ASSUME announce(c) PROVE TypeOK'
    <2>1. gateway' \in [RequestHash -> Nat]
      BY <1>1, <1>3 DEF announce, requestEvaluation, TypeOK
    <2>2. CASE Throws(c)
      BY <2>1, <2>2, ThrowsTyped
    <2>3. CASE Goto(c, "context") /\ UNCHANGED <<now, nonceCounter, tables, verdicts, mempool, local, reply>>
      BY <2>1, <2>3 DEF TypeOK, Goto, InFlight, tables
    <2> QED BY <1>3, <2>2, <2>3 DEF announce
  <1>4. ASSUME NEW v \in Verdict, decide(c, v) PROVE TypeOK'
    <2>1. second(now) \in 0..MaxTime
      BY SecondTyped DEF TypeOK
    <2>2. [id |-> [request |-> requestHash(c), evaluatedAt |-> second(now)], verdict |-> v]
            \in [id : AuthId, verdict : Verdict]
      BY <1>1, <1>4, <2>1 DEF decide, AuthId
    <2>3. local' \in [Call -> Local]
      BY <1>4, <2>2 DEF decide, TypeOK, Local
    <2>4. pc' \in [Call -> {"idle", "done", "lost"} \cup InFlight]
      BY <1>4 DEF decide, TypeOK, Goto, InFlight
    <2> QED BY <1>4, <2>3, <2>4 DEF decide, TypeOK, tables, chain
  <1>5. ASSUME estimate(c) PROVE TypeOK'
    <2>1. CASE Throws(c) /\ UNCHANGED gateway
      BY <2>1, ThrowsTyped DEF TypeOK
    <2>2. CASE /\ mempool' = mempool \cup {c} /\ Goto(c, "receipt")
               /\ UNCHANGED <<now, nonceCounter, tables, gateway, verdicts, local, reply>>
      BY <2>2 DEF TypeOK, Goto, InFlight, tables
    <2> QED BY <1>5, <2>1, <2>2 DEF estimate
  <1>6. ASSUME onReport(c) PROVE TypeOK'
    <2>1. verdicts' \in [AuthId -> Verdict \cup {None}]
      BY <1>2, <1>6 DEF onReport, TypeOK
    <2> QED BY <1>6, <2>1 DEF onReport, TypeOK, tables
  <1>7. ASSUME receipt(c) PROVE TypeOK'
    <2>1. CASE Throws(c) /\ UNCHANGED gateway
      BY <2>1, ThrowsTyped DEF TypeOK
    <2>2. CASE Goto(c, "readId") /\ UNCHANGED <<now, nonceCounter, tables, chain, local, reply>>
      BY <2>2 DEF TypeOK, Goto, InFlight, tables, chain
    <2> QED BY <1>7, <2>1, <2>2 DEF receipt
  <1> QED BY <1>3, <1>4, <1>5, <1>6, <1>7

\* Storing the verdict and minting keep the types.
LEMMA ObserveTyped ==
  ASSUME TypeOK, BrokerInv, NEW c \in Call, observe(c)
  PROVE  TypeOK'
  <1> DEFINE e == local[c].evaluation
             k == local[c].key
             cap == [key |-> k, authorizationId |-> e.id, issuedAt |-> second(now),
                     nonce |-> nextNonce]
  <1>1. k \in Key /\ requests[k] # None /\ pc[c] = "readId"
    BY BrokerAssumption DEF observe, BrokerInv, KeyHasOneOwner, InFlight
  <1>2. e \in [id : AuthId, verdict : Verdict]
    BY <1>1, LocalTyped DEF BrokerInv, LocalsAreSet
  <1>3. creAuthorizations' \in [AuthId -> AuthRow \cup {None}]
    BY <1>1, <1>2 DEF observe, TypeOK, AuthRow
  <1>4. ASSUME NEW st \in {"DENIED", "ESCALATED"},
               setStatus(k, st), Answer(c, st, None), UNCHANGED <<nonceCounter, local>>
        PROVE  TypeOK'
    <2>1. requests' \in [Key -> Row \cup {None}]
      BY <1>1, <1>4, RowTyped DEF setStatus, Status
    <2>2. /\ pc' \in [Call -> {"idle", "done", "lost"} \cup InFlight]
          /\ reply' \in [Call -> Reply \cup {None}]
      BY <1>4, AnswerTyped DEF Status
    <2> QED BY <1>3, <1>4, <2>1, <2>2 DEF observe, TypeOK, chain
  <1>5. ASSUME nonceCounter < MaxMints, nonceCounter' = nonceCounter + 1,
               local' = [local EXCEPT ![c].cap = cap],
               Goto(c, "sign"), UNCHANGED <<requests, reply>>
        PROVE  TypeOK'
    <2>1. second(now) \in 0..MaxTime
      BY SecondTyped DEF TypeOK
    <2>2. nextNonce \in Nat
      <3>1. now \in Nat /\ nonceCounter \in Nat /\ NonceScale \in Nat
        BY BrokerAssumption DEF TypeOK
      <3> QED BY <3>1 DEF nextNonce
    <2>3. cap \in Capability
      BY <1>1, <1>2, <2>1, <2>2 DEF Capability
    <2>4. local' \in [Call -> Local]
      BY <1>5, <2>3 DEF TypeOK, Local
    <2>5. pc' \in [Call -> {"idle", "done", "lost"} \cup InFlight]
      BY <1>5 DEF TypeOK, Goto, InFlight
    <2>6. nonceCounter' \in 0..MaxMints
      BY <1>5, BrokerAssumption DEF TypeOK
    <2> QED BY <1>3, <1>5, <2>4, <2>5, <2>6 DEF observe, TypeOK, chain
  <1> QED BY <1>4, <1>5 DEF observe

\* Signing, and the steps that are not a call's, keep the types.
LEMMA OtherTyped ==
  ASSUME TypeOK, BrokerInv
  PROVE  /\ \A c \in Call : observeFails(c) => TypeOK'
         /\ \A c \in Call : sign(c) => TypeOK'
         /\ restart => TypeOK'
         /\ Tick => TypeOK'
  <1>1. ASSUME NEW c \in Call, observeFails(c) PROVE TypeOK'
    BY <1>1, ThrowsTyped DEF observeFails, TypeOK
  <1>2. ASSUME NEW c \in Call, sign(c) PROVE TypeOK'
    <2>1. local[c].key \in Key /\ requests[local[c].key] # None /\ local[c].cap \in Capability
      BY <1>2, LocalTyped, BrokerAssumption
      DEF sign, BrokerInv, KeyHasOneOwner, CapabilityHasItsCall, InFlight
    <2>2. requests' \in [Key -> Row \cup {None}]
      BY <1>2, <2>1, RowTyped DEF sign, setStatus, Status
    <2>3. /\ pc' \in [Call -> {"idle", "done", "lost"} \cup InFlight]
          /\ reply' \in [Call -> Reply \cup {None}]
      BY <1>2, <2>1, AnswerTyped DEF sign, Status
    <2> QED BY <1>2, <2>1, <2>2, <2>3 DEF sign, TypeOK, chain
  <1>3. ASSUME restart PROVE TypeOK'
    BY <1>3, BrokerAssumption DEF restart, TypeOK, tables, chain
  <1>4. ASSUME Tick PROVE TypeOK'
    BY <1>4, BrokerAssumption DEF Tick, TypeOK, tables, chain
  <1> QED BY <1>1, <1>2, <1>3, <1>4

\* Every step keeps the types.
LEMMA TypeStep ==
  ASSUME TypeOK, BrokerInv, [Next]_vars
  PROVE  TypeOK'
  <1>1. CASE UNCHANGED vars
    BY <1>1 DEF vars, tables, chain, TypeOK
  <1>2. ASSUME NEW c \in Call, Step(c) PROVE TypeOK'
    BY <1>2, CreateTyped, ResolveTyped, EvaluateTyped, ObserveTyped, OtherTyped DEF Step
  <1>3. CASE restart \/ Tick
    BY <1>3, OtherTyped
  <1> QED BY <1>1, <1>2, <1>3 DEF Next

\* Nothing is owned, minted or answered at first.
LEMMA InvInit == Init => BrokerInv
  BY BrokerAssumption
  DEF Init, BrokerInv, KeyHasOneOwner, LocalsAreSet, CapabilityHasItsCall, NoncesRise,
      blank, InFlight

\* An exception keeps the invariant: the row stays PENDING, and nobody's any more.
LEMMA ThrowsKeepsInv ==
  ASSUME TypeOK, BrokerInv, NEW c \in Call, Throws(c)
  PROVE  BrokerInv'
  <1>1. /\ pc' = [pc EXCEPT ![c] = "done"]
        /\ reply' = [reply EXCEPT ![c] = [status |-> "FAILED", cap |-> None]]
        /\ UNCHANGED <<now, nonceCounter, requests, creAuthorizations, capabilities, mempool, local>>
    BY DEF Throws, Answer, Goto, tables
  <1>2. KeyHasOneOwner'
    BY <1>1 DEF BrokerInv, KeyHasOneOwner, InFlight, TypeOK
  <1>3. LocalsAreSet'
    BY <1>1 DEF BrokerInv, LocalsAreSet, InFlight, TypeOK
  <1>4. CapabilityHasItsCall'
    BY <1>1 DEF BrokerInv, CapabilityHasItsCall, InFlight, TypeOK
  <1>5. NoncesRise'
    BY <1>1 DEF BrokerInv, NoncesRise
  <1> QED BY <1>2, <1>3, <1>4, <1>5 DEF BrokerInv

\* The row of a stored capability exists and belongs to the capability's call.
LEMMA RowOfCapability ==
  ASSUME TypeOK, BrokerInv, NEW x \in capabilities, NEW d \in Call, local[d].cap = x
  PROVE  x.key \in Key /\ requests[x.key] # None /\ x.key = local[d].key
  <1>1. x \in Capability /\ x # None
    BY NoneAssumption DEF TypeOK
  <1>2. local[d].key # None /\ x.key = local[d].key
    BY <1>1 DEF BrokerInv, CapabilityHasItsCall
  <1> QED BY <1>1, <1>2 DEF Capability, BrokerInv, KeyHasOneOwner

\* A call that only moves on to its next await keeps the invariant.
LEMMA MoveKeepsInv ==
  ASSUME TypeOK, BrokerInv, NEW c \in Call, NEW to \in InFlight \ {"resolve", "sign"},
         pc[c] \in InFlight \ {"sign"}, pc' = [pc EXCEPT ![c] = to],
         UNCHANGED <<now, nonceCounter, creAuthorizations, capabilities, reply>>,
         requests' = requests \/ \E i \in Identity :
           requests' = [requests EXCEPT ![local[c].key].identity = i],
         \A d \in Call : /\ local'[d].key = local[d].key
                         /\ local'[d].action = local[d].action
                         /\ local'[d].cap = local[d].cap
  PROVE  KeyHasOneOwner' /\ CapabilityHasItsCall' /\ NoncesRise'
  <1>0. local[c].key \in Key /\ requests[local[c].key] # None
    BY BrokerAssumption DEF BrokerInv, KeyHasOneOwner
  <1>1. \A k \in Key : /\ requests'[k] # None <=> requests[k] # None
                       /\ requests[k] # None => requests'[k].status = requests[k].status
    <2>1. CASE requests' = requests
      BY <2>1
    <2>2. ASSUME NEW i \in Identity, requests' = [requests EXCEPT ![local[c].key].identity = i]
          PROVE  \A k \in Key : /\ requests'[k] # None <=> requests[k] # None
                                /\ requests[k] # None => requests'[k].status = requests[k].status
      <3>1. requests[local[c].key] \in Row
        BY <1>0 DEF TypeOK
      <3>2. /\ [requests[local[c].key] EXCEPT !.identity = i] \in Row
            /\ [requests[local[c].key] EXCEPT !.identity = i].status = requests[local[c].key].status
        BY <3>1 DEF Row
      <3> QED BY <1>0, <2>2, <3>2, NoneAssumption DEF TypeOK
    <2> QED BY <2>1, <2>2
  <1>2. KeyHasOneOwner'
    BY <1>1, BrokerAssumption DEF BrokerInv, KeyHasOneOwner, InFlight, TypeOK, Local
  <1>3. CapabilityHasItsCall'
    <2>1. \A x \in capabilities : \E d \in Call :
            pc'[d] = "done" /\ local'[d].cap = x /\ requests'[x.key].status = "ALLOWED"
      <3>1. SUFFICES ASSUME NEW x \in capabilities
                     PROVE  \E d \in Call : pc'[d] = "done" /\ local'[d].cap = x
                                            /\ requests'[x.key].status = "ALLOWED"
        OBVIOUS
      <3>2. PICK d \in Call : pc[d] = "done" /\ local[d].cap = x /\ requests[x.key].status = "ALLOWED"
        BY DEF BrokerInv, CapabilityHasItsCall
      <3>3. x.key \in Key /\ requests[x.key] # None
        BY <3>2, RowOfCapability
      <3>4. pc'[d] = "done" /\ local'[d].cap = x
        BY <3>2 DEF InFlight, TypeOK
      <3> QED BY <1>1, <3>2, <3>3, <3>4
    <2> QED BY <2>1 DEF BrokerInv, CapabilityHasItsCall, InFlight, TypeOK
  <1>4. NoncesRise'
    BY DEF BrokerInv, NoncesRise
  <1> QED BY <1>2, <1>3, <1>4

\* A step that touches one row, and that one only while its call owns it, leaves
\* the rows of the stored capabilities as they were.
LEMMA StoredStaysStored ==
  ASSUME TypeOK, BrokerInv, NEW c \in Call, pc[c] # "done",
         \A d \in Call \ {c} : pc'[d] = pc[d] /\ local'[d].cap = local[d].cap,
         \A k \in Key : requests[k] # None /\ k # local[c].key => requests'[k] = requests[k]
  PROVE  \A x \in capabilities : \E d \in Call :
           pc'[d] = "done" /\ local'[d].cap = x /\ requests'[x.key].status = "ALLOWED"
  <1>1. SUFFICES ASSUME NEW x \in capabilities
                 PROVE  \E d \in Call : pc'[d] = "done" /\ local'[d].cap = x
                                        /\ requests'[x.key].status = "ALLOWED"
    OBVIOUS
  <1>2. PICK d \in Call : pc[d] = "done" /\ local[d].cap = x /\ requests[x.key].status = "ALLOWED"
    BY DEF BrokerInv, CapabilityHasItsCall
  <1>3. x.key \in Key /\ requests[x.key] # None /\ x.key = local[d].key
    BY <1>2, RowOfCapability
  <1>4. d # c /\ local[d].key # None
    BY <1>2, <1>3, BrokerAssumption
  <1>5. x.key # local[c].key
    BY <1>3, <1>4 DEF BrokerInv, KeyHasOneOwner
  <1> QED BY <1>2, <1>3, <1>4, <1>5

\* createRequest's first stretch keeps the invariant: a new owner needs a new row.
LEMMA CreateKeepsInv ==
  ASSUME TypeOK, BrokerInv, NEW c \in Call, NEW k \in Key, NEW a \in Action,
         createRequest(c, k, a)
  PROVE  BrokerInv'
  <1>0. /\ pc[c] = "idle" /\ local[c].key = None /\ local[c].cap = None /\ c \notin mempool
        /\ UNCHANGED <<now, nonceCounter, creAuthorizations, capabilities, mempool>>
    BY DEF createRequest, chain, BrokerInv, KeyHasOneOwner, CapabilityHasItsCall, LocalsAreSet
  <1>1. ASSUME NEW st, Answer(c, st, None), UNCHANGED <<requests, local>>
        PROVE  BrokerInv'
    <2>1. /\ pc' = [pc EXCEPT ![c] = "done"]
          /\ reply' = [reply EXCEPT ![c] = [status |-> st, cap |-> None]]
      BY <1>1 DEF Answer, Goto
    <2>2. KeyHasOneOwner'
      BY <1>0, <1>1, <2>1 DEF BrokerInv, KeyHasOneOwner, InFlight, TypeOK
    <2>3. LocalsAreSet'
      BY <1>0, <1>1, <2>1 DEF BrokerInv, LocalsAreSet, InFlight, TypeOK
    <2>4. CapabilityHasItsCall'
      BY <1>0, <1>1, <2>1 DEF BrokerInv, CapabilityHasItsCall, InFlight, TypeOK
    <2>5. NoncesRise'
      BY <1>0, <1>1 DEF BrokerInv, NoncesRise
    <2> QED BY <2>2, <2>3, <2>4, <2>5 DEF BrokerInv
  <1>2. ASSUME requests[k] = None,
               requests' = [requests EXCEPT ![k] =
                  [action |-> a, identity |-> None, status |-> "PENDING"]],
               local' = [local EXCEPT ![c].key = k, ![c].action = a],
               Goto(c, "resolve"), UNCHANGED reply
        PROVE  BrokerInv'
    <2>1. /\ pc' = [pc EXCEPT ![c] = "resolve"]
          /\ local'[c].key = k /\ local'[c].action = a
          /\ local'[c].cap = None /\ local'[c].evaluation = local[c].evaluation
          /\ \A d \in Call \ {c} : local'[d] = local[d]
      BY <1>0, <1>2 DEF Goto, TypeOK, Local
    <2>2. \A d \in Call : local[d].key # k
      <3>1. k # None
        BY BrokerAssumption
      <3> QED BY <1>2, <3>1 DEF BrokerInv, KeyHasOneOwner
    <2>3. requests'[k] \in Row /\ requests'[k].status = "PENDING"
      BY <1>2 DEF TypeOK, Row, Status
    <2>4. \A j \in Key \ {k} : requests'[j] = requests[j]
      BY <1>2 DEF TypeOK
    <2>5. KeyHasOneOwner'
      <3>0. /\ pc'[c] = "resolve" /\ requests'[k] # None
            /\ \A d \in Call \ {c} : pc'[d] = pc[d] /\ local'[d].key = local[d].key
        BY <2>1, <2>3, NoneAssumption DEF TypeOK
      <3>1. \A d \in Call : local[d].key # None => local[d].key \in Key
        BY DEF TypeOK, Local
      <3>2. \A d \in Call : pc'[d] = "idle" => local'[d].key = None
        BY <3>0 DEF BrokerInv, KeyHasOneOwner
      <3>3. \A d \in Call : local'[d].key # None => requests'[local'[d].key] # None
        BY <2>1, <2>4, <3>0, <3>1 DEF BrokerInv, KeyHasOneOwner
      <3>4. \A d, e \in Call : local'[d].key # None /\ local'[d].key = local'[e].key => d = e
        BY <2>1, <2>2, <3>0 DEF BrokerInv, KeyHasOneOwner
      <3>5. \A d \in Call : pc'[d] \in InFlight =>
              local'[d].key \in Key /\ requests'[local'[d].key].status = "PENDING"
        BY <2>1, <2>2, <2>3, <2>4, <3>0 DEF BrokerInv, KeyHasOneOwner
      <3> QED BY <3>2, <3>3, <3>4, <3>5 DEF KeyHasOneOwner
    <2>6. LocalsAreSet'
      BY <1>0, <2>1 DEF BrokerInv, LocalsAreSet, InFlight, TypeOK
    <2>7. \A x \in capabilities : \E d \in Call :
           pc'[d] = "done" /\ local'[d].cap = x /\ requests'[x.key].status = "ALLOWED"
      BY <1>0, <1>2, <2>1, <2>4, StoredStaysStored DEF TypeOK
    <2>8. CapabilityHasItsCall'
      BY <1>0, <1>2, <2>1, <2>7 DEF BrokerInv, CapabilityHasItsCall, InFlight, TypeOK
    <2>9. NoncesRise'
      BY <1>0, <2>1 DEF BrokerInv, NoncesRise
    <2> QED BY <2>5, <2>6, <2>8, <2>9 DEF BrokerInv
  <1> QED BY <1>1, <1>2 DEF createRequest, getRequest

\* A call that ends sets its own row only, and gives its key up to nobody.
LEMMA OutcomeKeepsOwners ==
  ASSUME TypeOK, BrokerInv, NEW c \in Call, NEW st \in Status, pc[c] \in InFlight,
         pc' = [pc EXCEPT ![c] = "done"], local' = local,
         requests' = [requests EXCEPT ![local[c].key].status = st]
  PROVE  /\ KeyHasOneOwner'
         /\ local[c].key \in Key /\ requests'[local[c].key].status = st
         /\ \A j \in Key \ {local[c].key} : requests'[j] = requests[j]
  <1> DEFINE k == local[c].key
  <1>1. k \in Key /\ k # None /\ requests[k] # None
    BY BrokerAssumption DEF BrokerInv, KeyHasOneOwner
  <1>2. requests[k] \in Row
    BY <1>1 DEF TypeOK
  <1>3. [requests[k] EXCEPT !.status = st] \in Row /\ [requests[k] EXCEPT !.status = st].status = st
    BY <1>2 DEF Row
  <1>4. requests'[k] # None /\ requests'[k].status = st
    BY <1>1, <1>3, NoneAssumption DEF TypeOK
  <1>5. \A j \in Key \ {k} : requests'[j] = requests[j]
    BY <1>1 DEF TypeOK
  <1>6. \A d \in Call \ {c} : pc'[d] = pc[d] /\ local[d].key # k
    BY <1>1 DEF TypeOK, BrokerInv, KeyHasOneOwner
  <1>7. pc'[c] = "done"
    BY DEF TypeOK
  <1>8. \A d \in Call : pc'[d] = "idle" => local'[d].key = None
    BY <1>6, <1>7 DEF BrokerInv, KeyHasOneOwner
  <1>9. \A d \in Call : local'[d].key # None => requests'[local'[d].key] # None
    BY <1>4, <1>5, LocalTyped DEF BrokerInv, KeyHasOneOwner
  <1>10. \A d \in Call : pc'[d] \in InFlight =>
           local'[d].key \in Key /\ requests'[local'[d].key].status = "PENDING"
    BY <1>5, <1>6, <1>7 DEF BrokerInv, KeyHasOneOwner, InFlight
  <1>11. KeyHasOneOwner'
    BY <1>8, <1>9, <1>10 DEF BrokerInv, KeyHasOneOwner
  <1> QED BY <1>1, <1>4, <1>5, <1>11

\* A new row of cre_authorizations takes a free id, so no capability loses its own.
LEMMA VerdictsStay ==
  ASSUME TypeOK, BrokerInv, NEW a \in AuthId, creAuthorizations[a] = None, NEW row,
         creAuthorizations' = [creAuthorizations EXCEPT ![a] = row],
         NEW d \in Call, local[d].cap # None
  PROVE  creAuthorizations'[local[d].cap.authorizationId]
           = [key |-> local[d].key, verdict |-> "ALLOW"]
  <1>1. /\ local[d].key # None
        /\ creAuthorizations[local[d].cap.authorizationId]
             = [key |-> local[d].key, verdict |-> "ALLOW"]
    BY DEF BrokerInv, CapabilityHasItsCall
  <1>2. [key |-> local[d].key, verdict |-> "ALLOW"] \in AuthRow
    BY <1>1, LocalTyped DEF AuthRow, Verdict
  <1>3. local[d].cap.authorizationId \in AuthId
    BY LocalTyped DEF Capability
  <1>4. local[d].cap.authorizationId # a
    BY <1>1, <1>2, NoneAssumption
  <1> QED BY <1>1, <1>3, <1>4 DEF TypeOK

\* The ENS answer keeps the invariant.
LEMMA ResolveKeepsInv ==
  ASSUME TypeOK, BrokerInv, NEW c \in Call
  PROVE  /\ \A i \in Identity : resolve(c, i) => BrokerInv'
         /\ resolveFails(c) => BrokerInv'
  <1>1. ASSUME NEW i \in Identity, resolve(c, i) PROVE BrokerInv'
    <2>1. /\ pc[c] = "resolve" /\ pc' = [pc EXCEPT ![c] = "announce"]
          /\ UNCHANGED <<now, nonceCounter, creAuthorizations, capabilities, mempool, reply>>
          /\ requests' = [requests EXCEPT ![local[c].key].identity = i]
      BY <1>1 DEF resolve, Goto, chain
    <2>2. /\ \A d \in Call : /\ local'[d].key = local[d].key
                             /\ local'[d].action = local[d].action
                             /\ local'[d].cap = local[d].cap
                             /\ local'[d].evaluation = local[d].evaluation
          /\ local'[c].identity = i
          /\ \A d \in Call \ {c} : local'[d] = local[d]
      BY <1>1 DEF resolve, TypeOK, Local
    <2>3. KeyHasOneOwner' /\ CapabilityHasItsCall' /\ NoncesRise'
      BY <2>1, <2>2, MoveKeepsInv DEF InFlight
    <2>4. LocalsAreSet'
      BY <2>1, <2>2 DEF BrokerInv, LocalsAreSet, InFlight, TypeOK
    <2> QED BY <2>3, <2>4 DEF BrokerInv
  <1>2. ASSUME resolveFails(c) PROVE BrokerInv'
    <2> DEFINE k == local[c].key
    <2>1. /\ pc[c] = "resolve" /\ pc' = [pc EXCEPT ![c] = "done"]
          /\ requests' = [requests EXCEPT ![k].status = "FAILED"]
          /\ reply' = [reply EXCEPT ![c] = [status |-> "FAILED", cap |-> None]]
          /\ UNCHANGED <<now, nonceCounter, creAuthorizations, capabilities, mempool, local>>
      BY <1>2 DEF resolveFails, Answer, Goto, setStatus, chain
    <2>2. local[c].cap = None
      BY <2>1 DEF BrokerInv, CapabilityHasItsCall, InFlight
    <2>3. \A j \in Key \ {k} : requests'[j] = requests[j]
      BY <2>1, OutcomeKeepsOwners DEF InFlight, Status
    <2>4. KeyHasOneOwner'
      BY <2>1, OutcomeKeepsOwners DEF InFlight, Status
    <2>5. LocalsAreSet'
      BY <2>1 DEF BrokerInv, LocalsAreSet, InFlight, TypeOK
    <2>6. \A x \in capabilities : \E d \in Call :
           pc'[d] = "done" /\ local'[d].cap = x /\ requests'[x.key].status = "ALLOWED"
      BY <2>1, <2>3, StoredStaysStored DEF TypeOK
    <2>7. CapabilityHasItsCall'
      BY <2>1, <2>2, <2>6 DEF BrokerInv, CapabilityHasItsCall, InFlight, TypeOK
    <2>8. NoncesRise'
      BY <2>1 DEF BrokerInv, NoncesRise
    <2> QED BY <2>4, <2>5, <2>7, <2>8 DEF BrokerInv
  <1> QED BY <1>1, <1>2

\* The evaluator's calls keep the invariant, whether they answer or throw.
LEMMA EvaluateKeepsInv ==
  ASSUME TypeOK, BrokerInv, NEW c \in Call
  PROVE  /\ announce(c) => BrokerInv'
         /\ \A v \in Verdict : decide(c, v) => BrokerInv'
         /\ estimate(c) => BrokerInv'
         /\ onReport(c) => BrokerInv'
         /\ receipt(c) => BrokerInv'
         /\ observeFails(c) => BrokerInv'
  <1>1. ASSUME announce(c), ~Throws(c) PROVE BrokerInv'
    <2>1. /\ pc[c] = "announce" /\ pc' = [pc EXCEPT ![c] = "context"]
          /\ UNCHANGED <<now, nonceCounter, requests, creAuthorizations, capabilities, mempool, local, reply>>
      BY <1>1 DEF announce, Goto, tables
    <2>2. KeyHasOneOwner' /\ CapabilityHasItsCall' /\ NoncesRise'
      BY <2>1, MoveKeepsInv DEF InFlight
    <2>3. LocalsAreSet'
      BY <2>1 DEF BrokerInv, LocalsAreSet, InFlight, TypeOK
    <2> QED BY <2>2, <2>3 DEF BrokerInv
  <1>2. ASSUME NEW v \in Verdict, decide(c, v) PROVE BrokerInv'
    <2>1. /\ pc[c] = "context" /\ pc' = [pc EXCEPT ![c] = "estimate"]
          /\ UNCHANGED <<now, nonceCounter, requests, creAuthorizations, capabilities, mempool, reply>>
      BY <1>2 DEF decide, Goto, tables, chain
    <2>2. /\ \A d \in Call : /\ local'[d].key = local[d].key
                             /\ local'[d].action = local[d].action
                             /\ local'[d].cap = local[d].cap
          /\ \A d \in Call \ {c} : local'[d] = local[d]
      BY <1>2 DEF decide, TypeOK, Local
    <2>3. local'[c].evaluation # None
      <3>1. requestHash(c) \in RequestHash /\ second(now) \in 0..MaxTime
        BY <2>1, SecondTyped
        DEF BrokerInv, LocalsAreSet, InFlight, requestHash, RequestHash, TypeOK
      <3>2. [id |-> [request |-> requestHash(c), evaluatedAt |-> second(now)], verdict |-> v]
              \in [id : AuthId, verdict : Verdict]
        BY <3>1 DEF AuthId
      <3>3. local'[c].evaluation =
              [id |-> [request |-> requestHash(c), evaluatedAt |-> second(now)], verdict |-> v]
        BY <1>2 DEF decide, TypeOK, Local
      <3> QED BY <3>2, <3>3, NoneAssumption
    <2>4. KeyHasOneOwner' /\ CapabilityHasItsCall' /\ NoncesRise'
      BY <2>1, <2>2, MoveKeepsInv DEF InFlight
    <2>5. LocalsAreSet'
      BY <2>1, <2>2, <2>3 DEF BrokerInv, LocalsAreSet, InFlight, TypeOK
    <2> QED BY <2>4, <2>5 DEF BrokerInv
  <1>3. ASSUME estimate(c), ~Throws(c) PROVE BrokerInv'
    <2>1. /\ pc[c] = "estimate" /\ pc' = [pc EXCEPT ![c] = "receipt"]
          /\ mempool' = mempool \cup {c}
          /\ UNCHANGED <<now, nonceCounter, requests, creAuthorizations, capabilities, local, reply>>
      BY <1>3 DEF estimate, Goto, tables
    <2>2. KeyHasOneOwner' /\ CapabilityHasItsCall' /\ NoncesRise'
      BY <2>1, MoveKeepsInv DEF InFlight
    <2>3. LocalsAreSet'
      BY <2>1 DEF BrokerInv, LocalsAreSet, InFlight, TypeOK
    <2> QED BY <2>2, <2>3 DEF BrokerInv
  <1>4. ASSUME onReport(c) PROVE BrokerInv'
    <2>1. /\ mempool' = mempool \ {c}
          /\ UNCHANGED <<now, nonceCounter, requests, creAuthorizations, capabilities, pc, local, reply>>
      BY <1>4 DEF onReport, tables
    <2>2. KeyHasOneOwner' /\ LocalsAreSet' /\ NoncesRise'
      BY <2>1 DEF BrokerInv, KeyHasOneOwner, LocalsAreSet, NoncesRise
    <2>3. CapabilityHasItsCall'
      BY <2>1 DEF BrokerInv, CapabilityHasItsCall
    <2> QED BY <2>2, <2>3 DEF BrokerInv
  <1>5. ASSUME receipt(c), ~Throws(c) PROVE BrokerInv'
    <2>1. /\ pc[c] = "receipt" /\ pc' = [pc EXCEPT ![c] = "readId"] /\ c \notin mempool
          /\ UNCHANGED <<now, nonceCounter, requests, creAuthorizations, capabilities, mempool, local, reply>>
      BY <1>5 DEF receipt, Goto, tables, chain
    <2>2. KeyHasOneOwner' /\ CapabilityHasItsCall' /\ NoncesRise'
      BY <2>1, MoveKeepsInv DEF InFlight
    <2>3. LocalsAreSet'
      BY <2>1 DEF BrokerInv, LocalsAreSet, InFlight, TypeOK
    <2> QED BY <2>2, <2>3 DEF BrokerInv
  <1> QED BY <1>1, <1>2, <1>3, <1>4, <1>5, ThrowsKeepsInv DEF observeFails

\* Storing the verdict keeps the invariant: a refusal ends the call, and an ALLOW
\* makes its one capability, under a nonce above every earlier one.
LEMMA ObserveKeepsInv ==
  ASSUME TypeOK, BrokerInv, NEW c \in Call, observe(c)
  PROVE  BrokerInv'
  <1> DEFINE e == local[c].evaluation
             k == local[c].key
             row == [key |-> k, verdict |-> e.verdict]
             cap == [key |-> k, authorizationId |-> e.id, issuedAt |-> second(now),
                     nonce |-> nextNonce]
  <1>1. /\ pc[c] = "readId" /\ creAuthorizations[e.id] = None
        /\ creAuthorizations' = [creAuthorizations EXCEPT ![e.id] = row]
        /\ UNCHANGED <<now, capabilities, mempool>>
    BY DEF observe, chain
  <1>2. k \in Key /\ k # None /\ local[c].cap = None
    BY <1>1, BrokerAssumption DEF BrokerInv, KeyHasOneOwner, CapabilityHasItsCall, InFlight
  <1>3. e \in [id : AuthId, verdict : Verdict] /\ e.id \in AuthId
    BY <1>1, LocalTyped DEF BrokerInv, LocalsAreSet
  <1>4. \A d \in Call : local[d].cap # None =>
          creAuthorizations'[local[d].cap.authorizationId]
            = [key |-> local[d].key, verdict |-> "ALLOW"]
    BY <1>1, <1>3, VerdictsStay
  <1>5. ASSUME NEW st \in {"DENIED", "ESCALATED"},
               setStatus(k, st), Answer(c, st, None), UNCHANGED <<nonceCounter, local>>
        PROVE  BrokerInv'
    <2>1. /\ pc' = [pc EXCEPT ![c] = "done"] /\ local' = local
          /\ requests' = [requests EXCEPT ![k].status = st]
          /\ reply' = [reply EXCEPT ![c] = [status |-> st, cap |-> None]]
      BY <1>5 DEF setStatus, Answer, Goto
    <2>2. KeyHasOneOwner' /\ \A j \in Key \ {k} : requests'[j] = requests[j]
      BY <1>1, <2>1, OutcomeKeepsOwners DEF InFlight, Status
    <2>3. LocalsAreSet'
      BY <1>1, <2>1 DEF BrokerInv, LocalsAreSet, InFlight, TypeOK
    <2>4. \A x \in capabilities : \E d \in Call :
           pc'[d] = "done" /\ local'[d].cap = x /\ requests'[x.key].status = "ALLOWED"
      BY <1>1, <2>1, <2>2, StoredStaysStored DEF TypeOK
    <2>5. CapabilityHasItsCall'
      BY <1>1, <1>2, <1>4, <2>1, <2>4 DEF BrokerInv, CapabilityHasItsCall, InFlight, TypeOK
    <2>6. NoncesRise'
      BY <1>1, <1>5, <2>1 DEF BrokerInv, NoncesRise
    <2> QED BY <2>2, <2>3, <2>5, <2>6 DEF BrokerInv
  <1>6. ASSUME e.verdict = "ALLOW", nonceCounter' = nonceCounter + 1,
               local' = [local EXCEPT ![c].cap = cap],
               Goto(c, "sign"), UNCHANGED <<requests, reply>>
        PROVE  BrokerInv'
    <2>1. /\ pc' = [pc EXCEPT ![c] = "sign"]
          /\ local'[c].cap = cap /\ local'[c].key = k
          /\ local'[c].action = local[c].action
          /\ local'[c].evaluation = local[c].evaluation
          /\ \A d \in Call \ {c} : local'[d] = local[d]
      BY <1>6 DEF Goto, TypeOK, Local
    <2>2. now \in Nat /\ nonceCounter \in Nat /\ NonceScale \in Nat /\ nextNonce \in Nat
          /\ now * NonceScale \in Nat
      BY BrokerAssumption DEF TypeOK, nextNonce
    <2>3. second(now) \in 0..MaxTime
      BY SecondTyped DEF TypeOK
    <2>4. cap \in Capability /\ cap # None
      BY <1>2, <1>3, <2>2, <2>3, NoneAssumption DEF Capability
    <2>5. KeyHasOneOwner'
      BY <1>1, <1>2, <1>6, <2>1 DEF BrokerInv, KeyHasOneOwner, InFlight, TypeOK
    <2>6. LocalsAreSet'
      BY <1>1, <2>1 DEF BrokerInv, LocalsAreSet, InFlight, TypeOK
    <2>7. \A x \in capabilities : \E d \in Call :
           pc'[d] = "done" /\ local'[d].cap = x /\ requests'[x.key].status = "ALLOWED"
      BY <1>1, <1>6, <2>1, StoredStaysStored DEF TypeOK
    <2>8. creAuthorizations'[cap.authorizationId] = [key |-> k, verdict |-> "ALLOW"]
      BY <1>1, <1>3, <1>6 DEF TypeOK
    <2>9. \A d \in Call : local'[d].cap # None =>
            /\ local'[d].key # None /\ local'[d].cap.key = local'[d].key
            /\ creAuthorizations'[local'[d].cap.authorizationId]
                 = [key |-> local'[d].key, verdict |-> "ALLOW"]
      <3>1. \A d \in Call \ {c} : local[d].cap # None =>
              local[d].key # None /\ local[d].cap.key = local[d].key
        BY DEF BrokerInv, CapabilityHasItsCall
      <3>2. cap.key = k
        OBVIOUS
      <3> HIDE DEF cap, k
      <3> QED BY <1>2, <1>4, <2>1, <2>8, <3>1, <3>2
    <2>10. CapabilityHasItsCall'
      BY <1>1, <1>6, <2>1, <2>4, <2>7, <2>9 DEF BrokerInv, CapabilityHasItsCall, InFlight, TypeOK
    <2>11. cap.nonce = now * NonceScale + nonceCounter + 1
      BY DEF nextNonce
    <2>12. \A d \in Call : local[d].cap # None =>
             local[d].cap.nonce \in Nat /\ local[d].cap.nonce <= now * NonceScale + nonceCounter
      BY LocalTyped DEF BrokerInv, NoncesRise, Capability
    <2>13. NoncesRise'
      <3> DEFINE base == now * NonceScale
      <3>1. base \in Nat /\ nonceCounter \in Nat
        BY <2>2
      <3>2. \A d \in Call : local'[d].cap # None => local'[d].cap.nonce <= base + nonceCounter + 1
        BY <2>1, <2>11, <2>12, <3>1
      <3>3. \A d \in Call \ {c} : local'[d].cap # None => local'[d].cap.nonce # cap.nonce
        BY <2>1, <2>11, <2>12, <3>1
      <3>4. \A d, f \in Call : local'[d].cap # None /\ local'[f].cap # None
              /\ local'[d].cap.nonce = local'[f].cap.nonce => d = f
        BY <2>1, <3>3 DEF BrokerInv, NoncesRise
      <3>5. now' * NonceScale + nonceCounter' = base + nonceCounter + 1
        BY <1>1, <1>6, <3>1
      <3> QED BY <3>2, <3>4, <3>5 DEF NoncesRise
    <2> QED BY <2>5, <2>6, <2>10, <2>13 DEF BrokerInv
  <1> QED BY <1>5, <1>6 DEF observe

\* Signing stores the capability before its row and its answer say ALLOWED.
LEMMA SignKeepsInv ==
  ASSUME TypeOK, BrokerInv, NEW c \in Call, sign(c)
  PROVE  BrokerInv'
  <1> DEFINE k == local[c].key
             cap == local[c].cap
  <1>1. /\ pc[c] = "sign" /\ pc' = [pc EXCEPT ![c] = "done"] /\ local' = local
        /\ capabilities' = capabilities \cup {cap}
        /\ requests' = [requests EXCEPT ![k].status = "ALLOWED"]
        /\ reply' = [reply EXCEPT ![c] = [status |-> "ALLOWED", cap |-> cap]]
        /\ UNCHANGED <<now, nonceCounter, creAuthorizations, mempool>>
    BY DEF sign, setStatus, Answer, Goto, chain
  <1>2. cap # None /\ cap.key = k
    BY <1>1 DEF BrokerInv, CapabilityHasItsCall
  <1>3. /\ KeyHasOneOwner' /\ requests'[k].status = "ALLOWED"
        /\ \A j \in Key \ {k} : requests'[j] = requests[j]
    BY <1>1, OutcomeKeepsOwners DEF InFlight, Status
  <1>4. LocalsAreSet'
    BY <1>1 DEF BrokerInv, LocalsAreSet, InFlight, TypeOK
  <1>5. \A x \in capabilities : \E d \in Call :
         pc'[d] = "done" /\ local'[d].cap = x /\ requests'[x.key].status = "ALLOWED"
    BY <1>1, <1>3, StoredStaysStored DEF TypeOK
  <1>6. pc'[c] = "done" /\ local'[c].cap = cap /\ requests'[cap.key].status = "ALLOWED"
    BY <1>1, <1>2, <1>3 DEF TypeOK
  <1>7. \A d \in Call : reply'[d] # None /\ reply'[d].cap # None => reply'[d].cap \in capabilities'
    BY <1>1 DEF BrokerInv, CapabilityHasItsCall, TypeOK
  <1>8. CapabilityHasItsCall'
    BY <1>1, <1>5, <1>6, <1>7 DEF BrokerInv, CapabilityHasItsCall, InFlight, TypeOK
  <1>9. NoncesRise'
    BY <1>1 DEF BrokerInv, NoncesRise
  <1> QED BY <1>3, <1>4, <1>8, <1>9 DEF BrokerInv

\* One millisecond is worth more nonces than one run of the process mints.
LEMMA ClockOutrunsCounter ==
  ASSUME TypeOK
  PROVE  /\ now * NonceScale \in Nat
         /\ (now + 1) * NonceScale = now * NonceScale + NonceScale
         /\ now * NonceScale + nonceCounter <= now * NonceScale + NonceScale
  <1>1. now \in Nat /\ NonceScale \in Nat /\ nonceCounter \in Nat /\ nonceCounter <= NonceScale
    BY BrokerAssumption DEF TypeOK
  <1>2. now * NonceScale \in Nat
    BY <1>1
  <1>3. (now + 1) * NonceScale = now * NonceScale + NonceScale
    BY <1>1
  <1> QED BY <1>1, <1>2, <1>3

\* Time passing, and a restart that forgets the counter, keep the invariant.
LEMMA ClockKeepsInv ==
  ASSUME TypeOK, BrokerInv, restart \/ Tick
  PROVE  BrokerInv'
  <1>1. /\ now' = now + 1 /\ nonceCounter' \in {0, nonceCounter}
        /\ UNCHANGED <<requests, creAuthorizations, capabilities, mempool, local, reply>>
    BY DEF restart, Tick, tables, chain
  <1>2. \A c \in Call : pc'[c] = pc[c] \/ (pc[c] \in InFlight /\ pc'[c] = "lost")
    BY DEF restart, Tick
  <1>3. KeyHasOneOwner'
    BY <1>1, <1>2 DEF BrokerInv, KeyHasOneOwner, InFlight
  <1>4. LocalsAreSet'
    BY <1>1, <1>2 DEF BrokerInv, LocalsAreSet, InFlight, TypeOK
  <1>5. CapabilityHasItsCall'
    BY <1>1, <1>2 DEF BrokerInv, CapabilityHasItsCall, InFlight
  <1>6. ASSUME NEW c \in Call, local[c].cap # None
        PROVE  local[c].cap.nonce <= now' * NonceScale + nonceCounter'
    <2> DEFINE base == now * NonceScale
               next == now' * NonceScale
               n == local[c].cap.nonce
    <2>1. n \in Nat /\ n <= base + nonceCounter
      BY <1>6, LocalTyped DEF BrokerInv, NoncesRise, Capability
    <2>2. base \in Nat /\ next = base + NonceScale /\ base + nonceCounter <= base + NonceScale
      BY <1>1, ClockOutrunsCounter
    <2>3. nonceCounter' \in Nat /\ nonceCounter \in Nat /\ NonceScale \in Nat
      BY <1>1, BrokerAssumption DEF TypeOK
    <2>4. \A b, i, j, m, t \in Nat : m <= b + i /\ b + i <= b + t => m <= b + t + j
      OBVIOUS
    <2>5. n <= base + NonceScale + nonceCounter'
      <3> HIDE DEF base, n
      <3> QED BY <2>1, <2>2, <2>3, <2>4
    <2> QED BY <2>2, <2>5
  <1>7. NoncesRise'
    BY <1>1, <1>6 DEF BrokerInv, NoncesRise
  <1> QED BY <1>3, <1>4, <1>5, <1>7 DEF BrokerInv

\* Every step of the broker keeps the invariant.
LEMMA InvStep ==
  ASSUME TypeOK, BrokerInv, [Next]_vars
  PROVE  BrokerInv'
  <1>1. CASE UNCHANGED vars
    <2>1. UNCHANGED <<now, nonceCounter, requests, creAuthorizations, capabilities, mempool, pc, local, reply>>
      BY <1>1 DEF vars, tables, chain
    <2>2. KeyHasOneOwner' /\ LocalsAreSet' /\ NoncesRise'
      BY <2>1 DEF BrokerInv, KeyHasOneOwner, LocalsAreSet, NoncesRise
    <2>3. CapabilityHasItsCall'
      BY <2>1 DEF BrokerInv, CapabilityHasItsCall
    <2> QED BY <2>2, <2>3 DEF BrokerInv
  <1>2. ASSUME NEW c \in Call, Step(c) PROVE BrokerInv'
    BY <1>2, CreateKeepsInv, ResolveKeepsInv, EvaluateKeepsInv, ObserveKeepsInv, SignKeepsInv
    DEF Step
  <1>3. CASE restart \/ Tick
    BY <1>3, ClockKeepsInv
  <1> QED BY <1>1, <1>2, <1>3 DEF Next
-----------------------------------------------------------------------------
\* The type invariant and the inductive invariant hold in every reachable state:
\* a key has one owner, a capability one call, and nonces only rise.
THEOREM Invariant == Spec => [](TypeOK /\ BrokerInv)
  <1>1. Init => TypeOK /\ BrokerInv
    BY TypeInit, InvInit
  <1>2. TypeOK /\ BrokerInv /\ [Next]_vars => (TypeOK /\ BrokerInv)'
    BY TypeStep, InvStep
  <1> QED BY <1>1, <1>2, PTL DEF Spec

\* The tables, the calls in flight and the chain as the broker sees it keep their
\* types, through failures and restarts.
THEOREM TypeCorrect == Spec => []TypeOK
  <1> QED BY Invariant, PTL

\* Every capability the issuer was asked to sign is some call's own.
LEMMA MintedHasItsCall ==
  ASSUME TypeOK, BrokerInv, NEW x \in Minted
  PROVE  \E c \in Call : local[c].cap = x /\ x # None /\ local[c].key = x.key /\ x.key # None
  <1>1. \E c \in Call : local[c].cap = x /\ x # None
    BY NoneAssumption DEF Minted, BrokerInv, CapabilityHasItsCall, TypeOK
  <1>2. PICK c \in Call : local[c].cap = x /\ x # None
    BY <1>1
  <1>3. local[c].key = x.key /\ local[c].key # None
    BY <1>2 DEF BrokerInv, CapabilityHasItsCall
  <1> QED BY <1>2, <1>3

\* createRequest is idempotent in its key: whatever interleaves, fails, is lost
\* or is retried, a key never yields a second capability.
THEOREM OnePerKey == Spec => []OneCapabilityPerKey
  <1>1. TypeOK /\ BrokerInv => OneCapabilityPerKey
    <2>1. SUFFICES ASSUME TypeOK, BrokerInv, NEW x \in Minted, NEW y \in Minted, x.key = y.key
                   PROVE  x = y
      BY DEF OneCapabilityPerKey
    <2>2. PICK c \in Call : local[c].cap = x /\ local[c].key = x.key /\ x.key # None
      BY <2>1, MintedHasItsCall
    <2>3. PICK d \in Call : local[d].cap = y /\ local[d].key = y.key
      BY <2>1, MintedHasItsCall
    <2>4. c = d
      BY <2>1, <2>2, <2>3 DEF BrokerInv, KeyHasOneOwner
    <2> QED BY <2>2, <2>3, <2>4
  <1> QED BY <1>1, Invariant, PTL

\* nextNonce never gives a nonce twice, across restarts that reset its counter,
\* as long as one run mints at most NonceScale capabilities.
THEOREM FreshNonces == Spec => []NoncesAreUnique
  <1>1. TypeOK /\ BrokerInv => NoncesAreUnique
    <2>1. SUFFICES ASSUME TypeOK, BrokerInv, NEW x \in Minted, NEW y \in Minted, x.nonce = y.nonce
                   PROVE  x = y
      BY DEF NoncesAreUnique
    <2>2. PICK c \in Call : local[c].cap = x /\ x # None
      BY <2>1, MintedHasItsCall
    <2>3. PICK d \in Call : local[d].cap = y /\ y # None
      BY <2>1, MintedHasItsCall
    <2>4. c = d
      BY <2>1, <2>2, <2>3 DEF BrokerInv, NoncesRise
    <2> QED BY <2>2, <2>3, <2>4
  <1> QED BY <1>1, Invariant, PTL

\* A capability a client holds is stored, its request is ALLOWED, and it names
\* its own request's ALLOW.
THEOREM NoUntrackedAuthority == Spec => []ReturnedIsTracked
  <1>1. TypeOK /\ BrokerInv => ReturnedIsTracked
    <2>1. SUFFICES ASSUME TypeOK, BrokerInv, NEW c \in Call, reply[c] # None, reply[c].cap # None,
                          NEW x, x = reply[c].cap
                   PROVE  /\ x \in capabilities
                          /\ requests[x.key].status = "ALLOWED"
                          /\ creAuthorizations[x.authorizationId]
                               = [key |-> x.key, verdict |-> "ALLOW"]
      BY DEF ReturnedIsTracked
    <2>2. x \in capabilities
      BY <2>1 DEF BrokerInv, CapabilityHasItsCall
    <2>3. PICK d \in Call : local[d].cap = x /\ requests[x.key].status = "ALLOWED"
      BY <2>1, <2>2 DEF BrokerInv, CapabilityHasItsCall
    <2>4. x # None
      BY <2>1
    <2>5. x.key = local[d].key /\ creAuthorizations[x.authorizationId]
                                    = [key |-> local[d].key, verdict |-> "ALLOW"]
      BY <2>1, <2>3, <2>4 DEF BrokerInv, CapabilityHasItsCall
    <2> QED BY <2>2, <2>3, <2>5
  <1> QED BY <1>1, Invariant, PTL

\* Only a call in flight writes to a row that exists, and its row is PENDING.
LEMMA OnlyPendingMoves ==
  ASSUME TypeOK, BrokerInv, [Next]_vars, NEW k \in Key,
         requests[k] # None, requests[k].status # "PENDING"
  PROVE  requests'[k] = requests[k]
  <1>1. CASE UNCHANGED vars
    BY <1>1 DEF vars, tables
  <1>2. CASE restart \/ Tick
    BY <1>2 DEF restart, Tick, tables
  <1>3. ASSUME NEW c \in Call, Step(c) PROVE requests'[k] = requests[k]
    <2>1. pc[c] \in InFlight => local[c].key # k
      BY DEF BrokerInv, KeyHasOneOwner
    <2>2. ASSUME NEW j \in Key, NEW a \in Action, createRequest(c, j, a)
          PROVE  requests'[k] = requests[k]
      BY <2>2 DEF createRequest, TypeOK
    <2>3. ASSUME NEW i \in Identity, resolve(c, i) PROVE requests'[k] = requests[k]
      BY <2>1, <2>3 DEF resolve, InFlight, TypeOK
    <2>4. CASE resolveFails(c)
      BY <2>1, <2>4 DEF resolveFails, setStatus, InFlight, TypeOK
    <2>5. CASE observe(c)
      <3>1. pc[c] = "readId"
        BY <2>5 DEF observe
      <3>2. requests' = requests \/ \E st \in Status :
              requests' = [requests EXCEPT ![local[c].key].status = st]
        BY <2>5 DEF observe, setStatus, Status
      <3> QED BY <2>1, <3>1, <3>2 DEF InFlight, TypeOK
    <2>6. CASE sign(c)
      BY <2>1, <2>6 DEF sign, setStatus, InFlight, TypeOK
    <2>7. CASE announce(c)
      BY <2>7 DEF announce, Throws, tables
    <2>8. ASSUME NEW v \in Verdict, decide(c, v) PROVE requests'[k] = requests[k]
      BY <2>8 DEF decide, tables
    <2>9. CASE estimate(c) \/ receipt(c)
      BY <2>9 DEF estimate, receipt, Throws, tables
    <2>10. CASE onReport(c) \/ observeFails(c)
      BY <2>10 DEF onReport, observeFails, Throws, tables
    <2> QED BY <1>3, <2>2, <2>3, <2>4, <2>5, <2>6, <2>7, <2>8, <2>9, <2>10 DEF Step
  <1> QED BY <1>1, <1>2, <1>3 DEF Next

\* A DENIED, ESCALATED, ALLOWED or FAILED request stays what it is, whoever
\* retries it and whatever answers late.
THEOREM NoOutcomeIsReopened == Spec => OutcomesAreFinal
  <1>1. TypeOK /\ BrokerInv /\ [Next]_vars =>
          [\A k \in Key : requests[k] # None /\ requests[k].status # "PENDING"
             => requests'[k] = requests[k]]_vars
    BY OnlyPendingMoves
  <1> QED BY <1>1, Invariant, PTL DEF Spec, OutcomesAreFinal
-----------------------------------------------------------------------------
(* When the chain and the broker disagree.                                 *)

\* The chain has a verdict under the id of every call whose report was mined,
\* reverted or not; a call holds the evaluation a recorded verdict came from.
Landed(c) == pc[c] = "readId" \/ (pc[c] = "receipt" /\ c \notin mempool)
Undecided == {"idle", "resolve", "announce", "context"}
Witness(c, a) ==
  /\ local[c].evaluation # None
  /\ local[c].evaluation.id = a /\ local[c].evaluation.verdict = verdicts[a]

RaceInv ==
  /\ \A a \in AuthId : verdicts[a] # None => \E c \in Call : Witness(c, a)
  /\ \A c \in Call : Landed(c) => verdicts[local[c].evaluation.id] # None
  /\ \A c \in Call : local[c].cap # None =>
       /\ local[c].evaluation # None
       /\ local[c].cap.authorizationId = local[c].evaluation.id
       /\ local[c].evaluation.verdict = "ALLOW"
       /\ verdicts[local[c].evaluation.id] # None
  /\ \A c \in Call : pc[c] \in Undecided => local[c].evaluation = None
  /\ \A c \in Call : local[c].evaluation # None => local[c].key # None

\* A step that neither evaluates, mints nor mines keeps the invariant.
LEMMA QuietRace ==
  ASSUME TypeOK, RaceInv, UNCHANGED verdicts,
         \A d \in Call : /\ local'[d].evaluation = local[d].evaluation
                         /\ local'[d].cap = local[d].cap
                         /\ local[d].key # None => local'[d].key # None
                         /\ pc'[d] \in Undecided => pc[d] \in Undecided
                         /\ Landed(d)' => Landed(d)
  PROVE  RaceInv'
  <1>1. \A a \in AuthId : verdicts'[a] # None => \E c \in Call : Witness(c, a)'
    BY DEF RaceInv, Witness
  <1>2. \A c \in Call : Landed(c)' => verdicts'[local'[c].evaluation.id] # None
    BY DEF RaceInv
  <1>3. \A c \in Call : local'[c].cap # None =>
          /\ local'[c].evaluation # None
          /\ local'[c].cap.authorizationId = local'[c].evaluation.id
          /\ local'[c].evaluation.verdict = "ALLOW"
          /\ verdicts'[local'[c].evaluation.id] # None
    BY DEF RaceInv
  <1>4. \A c \in Call : /\ pc'[c] \in Undecided => local'[c].evaluation = None
                        /\ local'[c].evaluation # None => local'[c].key # None
    BY DEF RaceInv
  <1> QED BY <1>1, <1>2, <1>3, <1>4 DEF RaceInv

\* A call that only moves on, or ends.
LEMMA MoveRace ==
  ASSUME TypeOK, RaceInv, NEW c \in Call, NEW to, pc' = [pc EXCEPT ![c] = to],
         UNCHANGED <<verdicts, local>>,
         \/ mempool' = mempool
         \/ mempool' = mempool \cup {c},
         to \in Undecided => pc[c] \in Undecided,
         to = "readId" => Landed(c),
         to = "receipt" => c \in mempool'
  PROVE  RaceInv'
  <1>1. pc'[c] = to /\ \A d \in Call \ {c} : pc'[d] = pc[d]
    BY DEF TypeOK
  <1>2. \A d \in Call : Landed(d)' => Landed(d)
    BY <1>1 DEF Landed
  <1> QED BY <1>1, <1>2, QuietRace

\* decide keeps the invariant: the call had no evaluation before.
LEMMA DecideRace ==
  ASSUME TypeOK, BrokerInv, RaceInv, NEW c \in Call, NEW v \in Verdict, decide(c, v)
  PROVE  RaceInv'
  <1>1. /\ pc[c] = "context" /\ pc' = [pc EXCEPT ![c] = "estimate"]
        /\ UNCHANGED <<verdicts, mempool>>
    BY DEF decide, Goto, chain
  <1>2. local[c].evaluation = None /\ local[c].cap = None /\ local[c].key # None
    BY <1>1, BrokerAssumption DEF RaceInv, Undecided, BrokerInv, CapabilityHasItsCall, KeyHasOneOwner, InFlight
  <1>3. /\ \A d \in Call \ {c} : local'[d] = local[d]
        /\ local'[c].cap = None /\ local'[c].key = local[c].key
    BY <1>2 DEF decide, TypeOK, Local
  <1>4. pc'[c] = "estimate" /\ \A d \in Call \ {c} : pc'[d] = pc[d]
    BY <1>1 DEF TypeOK
  <1>5. \A a \in AuthId : verdicts'[a] # None => \E d \in Call : Witness(d, a)'
    BY <1>1, <1>2, <1>3 DEF RaceInv, Witness
  <1>6. \A d \in Call : Landed(d)' => d # c /\ Landed(d)
    BY <1>1, <1>4 DEF Landed
  <1>7. \A d \in Call : Landed(d)' => verdicts'[local'[d].evaluation.id] # None
    BY <1>1, <1>3, <1>6 DEF RaceInv
  <1>8. \A d \in Call : local'[d].cap # None =>
          /\ local'[d].evaluation # None
          /\ local'[d].cap.authorizationId = local'[d].evaluation.id
          /\ local'[d].evaluation.verdict = "ALLOW"
          /\ verdicts'[local'[d].evaluation.id] # None
    BY <1>1, <1>3 DEF RaceInv
  <1>9. \A d \in Call : /\ pc'[d] \in Undecided => local'[d].evaluation = None
                        /\ local'[d].evaluation # None => local'[d].key # None
    BY <1>2, <1>3, <1>4 DEF RaceInv, Undecided
  <1> QED BY <1>5, <1>7, <1>8, <1>9 DEF RaceInv

\* onReport keeps the invariant: the record is written once, by a call whose
\* evaluation it is.
LEMMA ReportRace ==
  ASSUME TypeOK, BrokerInv, RaceInv, NEW c \in Call, onReport(c)
  PROVE  RaceInv'
  <1>1. c \in mempool /\ mempool' = mempool \ {c} /\ UNCHANGED <<pc, local>>
    BY DEF onReport
  <1>2. PICK e \in [id : AuthId, verdict : Verdict] : e = local[c].evaluation
    BY <1>1, LocalTyped DEF BrokerInv, LocalsAreSet
  <1>3. verdicts' = [verdicts EXCEPT ![e.id] = IF @ = None THEN e.verdict ELSE @]
    BY <1>2 DEF onReport
  <1>4. e.id \in AuthId /\ e.verdict \in Verdict /\ e.verdict # None /\ e # None
    BY NoneAssumption
  <1>5. /\ \A a \in AuthId : verdicts[a] # None => verdicts'[a] = verdicts[a]
        /\ \A a \in AuthId \ {e.id} : verdicts'[a] = verdicts[a]
        /\ verdicts[e.id] = None => verdicts'[e.id] = e.verdict
        /\ verdicts'[e.id] # None
    BY <1>3, <1>4 DEF TypeOK
  <1>6. ASSUME NEW a \in AuthId, verdicts'[a] # None PROVE \E d \in Call : Witness(d, a)'
    <2>1. CASE verdicts[a] # None
      BY <1>1, <1>5, <2>1 DEF RaceInv, Witness
    <2>2. CASE verdicts[a] = None
      <3>1. a = e.id /\ verdicts'[a] = e.verdict
        BY <1>5, <1>6, <2>2
      <3>2. Witness(c, a)'
        BY <1>1, <1>2, <1>4, <3>1 DEF Witness
      <3> QED BY <3>2
    <2> QED BY <2>1, <2>2
  <1>7. \A d \in Call : local[d].evaluation # None => local[d].evaluation.id \in AuthId
    BY LocalTyped
  <1>8. ASSUME NEW d \in Call, Landed(d)' PROVE verdicts'[local'[d].evaluation.id] # None
    <2>1. CASE d = c
      BY <1>1, <1>2, <1>5, <2>1
    <2>2. CASE d # c
      <3>1. Landed(d) /\ pc[d] \in {"receipt", "readId"}
        BY <1>1, <1>8, <2>2 DEF Landed
      <3>2. local[d].evaluation.id \in AuthId
        BY <1>7, <3>1 DEF BrokerInv, LocalsAreSet
      <3>3. verdicts[local[d].evaluation.id] # None
        BY <3>1 DEF RaceInv
      <3> QED BY <1>1, <1>5, <3>2, <3>3
    <2> QED BY <2>1, <2>2
  <1>9. \A d \in Call : local'[d].cap # None =>
          /\ local'[d].evaluation # None
          /\ local'[d].cap.authorizationId = local'[d].evaluation.id
          /\ local'[d].evaluation.verdict = "ALLOW"
          /\ verdicts'[local'[d].evaluation.id] # None
    BY <1>1, <1>5, <1>7 DEF RaceInv
  <1>10. \A d \in Call : /\ pc'[d] \in Undecided => local'[d].evaluation = None
                         /\ local'[d].evaluation # None => local'[d].key # None
    BY <1>1 DEF RaceInv
  <1> QED BY <1>6, <1>8, <1>9, <1>10 DEF RaceInv

\* observe keeps the invariant: a capability stands on the call's own ALLOW,
\* whose report was mined.
LEMMA ObserveRace ==
  ASSUME TypeOK, BrokerInv, RaceInv, NEW c \in Call, observe(c)
  PROVE  RaceInv'
  <1>1. pc[c] = "readId" /\ UNCHANGED <<verdicts, mempool>>
    BY DEF observe, chain
  <1>2. CASE Goto(c, "done") /\ UNCHANGED local
    <2>1. pc' = [pc EXCEPT ![c] = "done"]
      BY <1>2 DEF Goto
    <2> QED BY <1>1, <1>2, <2>1, MoveRace DEF Undecided
  <1>3. PICK e : e = local[c].evaluation
    OBVIOUS
  <1>4. e # None /\ verdicts[e.id] # None
    BY <1>1, <1>3 DEF BrokerInv, LocalsAreSet, RaceInv, Landed
  <1>5. ASSUME e.verdict = "ALLOW", Goto(c, "sign"),
               local' = [local EXCEPT ![c].cap =
                 [key |-> local[c].key, authorizationId |-> e.id, issuedAt |-> second(now),
                  nonce |-> nextNonce]]
        PROVE  RaceInv'
    <2>1. /\ pc'[c] = "sign" /\ \A d \in Call \ {c} : pc'[d] = pc[d]
      BY <1>5 DEF Goto, TypeOK
    <2>2. /\ \A d \in Call \ {c} : local'[d] = local[d]
          /\ local'[c].evaluation = e /\ local'[c].key = local[c].key
          /\ local'[c].cap.authorizationId = e.id
      BY <1>3, <1>5 DEF TypeOK, Local
    <2>3. \A a \in AuthId : verdicts'[a] # None => \E d \in Call : Witness(d, a)'
      BY <1>1, <1>3, <2>2 DEF RaceInv, Witness
    <2>4. \A d \in Call : Landed(d)' => d # c /\ Landed(d)
      BY <1>1, <2>1 DEF Landed
    <2>5. \A d \in Call : Landed(d)' => verdicts'[local'[d].evaluation.id] # None
      BY <1>1, <2>2, <2>4 DEF RaceInv
    <2>6. \A d \in Call : local'[d].cap # None =>
            /\ local'[d].evaluation # None
            /\ local'[d].cap.authorizationId = local'[d].evaluation.id
            /\ local'[d].evaluation.verdict = "ALLOW"
            /\ verdicts'[local'[d].evaluation.id] # None
      BY <1>1, <1>4, <1>5, <2>2 DEF RaceInv
    <2>7. \A d \in Call : /\ pc'[d] \in Undecided => local'[d].evaluation = None
                          /\ local'[d].evaluation # None => local'[d].key # None
      BY <1>3, <2>1, <2>2 DEF RaceInv, Undecided
    <2> QED BY <2>3, <2>5, <2>6, <2>7 DEF RaceInv
  <1> QED BY <1>2, <1>3, <1>5 DEF observe, Answer

\* Every step keeps the invariant.
LEMMA RaceStep ==
  ASSUME TypeOK, BrokerInv, RaceInv, [Next]_vars
  PROVE  RaceInv'
  <1>1. CASE UNCHANGED vars
    <2>1. UNCHANGED <<verdicts, mempool, pc, local>>
      BY <1>1 DEF vars, chain
    <2> QED BY <2>1, QuietRace DEF Landed
  <1>2. CASE restart \/ Tick
    <2>1. UNCHANGED <<verdicts, mempool, local>>
      BY <1>2 DEF restart, Tick, chain
    <2>2. \A d \in Call : pc'[d] = pc[d] \/ pc'[d] = "lost"
      BY <1>2 DEF restart, Tick
    <2> QED BY <2>1, <2>2, QuietRace DEF Landed, Undecided
  <1>3. ASSUME NEW c \in Call, Throws(c) PROVE RaceInv'
    <2>1. pc' = [pc EXCEPT ![c] = "done"] /\ UNCHANGED <<verdicts, mempool, local>>
      BY <1>3 DEF Throws, Answer, Goto
    <2> QED BY <2>1, MoveRace DEF Undecided
  <1>4. ASSUME NEW c \in Call, NEW k \in Key, NEW a \in Action, createRequest(c, k, a)
        PROVE  RaceInv'
    <2>0. pc[c] = "idle" /\ UNCHANGED <<verdicts, mempool>>
      BY <1>4 DEF createRequest, chain
    <2>1. CASE Goto(c, "done") /\ UNCHANGED local
      <3>1. pc' = [pc EXCEPT ![c] = "done"]
        BY <2>1 DEF Goto
      <3> QED BY <2>0, <2>1, <3>1, MoveRace DEF Undecided
    <2>2. CASE Goto(c, "resolve") /\ local' = [local EXCEPT ![c].key = k, ![c].action = a]
      <3>1. pc'[c] = "resolve" /\ \A d \in Call \ {c} : pc'[d] = pc[d]
        BY <2>2 DEF Goto, TypeOK
      <3>2. /\ \A d \in Call : local'[d].evaluation = local[d].evaluation /\ local'[d].cap = local[d].cap
            /\ local'[c].key = k /\ \A d \in Call \ {c} : local'[d].key = local[d].key
        BY <2>2 DEF TypeOK, Local
      <3>3. k # None
        BY BrokerAssumption
      <3>4. \A d \in Call : Landed(d)' => Landed(d)
        BY <2>0, <3>1 DEF Landed
      <3> QED BY <2>0, <3>1, <3>2, <3>3, <3>4, QuietRace DEF Undecided
    <2> QED BY <1>4, <2>1, <2>2 DEF createRequest, getRequest, Answer
  <1>5. ASSUME NEW c \in Call, NEW i \in Identity, resolve(c, i)
        PROVE  RaceInv'
    <2>1. pc[c] = "resolve" /\ UNCHANGED <<verdicts, mempool>>
          /\ pc'[c] = "announce" /\ \A d \in Call \ {c} : pc'[d] = pc[d]
      BY <1>5 DEF resolve, Goto, chain, TypeOK
    <2>2. \A d \in Call : /\ local'[d].evaluation = local[d].evaluation
                          /\ local'[d].cap = local[d].cap /\ local'[d].key = local[d].key
      BY <1>5 DEF resolve, TypeOK, Local
    <2>3. \A d \in Call : Landed(d)' => Landed(d)
      BY <2>1 DEF Landed
    <2> QED BY <2>1, <2>2, <2>3, QuietRace DEF Undecided
  <1>6. ASSUME NEW c \in Call, resolveFails(c) \/ sign(c) PROVE RaceInv'
    <2>1. pc' = [pc EXCEPT ![c] = "done"] /\ UNCHANGED <<verdicts, mempool, local>>
      BY <1>6 DEF resolveFails, sign, Answer, Goto, chain
    <2> QED BY <2>1, MoveRace DEF Undecided
  <1>7. ASSUME NEW c \in Call, announce(c), ~Throws(c) PROVE RaceInv'
    <2>1. pc[c] = "announce" /\ pc' = [pc EXCEPT ![c] = "context"]
          /\ UNCHANGED <<verdicts, mempool, local>>
      BY <1>7 DEF announce, Goto
    <2> QED BY <2>1, MoveRace DEF Undecided
  <1>8. ASSUME NEW c \in Call, estimate(c), ~Throws(c) PROVE RaceInv'
    <2>1. pc' = [pc EXCEPT ![c] = "receipt"] /\ mempool' = mempool \cup {c}
          /\ UNCHANGED <<verdicts, local>>
      BY <1>8 DEF estimate, Goto
    <2> QED BY <2>1, MoveRace DEF Undecided
  <1>9. ASSUME NEW c \in Call, receipt(c), ~Throws(c) PROVE RaceInv'
    <2>1. pc[c] = "receipt" /\ c \notin mempool /\ pc' = [pc EXCEPT ![c] = "readId"]
          /\ UNCHANGED <<verdicts, mempool, local>>
      BY <1>9 DEF receipt, Goto, chain
    <2>2. Landed(c)
      BY <2>1 DEF Landed
    <2> QED BY <2>1, <2>2, MoveRace DEF Undecided
  <1>10. ASSUME NEW c \in Call, Step(c) PROVE RaceInv'
    BY <1>3, <1>4, <1>5, <1>6, <1>7, <1>8, <1>9, <1>10, DecideRace, ReportRace, ObserveRace
    DEF Step, observeFails
  <1> QED BY <1>1, <1>2, <1>10 DEF Next

\* The chain's record differs from the ALLOW a capability stands on only when
\* another call, with another key, judged the same request in the same second
\* (providers/cre-evaluator.ts ignores the receipt's status; broker.ts stores its
\* own verdict).
THEOREM OnlyRacesDisagree == Spec => []DisagreementNeedsARace
  <1>1. Init => RaceInv
    BY DEF Init, RaceInv, blank, Landed, Undecided
  <1>2. TypeOK /\ BrokerInv /\ RaceInv /\ [Next]_vars => RaceInv'
    BY RaceStep
  <1>3. TypeOK /\ BrokerInv /\ RaceInv => DisagreementNeedsARace
    <2> SUFFICES ASSUME TypeOK, BrokerInv, RaceInv, NEW cap \in capabilities,
                        verdicts[cap.authorizationId] # "ALLOW"
                 PROVE  \E c \in Call : /\ local[c].evaluation # None /\ local[c].key # cap.key
                                        /\ local[c].evaluation.id = cap.authorizationId
                                        /\ local[c].evaluation.verdict = verdicts[cap.authorizationId]
      BY DEF DisagreementNeedsARace
    <2>1. PICK c \in Call : local[c].cap = cap
      BY DEF BrokerInv, CapabilityHasItsCall
    <2>2. cap # None /\ cap \in Capability
      BY NoneAssumption DEF TypeOK
    <2>3. PICK a \in AuthId : a = cap.authorizationId
      BY <2>2 DEF Capability
    <2>4. local[c].evaluation.verdict = "ALLOW" /\ verdicts[a] # None
      BY <2>1, <2>2, <2>3 DEF RaceInv
    <2>5. PICK d \in Call : Witness(d, a)
      BY <2>4 DEF RaceInv
    <2>6. local[d].evaluation # None /\ local[d].evaluation.id = a
          /\ local[d].evaluation.verdict = verdicts[a]
      BY <2>5 DEF Witness
    <2>7. d # c /\ local[d].key # None
      BY <2>3, <2>4, <2>6 DEF RaceInv
    <2>8. cap.key = local[c].key
      BY <2>1, <2>2 DEF BrokerInv, CapabilityHasItsCall
    <2>9. local[d].key # cap.key
      BY <2>7, <2>8 DEF BrokerInv, KeyHasOneOwner
    <2> QED BY <2>3, <2>6, <2>9
  <1> QED BY <1>1, <1>2, <1>3, Invariant, PTL DEF Spec
=============================================================================
