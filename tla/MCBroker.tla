------------------------------ MODULE MCBroker ------------------------------
(* Three calls over two idempotency keys and one name, across one restart.   *)
EXTENDS Broker, TLC

CONSTANTS c1, c2, c3, k1, k2

CallSymmetry == Permutations(Call) \cup Permutations(Key)
=============================================================================
