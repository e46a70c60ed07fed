----------------------------- MODULE MCOrgBudget -----------------------------
(* Two agents in two processes under an hourly and a daily aggregate limit;  *)
(* an hour is one tick, a day is two.                                        *)
EXTENDS OrgBudget, TLC

CONSTANTS a1, a2, c1, c2

MCperAction == [a \in Agent |-> 2]
MCagentDaily == [a \in Agent |-> 2]
MCDayLimit == {[maxUsdCents |-> 3, windowMs |-> 2], [maxUsdCents |-> 4, windowMs |-> 1]}
Symmetry == Permutations({a1, a2}) \cup Permutations({c1, c2})
=============================================================================
