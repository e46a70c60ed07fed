---------------------------- MODULE MCRegistries ----------------------------
(* Two accounts, one name, and the identities of two generations of its     *)
(* token.                                                                   *)
EXTENDS Registries

CONSTANTS a1, a2, l1

MCIdentity == [label : {l1}, owner : {a1}, agent : {a2}, tokenId : 1 .. 2, version : {1}]
=============================================================================
