-------------------------- MODULE MCExecutionGuard --------------------------
(* Instances of ExecutionGuard: who trades which symbols, and which        *)
(* symbols the broker maps passed for a strategy can contain.              *)
EXTENDS ExecutionGuard

CONSTANTS s1, s2, s3, x1, x2, x3

(* Every strategy trades every symbol, and its maps list the positions of *)
(* the whole account, as bot_execution passes them.                        *)
AllSymbols == [s \in Strategies |-> Symbols]

(* x1 is shared, x2 is known to s1 only. *)
OneShared == [s \in Strategies |-> IF s = s1 THEN {x1, x2} ELSE {x1}]
=============================================================================
