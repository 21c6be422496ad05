------------------------------ MODULE MCChain ------------------------------
(* Two breaker configurations a reload switches between, one with a         *)
(* threshold of 0; two tenants with buckets, one of them with path rules.   *)
EXTENDS Chain

TwoConfigs == {[fail |-> 2, succ |-> 2, timeout |-> 1],
               [fail |-> 1, succ |-> 0, timeout |-> 0]}

MCRPS == [t \in Tenants |-> 2]
MCBurst == [t \in Tenants |-> 2]
MCBlocked == [t \in Tenants |-> IF t = "t2" THEN {<<"a", "b">>} ELSE {}]
MCAllowed == [t \in Tenants |-> IF t = "t2" THEN {<<"a">>} ELSE {}]
MCAsks == [id : Ids, path : {<<"a">>}] \cup [id : {"t2"}, path : {<<"a", "b">>, <<"c">>}]
=============================================================================
