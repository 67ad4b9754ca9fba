----------------------------- MODULE MCSessions -----------------------------
(* Instances of Sessions for TLC: the token t1 may use one namespace, t2 all. *)
EXTENDS Sessions

CONSTANTS t1, t2, n1, n2
Allow == [t \in {t1, t2} |-> IF t = t1 THEN {n1} ELSE {}]
=============================================================================
