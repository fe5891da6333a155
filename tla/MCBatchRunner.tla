--------------------------- MODULE MCBatchRunner ---------------------------
(* BatchRunner with two tickets of one conflict key and a third that         *)
(* conflicts with nobody.                                                    *)
EXTENDS BatchRunner
CONSTANTS t1, t2, t3
Trio == {t1, t2, t3}
TrioOrder == <<t1, t2, t3>>
SharedKey == [t \in Tickets |-> IF t = t3 THEN {"other"} ELSE {"shared"}]
Outcomes == {"review", "infra", "red", "raised"}
=============================================================================
