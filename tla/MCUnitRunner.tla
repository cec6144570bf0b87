---------------------------- MODULE MCUnitRunner ----------------------------
(* The instance of UnitRunner that the repository is: six tests, with the  *)
(* priorities of their constructors.                                       *)
EXTENDS UnitRunner

Early == {"aes/e2e", "queue/unit", "aqueue/unit", "stack/unit"}
Late  == {"aes/unit", "padding/unit"}

MCTests    == Early \cup Late
MCPriority == [t \in MCTests |-> IF t \in Early THEN 150 ELSE 200]
=============================================================================
