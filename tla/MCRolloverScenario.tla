------------------------- MODULE MCRolloverScenario -------------------------
(* Instances of RolloverScenario for TLC. *)
EXTENDS RolloverScenario, TLC

CONSTANTS s1, s2, s3, admin, operator, owner, reviewer

AllRoles == [u \in User |->
  CASE u = admin    -> "admin"
    [] u = operator -> "pki_operator"
    [] u = owner    -> "service_owner"
    [] u = reviewer -> "security_reviewer"]

Evidence == [i \in Input |-> <<"evidence", i>>]

\* Bounds on the audit entries of each scenario.
OnlySecond == [s \in Scenario |-> IF s = s2 THEN 5 ELSE 0]
FirstAndDraft == [s \in Scenario |-> IF s = s1 THEN 3 ELSE 1]
TwoEach    == [s \in Scenario |-> 2]
ThreeEach  == [s \in Scenario |-> 3]

Symmetry == Permutations(Request)
=============================================================================
