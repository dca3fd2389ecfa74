---------------------------- MODULE AccessControl ----------------------------
(***************************************************************************)
(* Roles, permissions and the two state tables the services consult.       *)
(* Translated from backend/internal/constants.  Pure data: no variables.   *)
(***************************************************************************)

Roles == {"admin", "pki_operator", "service_owner", "security_reviewer",
          "auditor"}

Permissions == {"read", "anchor.write", "chain.write", "dependency.write",
                "scenario.write", "scenario.run", "scenario.verify",
                "audit.read"}

Granted ==
  [admin             |-> Permissions,
   pki_operator      |-> Permissions \ {"scenario.verify", "audit.read"},
   service_owner     |-> {"read", "dependency.write", "scenario.write",
                          "scenario.run"},
   security_reviewer |-> {"read", "scenario.verify", "audit.read"},
   auditor           |-> {"read", "audit.read"}]

HasPermission(role, permission) == permission \in Granted[role]

\* Roles the services let act on records that somebody else owns.
Steward == {"admin", "pki_operator"}

-----------------------------------------------------------------------------
ScenarioStates == {"draft", "simulated", "ready", "executing", "verified",
                   "rollback"}

\* A key missing from the Go map has no successors.
ScenarioSuccessors ==
  [s \in ScenarioStates |->
     CASE s = "draft"     -> {"simulated"}
       [] s = "simulated" -> {"ready", "draft"}
       [] s = "ready"     -> {"executing", "draft"}
       [] s = "executing" -> {"verified", "rollback"}
       [] OTHER           -> {}]

CanTransitionScenario(from, to) == to \in ScenarioSuccessors[from]

\* The states a transition request may name (binding:"oneof=...").
RequestableStates == ScenarioStates \ {"simulated"}

-----------------------------------------------------------------------------
ChainStates == {"imported", "validated", "deprecated", "revoked"}

ChainSuccessors ==
  [s \in ChainStates |->
     CASE s = "imported"   -> {"validated", "revoked"}
       [] s = "validated"  -> {"deprecated", "revoked"}
       [] s = "deprecated" -> {"revoked"}
       [] OTHER            -> {}]

CanTransitionChain(from, to) == to \in ChainSuccessors[from]
=============================================================================
