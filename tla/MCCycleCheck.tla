----------------------------- MODULE MCCycleCheck -----------------------------
(* All graphs over three services, known and unknown ones. *)
EXTENDS CycleCheck
=============================================================================
