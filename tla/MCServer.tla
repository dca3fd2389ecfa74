------------------------------ MODULE MCServer ------------------------------
(* Three processes on one database, two accounts of which the second owns the
   scenario, two requests and two faults. *)
EXTENDS Server
=============================================================================
