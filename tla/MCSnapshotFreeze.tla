--------------------------- MODULE MCSnapshotFreeze ---------------------------
(* The demonstration inventory in small, its page one chain too short once a  *)
(* third chain is imported: that one ends between the other two.              *)
EXTENDS SnapshotFreeze, TLC

CONSTANTS oldRoot, newRoot, oldChain, midChain, newChain, api, worker

Rank3 == oldChain :> 1 @@ midChain :> 2 @@ newChain :> 3

Roots == oldRoot :> "trusted" @@ newRoot :> "trusted"
Chains == oldChain :> [state |-> "validated", under |-> oldRoot]
       @@ newChain :> [state |-> "validated", under |-> newRoot]
       @@ midChain :> NoRow
Services == api :> [state |-> "active", chain |-> oldChain, edges |-> {}]
         @@ worker :> [state |-> "active", chain |-> oldChain, edges |-> {api}]
=============================================================================
