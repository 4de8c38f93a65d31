---------------------------- MODULE MCSyncEngine ----------------------------
(* The blocking engine with the policies of MCPolicies. *)
EXTENDS SyncEngine, MCPolicies

MCSomeTime == {0, 1}
MCOpTimes == {0, 2}
MCNoTime == {0}
=============================================================================
