---------------------------- MODULE MCAsyncEngine ----------------------------
(* The poll-driven engine with the policies of MCPolicies. *)
EXTENDS AsyncEngine, MCPolicies

MCSomeTime == {0, 1}
MCNoTime == {0}
MCClocks == {"timer", "virtual"}
=============================================================================
