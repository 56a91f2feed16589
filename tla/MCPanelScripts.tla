---------------------------- MODULE MCPanelScripts ----------------------------
(* PanelScripts for two agents who take turns at one device *)
EXTENDS PanelScripts, TLC

CONSTANTS a1, a2, a3

Two   == {a1, a2}
Three == {a1, a2, a3}
Interchangeable == Permutations(Agents)
=============================================================================
