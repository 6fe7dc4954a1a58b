---------------------------- MODULE MCDashboard ----------------------------
(***************************************************************************)
(* Dashboard with a customer and an account that may sign up.              *)
(***************************************************************************)
EXTENDS Dashboard

CONSTANTS a1, a2

MCAccounts == {a1, a2}
MCMembers == {a1}
MCKeysTyped == {<<a1, 0>>, <<a1, 1>>, <<a2, 0>>}
MCPanels == {"risk", "switch"}
MCContents == {0, 1, 2}
=============================================================================
