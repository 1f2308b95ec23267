----------------------------- MODULE MCAgentTurn -----------------------------
(* Instances of AgentTurn.                                                *)
EXTENDS AgentTurn

\* An edit of a file, an installation, a command and an external deletion.
AllTools == {"edit", "install", "command", "delete"}

\* An edit alone, and batches in which a call waits behind one that asks.
Batches == {<<"edit">>, <<"install", "edit">>, <<"command", "edit">>, <<"delete", "install">>}

\* A small choice in which an installation comes before a deletion.
FewBatches == {<<"install", "delete">>, <<"command">>}
=============================================================================
