----------------------------- MODULE MCAgentWorker -----------------------------
(***************************************************************************)
(* Two processes on one queue with two assignments: a memory of one        *)
(* record, so that the second assignment evicts the first; three           *)
(* deliveries, so that a message can be run twice before it is given up;   *)
(* runs that outlast a lease, so that only the heartbeat keeps it.         *)
(***************************************************************************)
EXTENDS AgentWorker

\* A query tool, the introspection the agent is not offered, and a write.
Tool(hint, looksLikeWrite, excluded, required) ==
  [hint |-> hint, looksLikeWrite |-> looksLikeWrite, excluded |-> excluded, required |-> required]
ServerTools == {Tool(TRUE, FALSE, FALSE, 1), Tool(TRUE, FALSE, TRUE, 0), Tool(FALSE, TRUE, FALSE, 2)}

=============================================================================
