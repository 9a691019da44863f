------------------------------- MODULE Nodes -------------------------------
(***************************************************************************)
(* One run of a node that calls models (agentflow/nodes): an AgentNode or  *)
(* a TeamNode.                                                             *)
(***************************************************************************)
EXTENDS AgentNode

CONSTANTS Members, MaxTurns

ASSUME TeamAssumption == Members \in Seq(STRING) /\ MaxTurns \in Nat

VARIABLES kind,  \* Node::Kind()
          policy, tpc, state, turn, who, branch, outs, tcancelled

T == INSTANCE TeamNode WITH pc <- tpc, cancelled <- tcancelled

teamVars == <<policy, tpc, state, turn, who, branch, outs, tcancelled>>

\* The configuration of the node that was not made is fixed.
NInit ==
  /\ kind \in {"agent", "team"} /\ Init /\ T!Init
  /\ kind = "agent" => policy = "StateRouter"
  /\ kind = "team" => config = [registry |-> FALSE, channel |-> FALSE]

NNext ==
  \/ kind = "agent" /\ Next /\ UNCHANGED <<kind, teamVars>>
  \/ kind = "team" /\ T!Next /\ UNCHANGED <<kind, vars>>

\* Only the node that was made has steps to take.
NSpec ==
  /\ NInit /\ [][NNext]_<<kind, vars, teamVars>>
  /\ kind = "agent" => Fairness
  /\ kind = "team" => T!Fairness

-----------------------------------------------------------------------------
(* Properties, next to those of AgentNode.                                 *)

\* In the loops of a team no member is started once the token is cancelled
\* (TeamNode, RunStateRouter and RunLlmSelect).
NoStartAfterCancel == [][tpc # "member" /\ tpc' = "member" => ~tcancelled]_teamVars

\* RunParallelGather merges what the members returned in their own order and
\* after the last of them ended (TeamNode).
GatherInOrder == T!GatherInOrder

\* Run ends, of an agent and of a team, by returning or by an exception.
NodesEnd == (kind = "agent" => RunEnds) /\ (kind = "team" => T!TeamEnds)
=============================================================================
