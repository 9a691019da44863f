------------------------------ MODULE TeamNode ------------------------------
(***************************************************************************)
(* TeamNode (agentflow/nodes/team_node.cc): one Run over its members by    *)
(* one of three policies, with LlmNode (llm_node.cc) as the moderator of   *)
(* LlmSelect.  A State is abstracted to the members that wrote it, in      *)
(* order, and "note" for a note about an unknown member.                   *)
(***************************************************************************)
EXTENDS Naturals, Sequences, SequencesExt

CONSTANTS Members,   \* the ids of cfg_.members, in order
          MaxTurns   \* cfg_.max_turns

VARIABLES
  policy,    \* cfg_.policy
  pc,        \* where Run is
  state,     \* the live State
  turn,      \* turns of the loop taken, or channels received from
  who,       \* the member that runs, or Nobody
  branch,    \* per member: its branch of a gather and what it sent
  outs,      \* outs of a gather
  cancelled  \* the token

vars == <<policy, pc, state, turn, who, branch, outs, cancelled>>

Ids == ToSet(Members)
Nobody == ""
Branch(at, out) == [at |-> at, out |-> out]

TypeOK ==
  /\ policy \in {"StateRouter", "ParallelGather", "LlmSelect"}
  /\ pc \in {"start", "loop", "moderator", "member", "gather", "returned", "threw"}
  /\ state \in Seq(Ids \cup {"note"})
  /\ turn \in 0 .. MaxTurns + Len(Members) /\ who \in Ids \cup {Nobody}
  /\ branch \in [Ids -> [at : {"none", "running", "sent", "closed"}, out : Seq(Ids)]]
  /\ outs \in Seq(Seq(Ids)) /\ cancelled \in BOOLEAN

Init ==
  /\ policy \in {"StateRouter", "ParallelGather", "LlmSelect"}
  /\ pc = "start" /\ state = <<>> /\ turn = 0 /\ who = Nobody
  /\ branch = [m \in Ids |-> Branch("none", <<>>)] /\ outs = <<>>
  /\ cancelled = FALSE

Goes(to) == pc' = to /\ UNCHANGED <<policy, state, turn, who, branch, outs, cancelled>>

\* StateRouter and LlmSelect begin their loop, if they are configured;
\* ParallelGather spawns a branch for each member on a clone of the State.
Start ==
  /\ pc = "start"
  /\ \/ policy # "ParallelGather" /\ Goes("loop")
     \/ policy # "ParallelGather" /\ Goes("threw")
     \/ /\ policy = "ParallelGather" /\ pc' = "gather"
        /\ branch' = [m \in Ids |-> Branch("running", <<>>)]
        /\ UNCHANGED <<policy, state, turn, who, outs, cancelled>>

-----------------------------------------------------------------------------
(* The loops of StateRouter and LlmSelect.                                 *)

MayTurn == pc = "loop" /\ turn < MaxTurns /\ ~cancelled

LoopEnds == pc = "loop" /\ ~MayTurn /\ Goes("returned")

Runs(m) ==
  /\ pc' = "member" /\ who' = m /\ turn' = turn + 1
  /\ UNCHANGED <<policy, state, branch, outs, cancelled>>

\* The router names a member, none, or one that does not exist.
Route ==
  /\ policy = "StateRouter" /\ MayTurn
  /\ (\E m \in Ids : Runs(m)) \/ Goes("returned") \/ Goes("threw")

\* LlmNode::Run up to its co_await, on a clone with the prompt; the backend may
\* fail to create a conversation.
Moderate ==
  /\ policy = "LlmSelect" /\ MayTurn
  /\ Goes("moderator") \/ Goes("threw")

\* A member, the end, or text that is no member's id (an empty reply is left
\* as its JSON): the latter costs a turn and leaves a note in the State.
Decision ==
  \/ \E m \in Ids : Runs(m)
  \/ Goes("returned")
  \/ /\ pc' = "loop" /\ turn' = turn + 1 /\ state' = Append(state, "note")
     /\ UNCHANGED <<policy, who, branch, outs, cancelled>>

Replied_NoRecheck == pc = "moderator" /\ (Decision \/ Goes("threw"))

\* SendAsync returned: a reply, an error, or nothing because of a cancellation.
\* Then the field of the decision holds what some member left there, and only
\* the second look at the token keeps it from being followed.
Replied ==
  /\ pc = "moderator"
  /\ \/ cancelled /\ Goes("returned")
     \/ ~cancelled /\ Decision
     \/ Goes("threw")

\* A member's Run writes the State, or leaves it as it is once cancelled.
Outputs(m, input) == {Append(input, m)} \cup {s \in {input} : cancelled}

MemberReturns ==
  /\ pc = "member"
  /\ state' \in Outputs(who, state)
  /\ pc' = "loop" /\ who' = Nobody
  /\ UNCHANGED <<policy, turn, branch, outs, cancelled>>

MemberThrows == pc = "member" /\ Goes("threw")

-----------------------------------------------------------------------------
(* ParallelGather.                                                         *)

BranchReturns(m) ==
  /\ branch[m].at = "running"
  /\ \E out \in Outputs(m, state) : branch' = [branch EXCEPT ![m] = Branch("sent", out)]
  /\ UNCHANGED <<policy, pc, state, turn, who, outs, cancelled>>

BranchThrows(m) ==
  /\ branch[m].at = "running"
  /\ branch' = [branch EXCEPT ![m] = Branch("closed", <<>>)]
  /\ UNCHANGED <<policy, pc, state, turn, who, outs, cancelled>>

Take(m) ==
  /\ outs' = IF branch[m].at = "sent" THEN Append(outs, branch[m].out) ELSE outs
  /\ turn' = turn + 1
  /\ UNCHANGED <<policy, pc, state, who, branch, cancelled>>

Collect_Ready ==
  /\ pc = "gather" /\ turn < Len(Members)
  /\ \E m \in Ids : branch[m].at # "running" /\ Take(m)

\* The channels are received from in the order of the members; a closed one
\* adds nothing.
Collect ==
  /\ pc = "gather" /\ turn < Len(Members)
  /\ LET m == Members[turn + 1] IN branch[m].at # "running" /\ Take(m)

\* The aggregator, here one that joins what it gets, or the last one wins.
GatherEnds ==
  /\ pc = "gather" /\ turn = Len(Members) /\ pc' = "returned"
  /\ \/ state' = FlattenSeq(outs)
     \/ state' = IF outs = <<>> THEN state ELSE Last(outs)
  /\ UNCHANGED <<policy, turn, who, branch, outs, cancelled>>

Cancel ==
  /\ ~cancelled /\ cancelled' = TRUE
  /\ UNCHANGED <<policy, pc, state, turn, who, branch, outs>>

Next ==
  \/ Start \/ LoopEnds \/ Route \/ Moderate \/ Replied
  \/ MemberReturns \/ MemberThrows
  \/ \E m \in Ids : BranchReturns(m) \/ BranchThrows(m)
  \/ Collect \/ GatherEnds \/ Cancel

\* Run goes on; members and the moderator's SendAsync end, as AgentNode and the
\* backends do.
Fairness ==
  /\ WF_vars(Start) /\ WF_vars(LoopEnds \/ Route \/ Moderate) /\ WF_vars(Replied)
  /\ WF_vars(MemberReturns \/ MemberThrows)
  /\ \A m \in Ids : WF_vars(BranchReturns(m) \/ BranchThrows(m))
  /\ WF_vars(Collect \/ GatherEnds)

-----------------------------------------------------------------------------
(* Properties.                                                             *)

\* In a loop no member is started once the token is cancelled: not by a reply
\* that came before the cancellation, nor by what an earlier member left in
\* the field a moderator that was cut off did not write.
NoStartAfterCancel == [][pc # "member" /\ pc' = "member" => ~cancelled]_vars

\* outs holds what the first k members that did not throw returned, in the order
\* of the members.
Merged(k) ==
  \E f \in [1 .. Len(outs) -> 1 .. k] :
    /\ \A i, j \in 1 .. Len(outs) : i < j => f[i] < f[j]
    /\ \A j \in 1 .. k : branch[Members[j]].at = "sent" <=> \E i \in 1 .. Len(outs) : f[i] = j
    /\ \A i \in 1 .. Len(outs) : outs[i] = branch[Members[f[i]]].out

\* A gather returns when every branch has ended, and what it merges is what the
\* members that did not throw returned, in the order of the members, however
\* their ends interleave.
GatherInOrder ==
  policy = "ParallelGather" /\ pc = "returned" =>
    (\A m \in Ids : branch[m].at \in {"sent", "closed"}) /\ Merged(Len(Members))

\* Run returns or throws, also when some members throw.
TeamEnds == pc \notin {"returned", "threw"} ~> pc \in {"returned", "threw"}
=============================================================================
