----------------------------- MODULE SubAgents -----------------------------
(***************************************************************************)
(* A loaded workflow at run time: BuildAgentNode (workflow_runner.cc), the *)
(* delegate tool (delegate_tool.cc) and SubAgentRuntime::RunAsync          *)
(* (sub_agent_runtime.cc).  The main agent's delegate calls run            *)
(* concurrently; each has a stack of sub-agents, a token channel of its    *)
(* own, and a detached coroutine that drains it into the run's channel.    *)
(***************************************************************************)
EXTENDS WorkflowLoader

CONSTANTS Call,      \* delegate calls of the main agent, made in this order
          Confirm,   \* the tools of the confirm tier
          MaxIter,   \* kSubAgentMaxIter
          SubCap,    \* capacity of a call's channel
          TopCap,    \* capacity of the run's channel
          MaxToken,  \* bound: tokens streamed by sub-agents in the run
          MaxNested  \* bound: nested delegate calls in the run

ASSUME SubAgentsAssumption ==
  Call \subseteq Nat /\ MaxIter \in Nat /\ SubCap \in Nat \ {0} /\ TopCap \in Nat \ {0}

VARIABLES
  run,       \* "no", "refused", "running" or "ended"
  call,      \* per call: "idle", "running", "sentinel" or "done"
  frames,    \* per call: the sub-agents in progress, [agent, iter]
  at,        \* per call: where the innermost one is
  threw,     \* per call: RunAsync left by an exception
  nested,    \* nested delegate calls made in the run
  made,      \* per call: tokens streamed
  sub,       \* per call: its channel, tokens 1, 2, ... and the sentinel 0
  drain,     \* per call: the drain is "off", "receiving", "sending" or "ended"
  hand,      \* per call: the token the drain holds
  top,       \* the run's channel: pairs (call, token)
  seen,      \* per call: the tokens the run's consumer got
  cancelled

rvars == <<run, call, frames, at, threw, nested, made, sub, drain, hand, top, seen, cancelled>>
vars == <<lvars, rvars>>

Init ==
  /\ LInit
  /\ run = "no"
  /\ call = [k \in Call |-> "idle"] /\ frames = [k \in Call |-> <<>>]
  /\ at = [k \in Call |-> "none"] /\ threw = [k \in Call |-> FALSE]
  /\ nested = 0 /\ made = [k \in Call |-> 0]
  /\ sub = [k \in Call |-> <<>>] /\ drain = [k \in Call |-> "off"]
  /\ hand = [k \in Call |-> 0] /\ top = <<>> /\ seen = [k \in Call |-> <<>>]
  /\ cancelled = FALSE

\* An unknown backend of the main agent, or a confirm tool of any agent where
\* the host asked for a gate and has none, throws.
BuildAgentNode(failClosed) ==
  /\ load = "loaded" /\ run = "no"
  /\ run' = IF \/ Def(spec.main).backend = "unknown"
               \/ failClosed /\ \E a \in spec.declared : Def(a).tools \cap Confirm # {}
            THEN "refused" ELSE "running"
  /\ UNCHANGED <<lvars, call, frames, at, threw, nested, made, sub, drain, hand,
                 top, seen, cancelled>>
-----------------------------------------------------------------------------
(* RunAsync                                                                 *)

Inner(k) == frames[k][Len(frames[k])]
Outer(k) == SubSeq(frames[k], 1, Len(frames[k]) - 1)

\* Back in the delegate tool, or in the tool loop of the sub-agent outside.
Returns(k, outer) ==
  /\ frames' = [frames EXCEPT ![k] = outer]
  /\ at' = [at EXCEPT ![k] = IF outer = <<>> THEN "none" ELSE "tools"]
  /\ call' = [call EXCEPT ![k] = IF outer = <<>> THEN "sentinel" ELSE "running"]
  /\ UNCHANGED threw

InRoster(parent, child) == \E i \in DOMAIN Dels(parent) : Dels(parent)[i] = child

Enter_Undeep(k, parent, child, depth) ==
  \/ /\ ~(Def(parent).hasDelegates /\ InRoster(parent, child)) /\ Returns(k, frames[k])
  \/ /\ Def(parent).hasDelegates /\ InRoster(parent, child)
     /\ frames' = [frames EXCEPT ![k] = Append(@, [agent |-> child, iter |-> 0])]
     /\ at' = [at EXCEPT ![k] = "turn"]
     /\ call' = [call EXCEPT ![k] = "running"] /\ UNCHANGED threw

\* The checks, the child's tools and its conversation.  Exporting the tools
\* parses the host's schemas and throws on one that is not JSON: into the tool
\* loop outside, which turns it into a result, or out of the delegate tool.
Enter(k, parent, child, depth) ==
  LET admitted == /\ Def(parent).hasDelegates
                  /\ depth < Def(parent).delegates.maxDepth
                  /\ InRoster(parent, child)
  IN \/ ~admitted /\ Returns(k, frames[k])
     \/ admitted /\ Def(child).prompt = "bad" /\ Returns(k, frames[k])
     \/ /\ admitted /\ Def(child).prompt = "ok"
        /\ \/ IF frames[k] # <<>> THEN Returns(k, frames[k])
              ELSE /\ threw' = [threw EXCEPT ![k] = TRUE]
                   /\ call' = [call EXCEPT ![k] = "done"]
                   /\ UNCHANGED <<frames, at>>
           \/ Returns(k, frames[k])  \* unknown backend, or no conversation
           \/ /\ Def(child).backend # "unknown"
              /\ frames' = [frames EXCEPT ![k] = Append(@, [agent |-> child, iter |-> 0])]
              /\ at' = [at EXCEPT ![k] = "turn"]
              /\ call' = [call EXCEPT ![k] = "running"] /\ UNCHANGED threw

\* The delegate tool of the main agent: bad arguments and a cancelled run are
\* answered at once, otherwise the drain is spawned and the child run.
Delegate(k, child) ==
  /\ run = "running" /\ call[k] = "idle" /\ \A j \in Call : j < k => call[j] # "idle"
  /\ \/ /\ call' = [call EXCEPT ![k] = "done"]
        /\ UNCHANGED <<frames, at, threw, drain>>
     \/ /\ ~cancelled /\ Def(spec.main).hasDelegates
        /\ drain' = [drain EXCEPT ![k] = "receiving"]
        /\ Enter(k, spec.main, child, 0)
  /\ UNCHANGED <<lvars, run, nested, made, sub, hand, top, seen, cancelled>>

\* The head of the loop: at its end the last reply is the result.
Turn(k) ==
  /\ at[k] = "turn"
  /\ IF Inner(k).iter = MaxIter \/ cancelled THEN Returns(k, Outer(k))
     ELSE at' = [at EXCEPT ![k] = "stream"] /\ UNCHANGED <<frames, call, threw>>
  /\ UNCHANGED <<lvars, run, nested, made, sub, drain, hand, top, seen, cancelled>>

Streamed == {t \in Call \X (1..MaxToken) : t[2] <= made[t[1]]}

StreamToken(k) ==
  /\ at[k] = "stream" /\ Cardinality(Streamed) < MaxToken
  /\ made' = [made EXCEPT ![k] = @ + 1]
  /\ at' = [at EXCEPT ![k] = "send"]
  /\ UNCHANGED <<lvars, run, call, frames, threw, nested, sub, drain, hand, top, seen, cancelled>>

\* on_token waits for room in the call's channel.
SendToken(k) ==
  /\ at[k] = "send" /\ Len(sub[k]) < SubCap
  /\ sub' = [sub EXCEPT ![k] = Append(@, made[k])]
  /\ at' = [at EXCEPT ![k] = "stream"]
  /\ UNCHANGED <<lvars, run, call, frames, threw, nested, made, drain, hand, top, seen, cancelled>>

\* The reply: an error or a final answer ends the sub-agent, tool calls are
\* run one after the other.
Reply(k) ==
  /\ at[k] = "stream"
  /\ \/ Returns(k, Outer(k))
     \/ at' = [at EXCEPT ![k] = "tools"] /\ UNCHANGED <<frames, call, threw>>
  /\ UNCHANGED <<lvars, run, nested, made, sub, drain, hand, top, seen, cancelled>>

\* A nested delegate call, one level deeper; the other tools have no effect
\* here.
NestedDelegate(k, child) ==
  /\ at[k] = "tools" /\ nested < MaxNested /\ Def(Inner(k).agent).hasDelegates
  /\ nested' = nested + 1
  /\ Enter(k, Inner(k).agent, child, Len(frames[k]))
  /\ UNCHANGED <<lvars, run, made, sub, drain, hand, top, seen, cancelled>>

NextTurn(k) ==
  /\ at[k] = "tools"
  /\ frames' = [frames EXCEPT ![k] = Append(Outer(k), [Inner(k) EXCEPT !.iter = @ + 1])]
  /\ at' = [at EXCEPT ![k] = "turn"]
  /\ UNCHANGED <<lvars, run, call, threw, nested, made, sub, drain, hand, top, seen, cancelled>>
-----------------------------------------------------------------------------
(* The delegate tool once RunAsync has returned, and its drain.             *)

SendSentinel_Skipped(k) ==
  /\ call[k] = "sentinel"
  /\ call' = [call EXCEPT ![k] = "done"]
  /\ UNCHANGED <<lvars, run, frames, at, threw, nested, made, sub, drain, hand, top, seen, cancelled>>

SendSentinel(k) ==
  /\ call[k] = "sentinel" /\ Len(sub[k]) < SubCap
  /\ sub' = [sub EXCEPT ![k] = Append(@, 0)]
  /\ call' = [call EXCEPT ![k] = "done"]
  /\ UNCHANGED <<lvars, run, frames, at, threw, nested, made, drain, hand, top, seen, cancelled>>

DrainReceives(k) ==
  /\ drain[k] = "receiving" /\ sub[k] # <<>>
  /\ sub' = [sub EXCEPT ![k] = Tail(@)]
  /\ hand' = [hand EXCEPT ![k] = Head(sub[k])]
  /\ drain' = [drain EXCEPT ![k] = IF Head(sub[k]) = 0 THEN "ended" ELSE "sending"]
  /\ UNCHANGED <<lvars, run, call, frames, at, threw, nested, made, top, seen, cancelled>>

DrainSends_Tries(k) ==
  /\ drain[k] = "sending"
  /\ top' = IF Len(top) < TopCap THEN Append(top, <<k, hand[k]>>) ELSE top
  /\ hand' = [hand EXCEPT ![k] = 0]
  /\ drain' = [drain EXCEPT ![k] = "receiving"]
  /\ UNCHANGED <<lvars, run, call, frames, at, threw, nested, made, sub, seen, cancelled>>

\* The run's channel is closed when the run has ended: the send fails.
DrainSends(k) ==
  /\ drain[k] = "sending"
  /\ \/ /\ run = "running" /\ Len(top) < TopCap
        /\ top' = Append(top, <<k, hand[k]>>)
        /\ drain' = [drain EXCEPT ![k] = "receiving"]
     \/ /\ run = "ended"
        /\ drain' = [drain EXCEPT ![k] = "ended"] /\ UNCHANGED top
  /\ hand' = [hand EXCEPT ![k] = 0]
  /\ UNCHANGED <<lvars, run, call, frames, at, threw, nested, made, sub, seen, cancelled>>

Consume ==
  /\ top # <<>>
  /\ seen' = [seen EXCEPT ![Head(top)[1]] = Append(@, Head(top)[2])]
  /\ top' = Tail(top)
  /\ UNCHANGED <<lvars, run, call, frames, at, threw, nested, made, sub, drain, hand, cancelled>>

\* The main agent ends only between tool rounds; the producer then closes the
\* run's channel.
MainEnds ==
  /\ run = "running" /\ \A k \in Call : call[k] \in {"idle", "done"}
  /\ run' = "ended"
  /\ UNCHANGED <<lvars, call, frames, at, threw, nested, made, sub, drain, hand, top, seen, cancelled>>

Cancel ==
  /\ run = "running" /\ ~cancelled
  /\ cancelled' = TRUE
  /\ UNCHANGED <<lvars, run, call, frames, at, threw, nested, made, sub, drain, hand, top, seen>>

CallStep(k) ==
  \/ Turn(k) \/ StreamToken(k) \/ SendToken(k) \/ Reply(k) \/ NextTurn(k) \/ SendSentinel(k)

Next ==
  \/ LNext /\ UNCHANGED rvars
  \/ \E failClosed \in BOOLEAN : BuildAgentNode(failClosed)
  \/ \E k \in Call, child \in Agent : Delegate(k, child) \/ NestedDelegate(k, child)
  \/ \E k \in Call : CallStep(k) \/ DrainReceives(k) \/ DrainSends(k)
  \/ Consume \/ MainEnds \/ Cancel

\* The coroutines run whenever they can, the consumer keeps receiving.
Fairness ==
  /\ \A k \in Call : WF_vars(CallStep(k))
  /\ \A k \in Call : WF_vars(DrainReceives(k)) /\ WF_vars(DrainSends(k))
  /\ WF_vars(Consume)

Spec == Init /\ [][Next]_vars /\ Fairness
-----------------------------------------------------------------------------
\* The agents at work in a call, the main agent first.
Chain(k) == <<spec.main>> \o [i \in DOMAIN frames[k] |-> frames[k][i].agent]

\* No agent is at work twice in one call: the loader refused the cycles, and
\* RunAsync admits only agents of the parent's roster.  Each level of the
\* stack is within the max_depth of the agent that opened it.
NoRecursion ==
  \A k \in Call :
    /\ \A i, j \in DOMAIN Chain(k) : Chain(k)[i] = Chain(k)[j] => i = j
    /\ \A i \in DOMAIN frames[k] : i - 1 < Def(Chain(k)[i]).delegates.maxDepth

\* The tokens of call k from the consumer back to its sub-agents: how far each
\* is, its place there, and the token.
Way(k) ==
  {<<1, i, seen[k][i]>> : i \in DOMAIN seen[k]}
    \cup {<<2, i, top[i][2]>> : i \in {j \in DOMAIN top : top[j][1] = k}}
    \cup {<<3, 1, t>> : t \in {hand[k]} \ {0}}
    \cup {<<4, i, sub[k][i]>> : i \in {j \in DOMAIN sub[k] : sub[k][j] # 0}}

Ahead(p, q) == p[1] < q[1] \/ (p[1] = q[1] /\ p[2] < q[2])

\* Up to the end of the run every token a sub-agent streamed is with the
\* consumer or on its way there, in the order it was streamed, whatever the
\* capacities and however many calls share the run's channel; tokens left in a
\* call's channel when the run ends are lost, but never reordered.
TokensInOrder ==
  \A k \in Call :
    /\ \A p, q \in Way(k) : Ahead(p, q) => p[3] < q[3]
    /\ run = "running" =>
         {p[3] : p \in Way(k)} = 1..(made[k] - (IF at[k] = "send" THEN 1 ELSE 0))

\* Every delegate call returns, in bounded turns and with its channel drained
\* under it; and its drain ends too, by the sentinel or because the run did,
\* except where RunAsync threw: then nobody sends the sentinel, the drain
\* receives for ever and the io_context never runs out of work.
CallsAndDrainsEnd ==
  \A k \in Call :
    /\ call[k] = "running" ~> call[k] = "done"
    /\ call[k] = "done" ~> drain[k] \in {"off", "ended"} \/ threw[k]
=============================================================================
