------------------------------ MODULE AgentNode ------------------------------
(***************************************************************************)
(* AgentNode::Run (agentflow/nodes/agent_node.cc): the loop of turns of    *)
(* one agent.  A reply with tool calls spawns one coroutine and one        *)
(* channel per call; the results are collected in the order of the calls   *)
(* and sent back as the next message.  Steps are the code between two      *)
(* co_awaits, on one io_context thread; the token is cancelled by another. *)
(***************************************************************************)
EXTENDS Naturals, Sequences

CONSTANTS CallId,     \* ids of tool calls, the empty one included
          MaxIter,    \* max_iter
          Capacity,   \* of the token channel
          MaxCalls,   \* bound: tool calls in one reply
          MaxDeltas   \* bound: deltas of text of one run

ASSUME AgentAssumption ==
  MaxIter \in Nat /\ Capacity \in Nat \ {0} /\ MaxCalls \in Nat /\ MaxDeltas \in Nat

VARIABLES
  pc,        \* where Run is: "start", "send", "sink", "collect", "done", "failed"
  iter,      \* iter
  cancelled, \* the token
  calls,     \* calls: the object entries of the last reply's tool_calls
  task,      \* per call, its coroutine: "spawned", "running" or how its tool ended
  chan,      \* per call, its channel: Empty, Closed or the result sent
  content,   \* tool_content
  reply,     \* kind of the last reply: "none", "tools" or "text"
  output,    \* output_field: "unset", "answer", "fallback" or "empty"
  buffer,    \* tokens in token_channel
  closed,    \* the consumer closed token_channel
  deltas,    \* deltas produced so far
  config     \* tool_registry or tool_view is set; tokens are streamed to a channel

vars == <<pc, iter, cancelled, calls, task, chan, content, reply, output, buffer, closed, deltas, config>>

Call     == [id : CallId, tool : {"extra", "other"}]
CallSeqs == UNION {[1 .. n -> Call] : n \in 0 .. MaxCalls}
Outcome  == {"value", "error", "escaped", "notool"}
Result   == [of : 1 .. MaxCalls, as : Outcome]

Empty  == [of |-> 0, as |-> "empty"]
Closed == [of |-> 0, as |-> "closed"]

\* What the model is told of call n when its tool ended with outcome o: the
\* value, "Tool error", the placeholder, or nothing without a registry.
ResultOf(n, o) == [of |-> n, as |-> o]

TypeOK ==
  /\ pc \in {"start", "send", "sink", "collect", "done", "failed"}
  /\ iter \in 0 .. MaxIter /\ cancelled \in BOOLEAN
  /\ calls \in CallSeqs
  /\ task \in [DOMAIN calls -> {"spawned", "running"} \cup Outcome]
  /\ chan \in [DOMAIN calls -> Result \cup {Empty, Closed}]
  /\ content \in Seq([id : CallId, value : Result])
  /\ reply \in {"none", "tools", "text"}
  /\ output \in {"unset", "answer", "fallback", "empty"}
  /\ buffer \in 0 .. Capacity /\ closed \in BOOLEAN /\ deltas \in 0 .. MaxDeltas
  /\ config \in [registry : BOOLEAN, channel : BOOLEAN]

Init ==
  /\ pc = "start" /\ iter = 0 /\ cancelled \in BOOLEAN
  /\ calls = <<>> /\ task = <<>> /\ chan = <<>> /\ content = <<>>
  /\ reply = "none" /\ output = "unset"
  /\ buffer = 0 /\ closed = FALSE /\ deltas = 0
  /\ config \in [registry : BOOLEAN, channel : BOOLEAN]

tasks  == <<calls, task, chan>>
stream == <<buffer, closed, deltas>>

-----------------------------------------------------------------------------
(* The loop.                                                               *)

\* Behind the loop: final_answer, or a message that the turns ran out.
Finish(answered) ==
  /\ pc' = "done"
  /\ output' = IF answered THEN "answer" ELSE IF cancelled THEN "empty" ELSE "fallback"

\* The head of the loop, with iter = n, up to the co_await of SendAsync.
LoopTop(n) ==
  /\ iter' = n
  /\ IF n < MaxIter /\ ~cancelled
     THEN pc' = "send" /\ UNCHANGED output
     ELSE Finish(FALSE)

\* No backend, or no conversation, is an exception; a run that is cancelled
\* already leaves the state alone.
Start ==
  /\ pc = "start"
  /\ \/ pc' = "failed" /\ UNCHANGED <<iter, output>>
     \/ cancelled /\ pc' = "done" /\ UNCHANGED <<iter, output>>
     \/ ~cancelled /\ LoopTop(0)
  /\ UNCHANGED <<cancelled, tasks, content, reply, stream, config>>

\* A reply without tool calls, or one that is no JSON.
ReplyText ==
  /\ pc = "send"
  /\ reply' = "text" /\ Finish(TRUE)
  /\ UNCHANGED <<iter, cancelled, tasks, content, stream, config>>

\* A reply with tool calls; entries that are no objects have been skipped.
ReplyTools ==
  /\ pc = "send"
  /\ \E cs \in CallSeqs :
       /\ calls' = cs
       /\ task' = [n \in DOMAIN cs |-> "spawned"]
       /\ chan' = [n \in DOMAIN cs |-> Empty]
       /\ IF cs = <<>> THEN LoopTop(iter + 1) ELSE pc' = "collect" /\ UNCHANGED <<iter, output>>
  /\ content' = <<>> /\ reply' = "tools"
  /\ UNCHANGED <<cancelled, stream, config>>

\* SendAsync returns Cancelled only for a cancelled token.
SendFails ==
  /\ pc = "send"
  /\ \/ cancelled /\ Finish(FALSE)
     \/ pc' = "failed" /\ UNCHANGED output
  /\ UNCHANGED <<iter, cancelled, tasks, content, reply, stream, config>>

-----------------------------------------------------------------------------
(* The coroutine of call n: DispatchTool and the send on its channel.      *)

Reports_EscapeLost(n, o) ==
  /\ task' = [task EXCEPT ![n] = o]
  /\ chan' = [chan EXCEPT ![n] = IF o = "escaped" THEN @ ELSE ResultOf(n, o)]

\* The result is sent; an exception DispatchTool lets through closes the channel.
Reports(n, o) ==
  /\ task' = [task EXCEPT ![n] = o]
  /\ chan' = [chan EXCEPT ![n] = IF o = "escaped" THEN Closed ELSE ResultOf(n, o)]

DispatchTool(n) ==
  /\ task[n] = "spawned"
  /\ IF calls[n].tool = "extra" \/ config.registry
     THEN task' = [task EXCEPT ![n] = "running"] /\ UNCHANGED chan
     ELSE Reports(n, "notool")
  /\ UNCHANGED <<pc, iter, cancelled, calls, content, reply, output, stream, config>>

\* The tool returned, threw a std::exception, or threw something else.
ToolDone(n) ==
  /\ task[n] = "running"
  /\ \E o \in {"value", "error", "escaped"} : Reports(n, o)
  /\ UNCHANGED <<pc, iter, cancelled, calls, content, reply, output, stream, config>>

-----------------------------------------------------------------------------
(* Collecting the results.                                                 *)

\* The entry of tool_content for call n that received r.
Entry(n, r) ==
  [id |-> calls[n].id, value |-> IF r = Closed THEN ResultOf(n, "escaped") ELSE r]

Take(n) ==
  /\ content' = Append(content, Entry(n, chan[n]))
  /\ IF Len(content) + 1 = Len(calls)
     THEN LoopTop(iter + 1)
     ELSE UNCHANGED <<pc, iter, output>>
  /\ UNCHANGED <<cancelled, tasks, reply, stream, config>>

Collect_CompletionOrder ==
  /\ pc = "collect"
  /\ \E n \in DOMAIN calls :
       /\ chan[n] # Empty /\ \A k \in DOMAIN content : content[k].value.of # n
       /\ Take(n)

Collect_ThrowOnError ==
  /\ pc = "collect"
  /\ LET n == Len(content) + 1
     IN /\ chan[n] # Empty
        /\ \/ chan[n] # Closed /\ Take(n)
           \/ /\ chan[n] = Closed /\ pc' = "failed"
              /\ UNCHANGED <<iter, cancelled, tasks, content, reply, output, stream, config>>

\* async_receive on the next channel in the order of the calls.
Collect ==
  /\ pc = "collect"
  /\ LET n == Len(content) + 1
     IN chan[n] # Empty /\ Take(n)

-----------------------------------------------------------------------------
(* The token sink: SendAsync awaits it for every delta.                    *)

Delta ==
  /\ pc = "send" /\ config.channel /\ deltas < MaxDeltas
  /\ deltas' = deltas + 1
  /\ pc' = "sink"
  /\ UNCHANGED <<iter, cancelled, tasks, content, reply, output, buffer, closed, config>>

\* The send completes when there is room, or with an error once it is closed.
SinkDone ==
  /\ pc = "sink"
  /\ \/ closed /\ UNCHANGED buffer
     \/ ~closed /\ buffer < Capacity /\ buffer' = buffer + 1
  /\ pc' = "send"
  /\ UNCHANGED <<iter, cancelled, tasks, content, reply, output, closed, deltas, config>>

-----------------------------------------------------------------------------
(* The environment.                                                        *)

Receive ==
  /\ ~closed /\ buffer > 0 /\ buffer' = buffer - 1
  /\ UNCHANGED <<pc, iter, cancelled, tasks, content, reply, output, closed, deltas, config>>

CloseChannel ==
  /\ config.channel /\ ~closed /\ closed' = TRUE
  /\ UNCHANGED <<pc, iter, cancelled, tasks, content, reply, output, buffer, deltas, config>>

Cancel ==
  /\ ~cancelled /\ cancelled' = TRUE
  /\ UNCHANGED <<pc, iter, tasks, content, reply, output, stream, config>>

Reply == ReplyText \/ ReplyTools \/ SendFails
Run   == Start \/ Reply \/ Collect \/ SinkDone

Next ==
  \/ Run \/ Delta \/ Receive \/ CloseChannel \/ Cancel
  \/ \E n \in DOMAIN calls : DispatchTool(n) \/ ToolDone(n)

Spec == Init /\ [][Next]_vars

\* The io_context runs every ready coroutine; the backend answers, a tool
\* ends, and the consumer of tokens keeps receiving or closes the channel.
Fairness ==
  /\ WF_vars(Run) /\ WF_vars(Receive \/ (pc = "sink" /\ CloseChannel))
  /\ \A n \in 1 .. MaxCalls : WF_vars(n \in DOMAIN calls /\ (DispatchTool(n) \/ ToolDone(n)))

FairSpec == Spec /\ Fairness

-----------------------------------------------------------------------------
(* Properties.                                                             *)

Ended == pc \in {"done", "failed"}

\* The message that goes back to the model answers the calls of its reply one
\* to one and in their order, each with what its own tool ended with, in
\* whatever order the coroutines ended and whichever of them threw.
ResultsMatchCalls ==
  pc = "send" /\ reply = "tools" =>
    content = [n \in DOMAIN calls |-> [id |-> calls[n].id, value |-> ResultOf(n, task[n])]]

\* No coroutine of a tool is left when Run returns or throws, or when the next
\* turn starts: they hold references to the node, the token and the emitter.
NoOrphan ==
  Ended \/ pc \in {"send", "sink"} => \A n \in DOMAIN task : task[n] \notin {"spawned", "running"}

\* Run ends, with full channels, throwing tools and a consumer that goes away.
RunEnds == <>Ended
=============================================================================
