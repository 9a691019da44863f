----------------------------- MODULE JniBridge -----------------------------
(***************************************************************************)
(* One run behind the JNI bridge (jni/agentflow_jni.cc), composed with the *)
(* cancellation of CancelToken.  A Kotlin thread makes the blocking call   *)
(* and is the run's io thread; another holds the cancel handle; a pool of  *)
(* workers makes the upcalls into host tools and writes the cancelled      *)
(* flag.  Init picks the client:                                           *)
(*   "agent"    runAgent;           "plain"  runJsonWorkflow;              *)
(*   "callback" runJsonWorkflowStreaming, with a callback that may throw;  *)
(*   "flow"     the same under nativeTokenStream, whose collector may be   *)
(*              cancelled;                                                 *)
(*   "tools"    runJsonWorkflowConstrained, with Kotlin host tools.        *)
(* CancelToken's Callback is the set of host tool calls: each registers    *)
(* one callback.                                                           *)
(***************************************************************************)
EXTENDS CancelToken, Sequences

CONSTANTS RunThread, UserThread,  \* the two members of Thread
          Worker,                 \* threads of g_workers
          NTool,                  \* host tools registered for the run
          Capacity,               \* of the token channel
          MaxToken,               \* bound: tokens the model generates
          MaxCancel               \* bound: calls of nativeCancel

ASSUME ThreadAssumption == Thread = {RunThread, UserThread} /\ RunThread # UserThread
ASSUME ToolAssumption == NTool \in Nat

VARIABLES
  client,     \* see above
  steps,      \* what the JNI call has still to do
  handle,     \* the id is in g_cancels
  mu,         \* UserThread holds g_cancel_mu
  cancelsLeft,\* nativeCancel calls still to come
  refs,       \* live global references: Signal and the tools, 1..NTool
  jobs,       \* UpcallWorkerPool::jobs
  job,        \* per worker: the job it runs
  call,       \* per host call: "idle", "posted", "answered", "done"
  io,         \* the host call between its Post and its OnCancel, or Loop
  flag,       \* RunSignal.cancelled
  producer,   \* the coroutine in runner.Run: "busy", "sending" a token, "done"
  sent,       \* tokens put into the channel
  channel,    \* tokens buffered there
  consumer,   \* "loop", "stopped" (the callback threw), "done"
  delivered,  \* tokens handed to onToken
  pending,    \* a Java exception is pending in the run's thread
  runExc,     \* run_exc is set
  outcome,    \* what the JNI call returned
  queue,      \* nativeTokenStream: hand-off queue
  collector   \* nativeTokenStream: "taking", "completed", "failed", "cancelled"

tokenVars == <<cancelled, onCancel, toFire, registered, runs, waiting>>
regVars == <<handle, mu, cancelsLeft>>
poolVars == <<jobs, job, call, io, flag>>
streamVars == <<producer, sent, channel, consumer, delivered>>
endVars == <<pending, runExc, outcome>>
flowVars == <<queue, collector>>
jvars == <<client, steps, refs, tokenVars, regVars, poolVars, streamVars, endVars, flowVars>>

Streaming == client \in {"callback", "flow"}

\* The entry points as the steps each goes through.
runAgent == <<"engine", "run", "finish">>
runJsonWorkflow == <<"engine", "load", "run", "finish">>
runJsonWorkflowStreaming == <<"token", "engine", "load", "run", "finish">>
runJsonWorkflowConstrained ==
  <<"token", "signal", "engine", "tools", "load", "run", "release", "finish">>

Entry(c) ==
  CASE c = "agent" -> runAgent
    [] c = "plain" -> runJsonWorkflow
    [] c = "tools" -> runJsonWorkflowConstrained
    [] OTHER -> runJsonWorkflowStreaming

Signal == 0
Loop == 0
None == [kind |-> "none"]
ToolJob(c) == [kind |-> "tool", call |-> c]
FlagJob == [kind |-> "flag"]
Delta(t) == [kind |-> "delta", token |-> t]
Done == [kind |-> "done"]

JInit ==
  /\ Init
  /\ client \in {"agent", "plain", "callback", "flow", "tools"}
  /\ steps = Entry(client)
  /\ handle = (client \in {"callback", "flow", "tools"})
  /\ mu = FALSE /\ cancelsLeft = MaxCancel
  /\ refs = {} /\ jobs = <<>> /\ job = [w \in Worker |-> None]
  /\ call = [c \in Callback |-> "idle"] /\ io = Loop /\ flag = FALSE
  /\ producer = "busy" /\ sent = 0 /\ channel = <<>>
  /\ consumer = "loop" /\ delivered = <<>>
  /\ pending = FALSE /\ runExc = FALSE /\ outcome = "none"
  /\ queue = <<>> /\ collector = "taking"
-----------------------------------------------------------------------------
At(s) == steps # <<>> /\ Head(steps) = s
Advance == steps' = Tail(steps)

\* The JNI call is over: nativeTokenStream's thread queues Done, with the
\* exception if there is one.
Return(o) ==
  /\ steps' = <<>> /\ outcome' = o
  /\ queue' = IF client = "flow" THEN Append(queue, Done) ELSE queue
  /\ UNCHANGED <<collector, pending, runExc>>

\* An exit before the run starts throws a Java exception; the constrained
\* entry first releases every reference it has created.
Refuse == Return("exception") /\ refs' = {}

Proceed == Advance /\ UNCHANGED <<endVars, flowVars>>

\* Look the token up in the registry, under its mutex.
TakeToken ==
  /\ At("token") /\ ~mu
  /\ \/ Refuse                       \* the callback lacks a method
     \/ Proceed /\ UNCHANGED refs
  /\ UNCHANGED <<client, tokenVars, regVars, poolVars, streamVars>>

\* The signal's global reference; its class may lack the field.
NewSignalRef ==
  /\ At("signal")
  /\ Refuse \/ (Proceed /\ refs' = {Signal})
  /\ UNCHANGED <<client, tokenVars, regVars, poolVars, streamVars>>

CreateEngine ==
  /\ At("engine")
  /\ Refuse \/ (Proceed /\ UNCHANGED refs)
  /\ UNCHANGED <<client, tokenVars, regVars, poolVars, streamVars>>

\* One iteration of the tool loop: the next tool gets a global reference, or
\* has no invoke method.
RegisterTool ==
  /\ At("tools")
  /\ LET n == Cardinality(refs \ {Signal})
     IN IF n = NTool
        THEN Proceed /\ UNCHANGED refs
        ELSE \/ Refuse
             \/ refs' = refs \cup {n + 1} /\ UNCHANGED <<steps, endVars, flowVars>>
  /\ UNCHANGED <<client, tokenVars, regVars, poolVars, streamVars>>

LoadAndBuild_KeepsSignal ==
  /\ At("load")
  /\ \/ Return("exception") /\ refs' = refs \cap {Signal}
     \/ Proceed /\ UNCHANGED refs
  /\ UNCHANGED <<client, tokenVars, regVars, poolVars, streamVars>>

\* WorkflowLoader::Load and BuildAgentNode; then the coroutines are spawned.
LoadAndBuild ==
  /\ At("load")
  /\ Refuse \/ (Proceed /\ UNCHANGED refs)
  /\ UNCHANGED <<client, tokenVars, regVars, poolVars, streamVars>>
-----------------------------------------------------------------------------
\* The io thread is in no callback of a registration it has just made.
Looping == At("run") /\ io = Loop /\ Idle(RunThread)

\* A host tool's function posts the upcall ...  The event emitted with the
\* call is a Java callback, which may throw.
HostPost(c) ==
  /\ Looping /\ client = "tools" /\ producer = "busy"
  /\ call[c] = "idle" /\ \A d \in Callback : d < c => call[d] # "idle"
  /\ jobs' = Append(jobs, ToolJob(c))
  /\ call' = [call EXCEPT ![c] = "posted"]
  /\ io' = c
  /\ \E threw \in BOOLEAN : pending' = (pending \/ threw)
  /\ UNCHANGED <<client, steps, refs, tokenVars, regVars, job, flag, streamVars,
                 runExc, outcome, flowVars>>

HostOnCancel_Skipped(c) ==
  /\ io = c /\ io' = Loop
  /\ UNCHANGED <<client, steps, refs, tokenVars, regVars, jobs, job, call, flag,
                 streamVars, endVars, flowVars>>

\* ... and then registers the callback that posts the write of the flag.
HostOnCancel(c) ==
  /\ io = c /\ io' = Loop
  /\ OnCancel(RunThread, c)
  /\ UNCHANGED <<client, steps, refs, regVars, jobs, job, call, flag,
                 streamVars, endVars, flowVars>>

\* The callback, on the cancelling thread or on the registering one.
PostFlag(t, c) ==
  /\ Fire(t, c)
  /\ jobs' = Append(jobs, FlagJob)
  /\ UNCHANGED <<client, steps, refs, regVars, job, call, io, flag,
                 streamVars, endVars, flowVars>>

\* A worker of the pool takes the oldest job.
TakeJob(w) ==
  /\ job[w] = None /\ jobs # <<>>
  /\ job' = [job EXCEPT ![w] = Head(jobs)]
  /\ jobs' = Tail(jobs)
  /\ UNCHANGED <<client, steps, refs, tokenVars, regVars, call, io, flag,
                 streamVars, endVars, flowVars>>

\* The host tool returns, throws, or could not be called: every case posts a
\* result to the waiting coroutine.
ToolEnds(w) ==
  /\ job[w].kind = "tool"
  /\ call' = [call EXCEPT ![job[w].call] = "answered"]
  /\ job' = [job EXCEPT ![w] = None]
  /\ UNCHANGED <<client, steps, refs, tokenVars, regVars, jobs, io, flag,
                 streamVars, endVars, flowVars>>

\* SetBooleanField.  Through a released reference the write has no defined
\* effect on the signal: none is modelled.
WriteFlag(w) ==
  /\ job[w].kind = "flag"
  /\ flag' = (flag \/ Signal \in refs)
  /\ job' = [job EXCEPT ![w] = None]
  /\ UNCHANGED <<client, steps, refs, tokenVars, regVars, jobs, call, io,
                 streamVars, endVars, flowVars>>

\* The waiting coroutine gets the result and emits the return event.
HostResume(c) ==
  /\ Looping /\ call[c] = "answered"
  /\ call' = [call EXCEPT ![c] = "done"]
  /\ \E threw \in BOOLEAN : pending' = (pending \/ threw)
  /\ UNCHANGED <<client, steps, refs, tokenVars, regVars, jobs, job, io, flag,
                 streamVars, runExc, outcome, flowVars>>
-----------------------------------------------------------------------------
\* The sink of a streaming run begins a back-pressured send ...
StartToken ==
  /\ Looping /\ Streaming /\ producer = "busy" /\ sent < MaxToken
  /\ producer' = "sending"
  /\ UNCHANGED <<client, steps, refs, tokenVars, regVars, poolVars, sent, channel,
                 consumer, delivered, endVars, flowVars>>

SendToken_Drops ==
  /\ Looping /\ producer = "sending"
  /\ producer' = "busy" /\ sent' = sent + 1
  /\ channel' = IF Len(channel) < Capacity THEN Append(channel, sent') ELSE channel
  /\ UNCHANGED <<client, steps, refs, tokenVars, regVars, poolVars,
                 consumer, delivered, endVars, flowVars>>

\* ... which completes when the channel has room.
SendToken ==
  /\ Looping /\ producer = "sending" /\ Len(channel) < Capacity
  /\ producer' = "busy" /\ sent' = sent + 1
  /\ channel' = Append(channel, sent')
  /\ UNCHANGED <<client, steps, refs, tokenVars, regVars, poolVars,
                 consumer, delivered, endVars, flowVars>>

\* The consumer hands a token to onToken.  nativeTokenStream's callback queues
\* it; another callback may throw, and then the consumer stops, with the
\* channel still open.
ConsumeToken ==
  /\ Looping /\ Streaming /\ consumer = "loop" /\ channel # <<>>
  /\ channel' = Tail(channel)
  /\ delivered' = Append(delivered, Head(channel))
  /\ \E threw \in {FALSE} \cup (IF client = "callback" THEN {TRUE} ELSE {}) :
       /\ pending' = threw
       /\ consumer' = IF threw THEN "stopped" ELSE "loop"
  /\ queue' = IF client = "flow" THEN Append(queue, Delta(Head(channel))) ELSE queue
  /\ UNCHANGED <<client, steps, refs, tokenVars, regVars, poolVars, producer, sent,
                 runExc, outcome, collector>>

ConsumerEnds_OnSuccess ==
  /\ Looping /\ Streaming /\ consumer = "loop" /\ channel = <<>>
  /\ producer = "done" /\ ~runExc
  /\ consumer' = "done"
  /\ UNCHANGED <<client, steps, refs, tokenVars, regVars, poolVars, producer, sent,
                 channel, delivered, endVars, flowVars>>

\* The channel is closed, whether the run succeeded or threw, and empty.
ConsumerEnds ==
  /\ Looping /\ Streaming /\ consumer = "loop" /\ channel = <<>>
  /\ producer = "done"
  /\ consumer' = "done"
  /\ UNCHANGED <<client, steps, refs, tokenVars, regVars, poolVars, producer, sent,
                 channel, delivered, endVars, flowVars>>

\* runner.Run returns or throws, with no host call outstanding; the producer
\* closes the channel.
RunFinishes ==
  /\ Looping /\ producer = "busy"
  /\ \A c \in Callback : call[c] \in {"idle", "done"}
  /\ producer' = "done"
  /\ runExc' \in BOOLEAN
  /\ UNCHANGED <<client, steps, refs, tokenVars, regVars, poolVars, sent, channel,
                 consumer, delivered, pending, outcome, flowVars>>

\* io.run() returns once both coroutines have ended.
IoRunReturns ==
  /\ Looping /\ producer = "done" /\ (Streaming => consumer # "loop")
  /\ Proceed
  /\ UNCHANGED <<client, refs, tokenVars, regVars, poolVars, streamVars>>

ReleaseRefs ==
  /\ At("release") /\ refs' = {}
  /\ Proceed
  /\ UNCHANGED <<client, tokenVars, regVars, poolVars, streamVars>>

Finish ==
  /\ At("finish")
  /\ Return(IF runExc \/ pending THEN "exception" ELSE "reply")
  /\ UNCHANGED <<client, refs, tokenVars, regVars, poolVars, streamVars>>
-----------------------------------------------------------------------------
\* nativeCancel: find the id and cancel, holding the registry's mutex until the
\* callbacks have been called.  A collector sends it when its emit was
\* cancelled, any other client whenever it likes.
NativeCancel ==
  /\ ~mu /\ cancelsLeft > 0
  /\ client = "flow" => collector = "cancelling"
  /\ cancelsLeft' = cancelsLeft - 1
  /\ IF handle
     THEN Cancel(UserThread) /\ mu' = TRUE /\ UNCHANGED flowVars
     ELSE /\ collector' = IF client = "flow" THEN "cancelled" ELSE collector
          /\ UNCHANGED <<tokenVars, mu, queue>>
  /\ UNCHANGED <<client, steps, refs, handle, poolVars, streamVars, endVars>>

NativeCancelReturns ==
  /\ mu /\ Idle(UserThread) /\ mu' = FALSE
  /\ collector' = IF client = "flow" THEN "cancelled" ELSE collector
  /\ UNCHANGED <<client, steps, refs, tokenVars, handle, cancelsLeft, poolVars,
                 streamVars, endVars, queue>>

\* nativeFreeCancel, called once the run's call is over.
NativeFreeCancel ==
  /\ steps = <<>> /\ handle /\ ~mu
  /\ handle' = FALSE
  /\ UNCHANGED <<client, steps, refs, tokenVars, mu, cancelsLeft, poolVars,
                 streamVars, endVars, flowVars>>

\* The collector of nativeTokenStream takes an item; the emit of a delta may
\* find the collection cancelled.
Collect ==
  /\ client = "flow" /\ collector = "taking" /\ queue # <<>>
  /\ queue' = Tail(queue)
  /\ IF Head(queue) = Done
     THEN collector' = IF outcome = "exception" THEN "failed" ELSE "completed"
     ELSE collector' \in {"taking", "cancelling"}
  /\ UNCHANGED <<client, steps, refs, tokenVars, regVars, poolVars, streamVars, endVars>>

PollCancelled(w) ==
  /\ WaitCancelled(w)
  /\ UNCHANGED <<client, steps, refs, regVars, poolVars, streamVars, endVars, flowVars>>
-----------------------------------------------------------------------------
SetUp == TakeToken \/ NewSignalRef \/ CreateEngine \/ RegisterTool \/ LoadAndBuild
TearDown == IoRunReturns \/ ReleaseRefs \/ Finish

JNext ==
  \/ SetUp \/ RunFinishes \/ TearDown
  \/ \E c \in Callback : HostPost(c) \/ HostOnCancel(c) \/ HostResume(c)
  \/ \E t \in Thread, c \in Callback : PostFlag(t, c)
  \/ \E w \in Worker : TakeJob(w) \/ ToolEnds(w) \/ WriteFlag(w)
  \/ StartToken \/ SendToken \/ ConsumeToken \/ ConsumerEnds
  \/ NativeCancel \/ NativeCancelReturns \/ NativeFreeCancel \/ Collect
  \/ \E w \in Waiter : PollCancelled(w)

\* The io loop runs what is ready, the model ends its answer, workers take and
\* finish jobs, a thread inside nativeCancel returns.  A host tool ends once it
\* sees the flag; before that it may wait for an approval that never comes.
JSpec ==
  /\ JInit /\ [][JNext]_jvars
  /\ WF_jvars(SetUp) /\ WF_jvars(RunFinishes) /\ WF_jvars(TearDown)
  /\ WF_jvars(\E c \in Callback : HostOnCancel(c))
  /\ \A c \in Callback : WF_jvars(HostResume(c))
  /\ \A t \in Thread : WF_jvars(\E c \in Callback : PostFlag(t, c))
  /\ \A w \in Worker :
       WF_jvars(TakeJob(w)) /\ WF_jvars(WriteFlag(w)) /\ WF_jvars(flag /\ ToolEnds(w))
  /\ WF_jvars(SendToken) /\ WF_jvars(ConsumeToken) /\ WF_jvars(ConsumerEnds)
  /\ WF_jvars(client = "flow" /\ NativeCancel) /\ WF_jvars(NativeCancelReturns)
  /\ WF_jvars(Collect)
  /\ \A w \in Waiter : WF_jvars(PollCancelled(w))
-----------------------------------------------------------------------------
\* A host tool that is queued or running finds its global reference and the
\* signal's alive, however cancellation and the end of the run interleave, and
\* no exit of the call leaves a reference behind.
RefsBracketRun ==
  /\ (\E w \in Worker : job[w].kind = "tool") \/ (\E i \in DOMAIN jobs : jobs[i].kind = "tool")
       => refs = {Signal} \cup 1 .. NTool
  /\ steps = <<>> => refs = {}

\* onToken sees the tokens in the order generated, each once; when the call
\* returns a reply it has seen all of them.
TokensWhole ==
  /\ delivered \o channel = [i \in 1 .. Len(delivered) + Len(channel) |-> i]
  /\ Streaming /\ outcome = "reply" => Len(delivered) = sent

\* Both workers run host tools and the write of the flag waits behind them.
PoolSaturated ==
  /\ ~flag /\ \A w \in Worker : job[w].kind = "tool"
  /\ \E i \in DOMAIN jobs : jobs[i] = FlagJob

\* A cancelled constrained run unwinds although its host tools wait for the
\* flag: the flag is written, the tools end, the call returns.  The one thing
\* that can keep it is a pool whose every worker runs such a tool.
CancelUnwinds ==
  client = "tools" /\ At("run") /\ cancelled ~> steps = <<>> \/ []PoolSaturated

\* The callback threw, so nothing empties the channel the producer sends to.
Abandoned == consumer = "stopped" /\ producer = "sending" /\ Len(channel) = Capacity

\* A streaming call returns, whether the run succeeds, throws or is cancelled,
\* unless its callback threw and the channel filled up; and the flow over it
\* ends: completed, failed or cancelled.
StreamReturns ==
  /\ Streaming /\ At("run") ~> steps = <<>> \/ []Abandoned
  /\ client = "flow" ~> collector \in {"completed", "failed", "cancelled"}
=============================================================================
