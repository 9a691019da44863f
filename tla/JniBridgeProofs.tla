-------------------------- MODULE JniBridgeProofs --------------------------
(***************************************************************************)
(* For any number of threads, callbacks, workers, tools and tokens: a      *)
(* cancellation callback is never lost and never called twice, a host tool *)
(* never runs without its references, and the callback of a streaming call *)
(* sees every token once and in order.                                     *)
(***************************************************************************)
EXTENDS JniBridge, SequenceTheorems, FiniteSetTheorems, TLAPS

-----------------------------------------------------------------------------
(* CancelSource and CancelToken by themselves.                             *)

LEMMA TokenType == Init /\ [][Next]_vars => []TypeOK
<1>1. Init => TypeOK
  <2>1. Init => cancelled \in BOOLEAN
    BY Zenon DEF Init
  <2>2. Init => /\ toFire \in [Thread -> SUBSET Callback]
                /\ runs \in [Callback -> Nat]
    BY DEF Init
  <2> QED
    BY <2>1, <2>2, Zenon DEF Init, TypeOK
<1>2. TypeOK /\ [Next]_vars => TypeOK'
  <2> SUFFICES ASSUME TypeOK, [Next]_vars PROVE TypeOK'
    OBVIOUS
  <2>1. ASSUME NEW t \in Thread, Cancel(t) PROVE TypeOK'
    BY <2>1, Zenon DEF TypeOK, Cancel
  <2>2. ASSUME NEW t \in Thread, NEW c \in Callback, OnCancel(t, c) PROVE TypeOK'
    BY <2>2, Zenon DEF TypeOK, OnCancel
  <2>3. ASSUME NEW t \in Thread, NEW c \in Callback, Fire(t, c) PROVE TypeOK'
    BY <2>3 DEF TypeOK, Fire
  <2>4. ASSUME NEW w \in Waiter, WaitCancelled(w) PROVE TypeOK'
    BY <2>4, Zenon DEF TypeOK, WaitCancelled
  <2>5. CASE UNCHANGED vars
    BY <2>5, Zenon DEF TypeOK, vars
  <2> QED
    BY <2>1, <2>2, <2>3, <2>4, <2>5, Zenon DEF Next
<1> QED
  BY <1>1, <1>2, PTL

LEMMA CancelStep ==
  ASSUME TypeOK, ExactlyOnePlace, NEW t \in Thread, Cancel(t)
  PROVE  ExactlyOnePlace'
<1>1. CASE cancelled
  BY <1>1, Zenon DEF Cancel, ExactlyOnePlace, Idle
<1>2. CASE ~cancelled
  BY <1>2 DEF TypeOK, Cancel, ExactlyOnePlace, Idle
<1> QED
  BY <1>1, <1>2, Zenon

LEMMA OnCancelStep ==
  ASSUME TypeOK, ExactlyOnePlace, NEW t \in Thread, NEW c \in Callback, OnCancel(t, c)
  PROVE  ExactlyOnePlace'
<1>1. CASE cancelled
  BY <1>1 DEF TypeOK, OnCancel, ExactlyOnePlace, Idle
<1>2. CASE ~cancelled
  BY <1>2 DEF TypeOK, OnCancel, ExactlyOnePlace, Idle
<1> QED
  BY <1>1, <1>2, Zenon

LEMMA TokenPlaces == Init /\ [][Next]_vars => []ExactlyOnePlace
<1>1. Init => ExactlyOnePlace
  BY DEF Init, ExactlyOnePlace, Idle
<1>2. TypeOK /\ ExactlyOnePlace /\ [Next]_vars => ExactlyOnePlace'
  <2> SUFFICES ASSUME TypeOK, ExactlyOnePlace, [Next]_vars PROVE ExactlyOnePlace'
    OBVIOUS
  <2>1. ASSUME NEW t \in Thread, NEW c \in Callback, Fire(t, c) PROVE ExactlyOnePlace'
    <3>1. cancelled /\ runs[c] = 0
      BY <2>1 DEF TypeOK, Fire, ExactlyOnePlace, Idle
    <3> QED
      BY <2>1, <3>1 DEF TypeOK, Fire, ExactlyOnePlace, Idle
  <2>2. ASSUME NEW w \in Waiter, WaitCancelled(w) PROVE ExactlyOnePlace'
    BY <2>2, Zenon DEF WaitCancelled, ExactlyOnePlace, Idle
  <2>3. CASE UNCHANGED vars
    BY <2>3, Zenon DEF vars, ExactlyOnePlace, Idle
  <2> QED
    BY <2>1, <2>2, <2>3, CancelStep, OnCancelStep, Zenon DEF Next
<1> QED
  BY <1>1, <1>2, TokenType, PTL

\* The state of the token keeps its type (cancel.cc, every operation).
THEOREM TypeCorrect == Spec => []TypeOK
BY TokenType, PTL DEF Spec

\* Every callback handed to OnCancel is, at any moment and whatever the threads
\* do, in exactly one of three places: the queue, one thread's list, or called
\* once (the critical sections of Cancel and OnCancel, cancel.cc:15-47).
THEOREM CallbackConserved == Spec => []ExactlyOnePlace
BY TokenPlaces, PTL DEF Spec

-----------------------------------------------------------------------------
(* The bridge drives the token only through its operations.                *)

LEMMA BridgeStep == [JNext]_jvars => [Next]_vars
<1> SUFFICES ASSUME [JNext]_jvars PROVE [Next]_vars
  OBVIOUS
<1>1. RunThread \in Thread /\ UserThread \in Thread
  BY ThreadAssumption, Zenon
<1>2. CASE SetUp \/ TearDown \/ RunFinishes
  BY <1>2, Zenon DEF SetUp, TakeToken, NewSignalRef, CreateEngine, RegisterTool, LoadAndBuild, TearDown,
    IoRunReturns, ReleaseRefs, Finish, RunFinishes, tokenVars, vars
<1>3. ASSUME NEW c \in Callback, HostPost(c) \/ HostOnCancel(c) \/ HostResume(c) PROVE [Next]_vars
  BY <1>1, <1>3, Zenon DEF HostPost, HostOnCancel, HostResume, Next, tokenVars, vars
<1>4. ASSUME NEW t \in Thread, NEW c \in Callback, PostFlag(t, c) PROVE [Next]_vars
  BY <1>4, Zenon DEF PostFlag, Next
<1>5. ASSUME NEW w \in Worker, TakeJob(w) \/ ToolEnds(w) \/ WriteFlag(w) PROVE [Next]_vars
  BY <1>5, Zenon DEF TakeJob, ToolEnds, WriteFlag, tokenVars, vars
<1>6. CASE StartToken \/ SendToken \/ ConsumeToken \/ ConsumerEnds
  BY <1>6, Zenon DEF StartToken, SendToken, ConsumeToken, ConsumerEnds, tokenVars, vars
<1>7. CASE NativeCancel
  BY <1>1, <1>7, Zenon DEF NativeCancel, Next, tokenVars, vars
<1>8. CASE NativeCancelReturns \/ NativeFreeCancel \/ Collect
  BY <1>8, Zenon DEF NativeCancelReturns, NativeFreeCancel, Collect, tokenVars, vars
<1>9. ASSUME NEW w \in Waiter, PollCancelled(w) PROVE [Next]_vars
  BY <1>9, Zenon DEF PollCancelled, Next
<1>10. CASE UNCHANGED jvars
  BY <1>10, Zenon DEF jvars, tokenVars, vars
<1> QED
  BY <1>2, <1>3, <1>4, <1>5, <1>6, <1>7, <1>8, <1>9, <1>10, Zenon DEF JNext

\* A run behind the JNI bridge is a behaviour of the cancel token: whatever the
\* Kotlin threads, the io loop and the pool do, each of their steps is one of the
\* token's critical sections or leaves it alone (agentflow_jni.cc: nativeCancel
\* and the host tool's OnCancel).
THEOREM BridgeRefinesToken == JSpec => Init /\ [][Next]_vars
<1>1. JInit => Init
  BY Zenon DEF JInit
<1> QED
  BY <1>1, BridgeStep, PTL DEF JSpec

\* So a callback a host tool registers during a run is never lost and never
\* called twice, although the cancel comes from another thread at any time.
THEOREM BridgeConservesCallbacks == JSpec => []ExactlyOnePlace
BY BridgeRefinesToken, TokenPlaces, PTL

-----------------------------------------------------------------------------
(* The references of a call.                                               *)

AnyJob == [kind : {"tool"}, call : Callback] \cup {FlagJob}

\* The suffixes of the four entry points.
FinishSteps == <<"finish">>
RunSteps == <<"run", "finish">>
LoadSteps == <<"load", "run", "finish">>
EngineSteps == <<"engine", "load", "run", "finish">>
ReleaseTools == <<"release", "finish">>
RunTools == <<"run", "release", "finish">>
LoadTools == <<"load", "run", "release", "finish">>
ToolsTools == <<"tools", "load", "run", "release", "finish">>
EngineTools == <<"engine", "tools", "load", "run", "release", "finish">>
SignalTools == <<"signal", "engine", "tools", "load", "run", "release", "finish">>

AllRefs == {Signal} \cup 1 .. NTool

\* What the call has still to do says which references it holds.
RefsByStep ==
  \/ steps = <<>> /\ refs = {}
  \/ steps = FinishSteps /\ refs = {}
  \/ /\ client # "tools" /\ refs = {}
     /\ steps \in {RunSteps, LoadSteps, EngineSteps, runAgent, runJsonWorkflowStreaming}
  \/ /\ client = "tools"
     /\ \/ steps \in {runJsonWorkflowConstrained, SignalTools} /\ refs = {}
        \/ steps = EngineTools /\ refs = {Signal}
        \/ steps = ToolsTools /\ \E n \in 0 .. NTool : refs = {Signal} \cup 1 .. n
        \/ steps \in {LoadTools, RunTools, ReleaseTools} /\ refs = AllRefs

Running(w, c) == job[w].kind = "tool" /\ job[w].call = c
Queued(i, c) == jobs[i].kind = "tool" /\ jobs[i].call = c

JobsTyped ==
  /\ jobs \in Seq(AnyJob) /\ job \in [Worker -> AnyJob \cup {None}]
  /\ call \in [Callback -> {"idle", "posted", "answered", "done"}]

\* A call waits for its result only while the run's io loop runs.
WaitsInRun(c) ==
  call[c] \in {"posted", "answered"} => client = "tools" /\ steps = RunTools /\ producer # "done"

\* A call has at most one job, queued or running, and only while it waits.
OneJob(c) ==
  /\ \A w \in Worker : Running(w, c) =>
       /\ call[c] = "posted"
       /\ \A v \in Worker : Running(v, c) => v = w
       /\ \A i \in 1 .. Len(jobs) : ~Queued(i, c)
  /\ \A i \in 1 .. Len(jobs) : Queued(i, c) =>
       /\ call[c] = "posted"
       /\ \A j \in 1 .. Len(jobs) : Queued(j, c) => j = i

CallsInRun == JobsTyped /\ \A c \in Callback : WaitsInRun(c) /\ OneJob(c)

RefsInv == RefsByStep /\ CallsInRun

\* What is left of each entry point after its first step.
LEMMA StepFacts ==
  /\ Head(FinishSteps) = "finish" /\ Tail(FinishSteps) = <<>> /\ FinishSteps # <<>>
  /\ Head(RunSteps) = "run" /\ Tail(RunSteps) = FinishSteps /\ RunSteps # <<>>
  /\ Head(LoadSteps) = "load" /\ Tail(LoadSteps) = RunSteps /\ LoadSteps # <<>>
  /\ Head(EngineSteps) = "engine" /\ Tail(EngineSteps) = LoadSteps /\ EngineSteps # <<>>
  /\ Head(runAgent) = "engine" /\ Tail(runAgent) = RunSteps /\ runAgent # <<>>
  /\ runJsonWorkflow = EngineSteps
  /\ Head(runJsonWorkflowStreaming) = "token" /\ Tail(runJsonWorkflowStreaming) = EngineSteps
  /\ runJsonWorkflowStreaming # <<>>
BY DEF FinishSteps, RunSteps, LoadSteps, EngineSteps, runAgent, runJsonWorkflow,
       runJsonWorkflowStreaming

LEMMA ToolStepFacts ==
  /\ Head(ReleaseTools) = "release" /\ Tail(ReleaseTools) = FinishSteps /\ ReleaseTools # <<>>
  /\ Head(RunTools) = "run" /\ Tail(RunTools) = ReleaseTools /\ RunTools # <<>>
  /\ Head(LoadTools) = "load" /\ Tail(LoadTools) = RunTools /\ LoadTools # <<>>
  /\ Head(ToolsTools) = "tools" /\ Tail(ToolsTools) = LoadTools /\ ToolsTools # <<>>
  /\ Head(EngineTools) = "engine" /\ Tail(EngineTools) = ToolsTools /\ EngineTools # <<>>
  /\ Head(SignalTools) = "signal" /\ Tail(SignalTools) = EngineTools /\ SignalTools # <<>>
  /\ Head(runJsonWorkflowConstrained) = "token"
  /\ Tail(runJsonWorkflowConstrained) = SignalTools /\ runJsonWorkflowConstrained # <<>>
BY DEF FinishSteps, ReleaseTools, RunTools, LoadTools, ToolsTools, EngineTools, SignalTools,
       runJsonWorkflowConstrained

\* The number of tools registered so far, as the loop over them counts it.
LEMMA RegisteredTools ==
  ASSUME NEW n \in Nat, NEW r, r = {Signal} \cup 1 .. n
  PROVE  Cardinality(r \ {Signal}) = n
<1>1. r \ {Signal} = 1 .. n
  BY DEF Signal
<1>2. Cardinality(1 .. n) = n
  BY FS_Interval
<1> QED
  BY <1>1, <1>2, Zenon

LEMMA NextTool ==
  ASSUME NEW n \in Nat, NEW r, r = {Signal} \cup 1 .. n
  PROVE  r \cup {n + 1} = {Signal} \cup 1 .. (n + 1)
OBVIOUS

\* Only a job that runs a host tool has a call, and it is one of the calls.
LEMMA ToolJobs ==
  ASSUME NEW x \in AnyJob \cup {None}, x.kind = "tool"
  PROVE  x.call \in Callback
BY DEF AnyJob, FlagJob, None

\* No job is added to a call whose state stays the same.
LEMMA OneJobFrame ==
  ASSUME NEW c \in Callback, OneJob(c), call'[c] = call[c],
         \A w \in Worker : Running(w, c)' => Running(w, c),
         \A i \in 1 .. Len(jobs') : Queued(i, c)' => i \in 1 .. Len(jobs) /\ Queued(i, c)
  PROVE  OneJob(c)'
BY Zenon DEF OneJob

\* A call that has no job may be in any state.
LEMMA NoJob ==
  ASSUME NEW c \in Callback,
         \A w \in Worker : ~Running(w, c)',
         \A i \in 1 .. Len(jobs') : ~Queued(i, c)'
  PROVE  OneJob(c)'
BY Zenon DEF OneJob

\* Steps that leave the pool and the calls alone.
LEMMA CallsFrame ==
  ASSUME CallsInRun, UNCHANGED <<jobs, job, call>>, \A c \in Callback : WaitsInRun(c)'
  PROVE  CallsInRun'
<1>1. JobsTyped'
  BY Zenon DEF CallsInRun, JobsTyped
<1>2. \A c \in Callback, w \in Worker : Running(w, c)' => Running(w, c)
  BY Zenon DEF Running
<1>3. \A c \in Callback, i \in 1 .. Len(jobs') :
        Queued(i, c)' => i \in 1 .. Len(jobs) /\ Queued(i, c)
  BY Zenon DEF Queued
<1>4. ASSUME NEW c \in Callback PROVE OneJob(c)'
  BY <1>2, <1>3, OneJobFrame, Zenon DEF CallsInRun
<1> QED
  BY <1>1, <1>4, Zenon DEF CallsInRun

LEMMA InitRefs == JInit => RefsInv
<1> SUFFICES ASSUME JInit PROVE RefsInv
  OBVIOUS
<1>1. RefsByStep
  BY StepFacts, Zenon DEF JInit, Entry, RefsByStep
<1>2. CallsInRun
  BY DEF JInit, CallsInRun, JobsTyped, WaitsInRun, OneJob, Running, None
<1> QED
  BY <1>1, <1>2, Zenon DEF RefsInv

LEMMA SetUpRefs == RefsInv /\ SetUp => RefsInv'
<1> SUFFICES ASSUME RefsInv, SetUp PROVE RefsInv'
  OBVIOUS
<1> USE StepFacts, ToolStepFacts
<1>1. ~At("run") /\ UNCHANGED <<client, jobs, job, call, producer>>
  BY Zenon DEF SetUp, TakeToken, NewSignalRef, CreateEngine, RegisterTool, LoadAndBuild, At,
    poolVars, streamVars
<1>2. CallsInRun'
  <2>1. \A c \in Callback : call[c] \notin {"posted", "answered"}
    BY <1>1, Zenon DEF RefsInv, CallsInRun, WaitsInRun, At
  <2>2. \A c \in Callback : WaitsInRun(c)'
    BY <1>1, <2>1, Zenon DEF WaitsInRun
  <2> QED
    BY <1>1, <2>2, CallsFrame, Zenon DEF RefsInv
<1> SUFFICES RefsByStep'
  BY <1>2, Zenon DEF RefsInv
<1>3. CASE Refuse
  BY <1>3, Zenon DEF Refuse, Return, RefsByStep
<1>4. CASE TakeToken /\ Proceed /\ UNCHANGED refs
  BY <1>1, <1>4, Zenon DEF TakeToken, Proceed, Advance, RefsInv, RefsByStep, At
<1>5. CASE NewSignalRef /\ Proceed /\ refs' = {Signal}
  BY <1>1, <1>5, Zenon DEF NewSignalRef, Proceed, Advance, RefsInv, RefsByStep, At
<1>6. CASE CreateEngine /\ Proceed /\ UNCHANGED refs
  <2>1. \/ client # "tools" /\ refs = {} /\ steps \in {EngineSteps, runAgent}
        \/ client = "tools" /\ refs = {Signal} /\ steps = EngineTools
    BY <1>6, Zenon DEF CreateEngine, RefsInv, RefsByStep, At
  <2>2. steps' = Tail(steps) /\ UNCHANGED <<client, refs>>
    BY <1>1, <1>6, Zenon DEF Proceed, Advance
  <2>3. {Signal} = {Signal} \cup 1 .. 0 /\ 0 \in 0 .. NTool
    BY ToolAssumption
  <2> QED
    BY <2>1, <2>2, <2>3, Zenon DEF RefsByStep
<1>7. CASE LoadAndBuild /\ Proceed /\ UNCHANGED refs
  <2>1. \/ client # "tools" /\ refs = {} /\ steps = LoadSteps
        \/ client = "tools" /\ refs = AllRefs /\ steps = LoadTools
    BY <1>7, Zenon DEF LoadAndBuild, RefsInv, RefsByStep, At
  <2>2. steps' = Tail(steps) /\ UNCHANGED <<client, refs>>
    BY <1>1, <1>7, Zenon DEF Proceed, Advance
  <2> QED
    BY <2>1, <2>2, Zenon DEF RefsByStep, AllRefs
<1>8. CASE RegisterTool /\ ~Refuse
  <2>1. steps = ToolsTools /\ client = "tools"
    BY <1>8, Zenon DEF RegisterTool, At, RefsInv, RefsByStep
  <2>2. PICK n \in 0 .. NTool : refs = {Signal} \cup 1 .. n
    BY <2>1, Zenon DEF RefsInv, RefsByStep
  <2>6. n \in Nat
    BY ToolAssumption
  <2>3. Cardinality(refs \ {Signal}) = n /\ n \in Nat
    BY <2>2, <2>6, RegisteredTools, Zenon
  <2>4. CASE n = NTool
    BY <1>1, <1>8, <2>1, <2>2, <2>3, <2>4, Zenon DEF RegisterTool, Proceed, Advance, RefsByStep, AllRefs
  <2>5. CASE n # NTool
    <3>1. refs' = refs \cup {n + 1} /\ UNCHANGED steps
      BY <1>8, <2>3, <2>5, Zenon DEF RegisterTool
    <3>2. refs' = {Signal} \cup 1 .. (n + 1)
      BY <2>2, <2>3, <3>1, NextTool, Zenon
    <3>3. n + 1 \in 0 .. NTool
      BY <2>5, ToolAssumption
    <3> QED
      BY <1>1, <2>1, <3>1, <3>2, <3>3, Zenon DEF RefsByStep
  <2> QED
    BY <2>4, <2>5, Zenon
<1> QED
  BY <1>3, <1>4, <1>5, <1>6, <1>7, <1>8, Zenon DEF SetUp, TakeToken, NewSignalRef,
    CreateEngine, LoadAndBuild

\* Leaving the run and releasing the references happens with no call waiting.
LEMMA TearDownRefs == RefsInv /\ TearDown => RefsInv'
<1> SUFFICES ASSUME RefsInv, TearDown PROVE RefsInv'
  OBVIOUS
<1> USE StepFacts, ToolStepFacts
<1>1. UNCHANGED <<client, jobs, job, call, producer>>
  BY Zenon DEF TearDown, IoRunReturns, ReleaseRefs, Finish, poolVars, streamVars
<1>2. \A c \in Callback : call[c] \notin {"posted", "answered"}
  BY Zenon DEF RefsInv, CallsInRun, WaitsInRun, TearDown, IoRunReturns, ReleaseRefs, Finish, At
<1>7. \A c \in Callback : WaitsInRun(c)'
  BY <1>1, <1>2, Zenon DEF WaitsInRun
<1>3. CallsInRun'
  BY <1>1, <1>7, CallsFrame, Zenon DEF RefsInv
<1> SUFFICES RefsByStep'
  BY <1>3, Zenon DEF RefsInv
<1>4. CASE IoRunReturns
  BY <1>1, <1>4, Zenon DEF IoRunReturns, Looping, Proceed, Advance, RefsInv, RefsByStep, At, AllRefs
<1>5. CASE ReleaseRefs
  BY <1>1, <1>5, ZenonT(30) DEF ReleaseRefs, Proceed, Advance, RefsInv, RefsByStep, At
<1>6. CASE Finish
  BY <1>1, <1>6, Zenon DEF Finish, Return, RefsInv, RefsByStep, At
<1> QED
  BY <1>4, <1>5, <1>6, Zenon DEF TearDown

LEMMA HostPostRefs ==
  ASSUME RefsInv, NEW c \in Callback, HostPost(c)
  PROVE  RefsInv'
<1>1. RefsByStep'
  BY Zenon DEF HostPost, RefsInv, RefsByStep
<1>2. client = "tools" /\ steps = RunTools /\ producer = "busy" /\ call[c] = "idle"
  BY StepFacts, ToolStepFacts, Zenon DEF HostPost, Looping, At, RefsInv, RefsByStep
<1>3. ToolJob(c) \in AnyJob /\ ToolJob(c).kind = "tool" /\ ToolJob(c).call = c
  BY Zenon DEF ToolJob, AnyJob
<1>4. /\ jobs' \in Seq(AnyJob) /\ Len(jobs') = Len(jobs) + 1 /\ Len(jobs) \in Nat
      /\ jobs'[Len(jobs) + 1] = ToolJob(c)
      /\ \A i \in 1 .. Len(jobs) : jobs'[i] = jobs[i]
  BY <1>3 DEF HostPost, RefsInv, CallsInRun, JobsTyped
<1>5. /\ call' \in [Callback -> {"idle", "posted", "answered", "done"}]
      /\ call'[c] = "posted" /\ \A d \in Callback : d # c => call'[d] = call[d]
  BY Zenon DEF HostPost, RefsInv, CallsInRun, JobsTyped
<1>6. UNCHANGED <<client, steps, job, producer>>
  BY Zenon DEF HostPost, streamVars
<1>7. \A w \in Worker : ~Running(w, c)
  BY <1>2, Zenon DEF RefsInv, CallsInRun, OneJob
<1>8. \A i \in 1 .. Len(jobs) : ~Queued(i, c)
  BY <1>2, Zenon DEF RefsInv, CallsInRun, OneJob
<1>9. \A d \in Callback, w \in Worker : Running(w, d)' <=> Running(w, d)
  BY <1>6, Zenon DEF Running
<1>10. \A d \in Callback, i \in 1 .. Len(jobs) : Queued(i, d)' <=> Queued(i, d)
  BY <1>4, Zenon DEF Queued
<1>11. \A d \in Callback, i \in Nat : i = Len(jobs) + 1 => (Queued(i, d)' <=> d = c)
  BY <1>3, <1>4, Zenon DEF Queued
<1>12. \A i \in 1 .. Len(jobs') : i \in Nat /\ (i \in 1 .. Len(jobs) \/ i = Len(jobs) + 1)
  BY <1>4
<1>13. ASSUME NEW d \in Callback, d # c PROVE OneJob(d)'
  <2>1. \A w \in Worker : Running(w, d)' => Running(w, d)
    BY <1>9, Zenon
  <2>2. \A i \in 1 .. Len(jobs') : Queued(i, d)' => i \in 1 .. Len(jobs) /\ Queued(i, d)
    BY <1>10, <1>11, <1>12, <1>13, Zenon
  <2> QED
    BY <1>5, <1>13, <2>1, <2>2, OneJobFrame, Zenon DEF RefsInv, CallsInRun
<1>14. OneJob(c)'
  <2>1. \A w \in Worker : ~Running(w, c)'
    BY <1>7, <1>9, Zenon
  <2>2. \A i \in 1 .. Len(jobs') : Queued(i, c)' => i = Len(jobs) + 1
    BY <1>8, <1>10, <1>12, Zenon
  <2> QED
    BY <1>5, <2>1, <2>2, Zenon DEF OneJob
<1>15. \A d \in Callback : WaitsInRun(d)'
  BY <1>2, <1>6, Zenon DEF WaitsInRun
<1>16. JobsTyped'
  BY <1>4, <1>5, <1>6, Zenon DEF RefsInv, CallsInRun, JobsTyped
<1>17. CallsInRun'
  BY <1>13, <1>14, <1>15, <1>16, Zenon DEF CallsInRun
<1> QED
  BY <1>1, <1>17, Zenon DEF RefsInv

\* The callback's job writes the flag: no call is involved.
LEMMA PostFlagRefs ==
  ASSUME RefsInv, NEW t \in Thread, NEW c \in Callback, PostFlag(t, c)
  PROVE  RefsInv'
<1>1. RefsByStep'
  BY Zenon DEF PostFlag, RefsInv, RefsByStep
<1>2. FlagJob \in AnyJob /\ FlagJob.kind = "flag"
  BY Zenon DEF FlagJob, AnyJob
<1>3. /\ jobs \in Seq(AnyJob) /\ jobs' = Append(jobs, FlagJob)
      /\ UNCHANGED <<client, steps, job, call, producer>>
  BY Zenon DEF PostFlag, RefsInv, CallsInRun, JobsTyped, streamVars
<1>4. /\ jobs' \in Seq(AnyJob) /\ Len(jobs') = Len(jobs) + 1 /\ Len(jobs) \in Nat
      /\ jobs'[Len(jobs) + 1] = FlagJob
      /\ \A i \in 1 .. Len(jobs) : jobs'[i] = jobs[i]
  BY <1>2, <1>3
<1>5. ASSUME NEW d \in Callback PROVE OneJob(d)'
  <2>1. \A w \in Worker : Running(w, d)' => Running(w, d)
    BY <1>3, Zenon DEF Running
  <2>2. \A i \in 1 .. Len(jobs') : i \in 1 .. Len(jobs) \/ jobs'[i] = FlagJob
    BY <1>4
  <2>3. \A i \in 1 .. Len(jobs') : Queued(i, d)' => i \in 1 .. Len(jobs) /\ Queued(i, d)
    BY <1>2, <1>4, <2>2, Zenon DEF Queued
  <2> QED
    BY <1>3, <2>1, <2>3, OneJobFrame, Zenon DEF RefsInv, CallsInRun
<1>6. \A d \in Callback : WaitsInRun(d)'
  BY <1>3, Zenon DEF RefsInv, CallsInRun, WaitsInRun
<1>7. JobsTyped'
  BY <1>3, <1>4, Zenon DEF RefsInv, CallsInRun, JobsTyped
<1> QED
  BY <1>1, <1>5, <1>6, <1>7, Zenon DEF RefsInv, CallsInRun

LEMMA TakeJobRefs ==
  ASSUME RefsInv, NEW w \in Worker, TakeJob(w)
  PROVE  RefsInv'
<1>1. RefsByStep'
  BY Zenon DEF TakeJob, RefsInv, RefsByStep
<1>2. /\ jobs' \in Seq(AnyJob) /\ Len(jobs') = Len(jobs) - 1 /\ Len(jobs) \in Nat \ {0}
      /\ \A i \in 1 .. Len(jobs') : jobs'[i] = jobs[i + 1]
      /\ jobs[1] \in AnyJob
  BY DEF TakeJob, RefsInv, CallsInRun, JobsTyped
<1>3. /\ job' \in [Worker -> AnyJob \cup {None}] /\ job'[w] = jobs[1]
      /\ \A v \in Worker : v # w => job'[v] = job[v]
  BY <1>2 DEF TakeJob, RefsInv, CallsInRun, JobsTyped
<1>4. UNCHANGED <<client, steps, call, producer>>
  BY Zenon DEF TakeJob, streamVars
<1>5. \A c \in Callback : ~Running(w, c)
  BY DEF TakeJob, None, Running
<1>6. \A c \in Callback : Running(w, c)' <=> Queued(1, c)
  BY <1>3, Zenon DEF Running, Queued
<1>7. \A c \in Callback, v \in Worker : v # w => (Running(v, c)' <=> Running(v, c))
  BY <1>3, Zenon DEF Running
<1>8. \A c \in Callback, i \in 1 .. Len(jobs') : Queued(i, c)' <=> Queued(i + 1, c)
  BY <1>2, Zenon DEF Queued
<1>9. \A i \in 1 .. Len(jobs') : i + 1 \in 1 .. Len(jobs) /\ i + 1 # 1
  BY <1>2
<1>10. 1 \in 1 .. Len(jobs)
  BY <1>2
<1>11. ASSUME NEW c \in Callback PROVE OneJob(c)'
  <2>1. OneJob(c) /\ call'[c] = call[c]
    BY <1>4, Zenon DEF RefsInv, CallsInRun
  <2>2. CASE Queued(1, c)
    <3>1. /\ call[c] = "posted" /\ \A v \in Worker : ~Running(v, c)
          /\ \A j \in 1 .. Len(jobs) : Queued(j, c) => j = 1
      BY <1>10, <2>1, <2>2, Zenon DEF OneJob
    <3>2. \A i \in 1 .. Len(jobs') : ~Queued(i, c)'
      BY <1>8, <1>9, <3>1, Zenon
    <3>3. \A v \in Worker : Running(v, c)' => v = w
      BY <1>7, <3>1, Zenon
    <3> QED
      BY <2>1, <3>1, <3>2, <3>3, Zenon DEF OneJob
  <2>3. CASE ~Queued(1, c)
    <3>1. \A v \in Worker : Running(v, c)' => Running(v, c)
      BY <1>6, <1>7, <2>3, Zenon
    <3>2. \A i, j \in 1 .. Len(jobs') : i + 1 = j + 1 => i = j
      BY <1>2
    <3> QED
      BY <1>8, <1>9, <2>1, <3>1, <3>2, Zenon DEF OneJob
  <2> QED
    BY <2>2, <2>3, Zenon
<1>12. \A c \in Callback : WaitsInRun(c)'
  BY <1>4, Zenon DEF RefsInv, CallsInRun, WaitsInRun
<1>13. JobsTyped'
  BY <1>2, <1>3, <1>4, Zenon DEF RefsInv, CallsInRun, JobsTyped
<1> QED
  BY <1>1, <1>11, <1>12, <1>13, Zenon DEF RefsInv, CallsInRun

LEMMA JobEndsRefs ==
  ASSUME RefsInv, NEW w \in Worker, ToolEnds(w) \/ WriteFlag(w)
  PROVE  RefsInv'
<1>1. RefsByStep'
  BY Zenon DEF ToolEnds, WriteFlag, RefsInv, RefsByStep
<1>2. /\ job' \in [Worker -> AnyJob \cup {None}] /\ job'[w] = None
      /\ \A v \in Worker : v # w => job'[v] = job[v]
  BY Zenon DEF ToolEnds, WriteFlag, RefsInv, CallsInRun, JobsTyped
<1>3. UNCHANGED <<client, steps, jobs, producer>>
  BY ZenonT(30) DEF ToolEnds, WriteFlag, streamVars
<1>4. \A c \in Callback : ~Running(w, c)'
  BY <1>2 DEF None, Running
<1>5. \A c \in Callback, v \in Worker : Running(v, c)' => Running(v, c)
  BY <1>2, <1>4, Zenon DEF Running
<1>6. \A c \in Callback, i \in 1 .. Len(jobs') :
        (Queued(i, c)' => Queued(i, c)) /\ i \in 1 .. Len(jobs)
  BY <1>3, Zenon DEF Queued
<1>7. CASE WriteFlag(w)
  <2>1. UNCHANGED call
    BY <1>7, Zenon DEF WriteFlag
  <2>2. \A c \in Callback : OneJob(c)'
    BY <1>5, <1>6, <2>1, OneJobFrame, Zenon DEF RefsInv, CallsInRun
  <2>3. \A c \in Callback : WaitsInRun(c)'
    BY <1>3, <2>1, Zenon DEF RefsInv, CallsInRun, WaitsInRun
  <2>4. JobsTyped'
    BY <1>2, <1>3, <2>1, Zenon DEF RefsInv, CallsInRun, JobsTyped
  <2> QED
    BY <1>1, <2>2, <2>3, <2>4, Zenon DEF RefsInv, CallsInRun
<1>8. CASE ToolEnds(w)
  <2>1. PICK c \in Callback : Running(w, c) /\ call' = [call EXCEPT ![c] = "answered"]
    <3>1. job[w] \in AnyJob \cup {None} /\ job[w].kind = "tool"
          /\ call' = [call EXCEPT ![job[w].call] = "answered"]
      BY <1>8, Zenon DEF ToolEnds, RefsInv, CallsInRun, JobsTyped
    <3>2. job[w].call \in Callback
      BY <3>1, ToolJobs, Zenon
    <3> QED
      BY <3>1, <3>2, Zenon DEF Running
  <2>2. /\ call' \in [Callback -> {"idle", "posted", "answered", "done"}]
        /\ call'[c] = "answered" /\ \A d \in Callback : d # c => call'[d] = call[d]
    BY <2>1, Zenon DEF RefsInv, CallsInRun, JobsTyped
  <2>3. call[c] = "posted" /\ (\A v \in Worker : Running(v, c) => v = w)
        /\ \A i \in 1 .. Len(jobs) : ~Queued(i, c)
    BY <2>1, Zenon DEF RefsInv, CallsInRun, OneJob
  <2>4. OneJob(c)'
    BY <1>4, <1>5, <1>6, <2>3, NoJob, Zenon
  <2>5. \A d \in Callback : d # c => OneJob(d)'
    BY <1>5, <1>6, <2>2, OneJobFrame, Zenon DEF RefsInv, CallsInRun
  <2>6. \A d \in Callback : WaitsInRun(d)'
    BY <1>3, <2>2, <2>3, Zenon DEF RefsInv, CallsInRun, WaitsInRun
  <2>7. JobsTyped'
    BY <1>2, <1>3, <2>2, Zenon DEF RefsInv, CallsInRun, JobsTyped
  <2> QED
    BY <1>1, <2>4, <2>5, <2>6, <2>7, Zenon DEF RefsInv, CallsInRun
<1> QED
  BY <1>7, <1>8, Zenon

LEMMA HostResumeRefs ==
  ASSUME RefsInv, NEW c \in Callback, HostResume(c)
  PROVE  RefsInv'
<1>1. RefsByStep'
  BY Zenon DEF HostResume, RefsInv, RefsByStep
<1>2. /\ call' \in [Callback -> {"idle", "posted", "answered", "done"}] /\ call[c] = "answered"
      /\ call'[c] = "done" /\ \A d \in Callback : d # c => call'[d] = call[d]
  BY Zenon DEF HostResume, RefsInv, CallsInRun, JobsTyped
<1>3. UNCHANGED <<client, steps, jobs, job, producer>>
  BY Zenon DEF HostResume, streamVars
<1>4. \A d \in Callback, w \in Worker : Running(w, d)' => Running(w, d)
  BY <1>3, Zenon DEF Running
<1>5. \A d \in Callback, i \in 1 .. Len(jobs') :
        (Queued(i, d)' => Queued(i, d)) /\ i \in 1 .. Len(jobs)
  BY <1>3, Zenon DEF Queued
<1>6. (\A w \in Worker : ~Running(w, c)) /\ \A i \in 1 .. Len(jobs) : ~Queued(i, c)
  BY <1>2, Zenon DEF RefsInv, CallsInRun, OneJob
<1>7. OneJob(c)'
  BY <1>4, <1>5, <1>6, NoJob, Zenon
<1>8. \A d \in Callback : d # c => OneJob(d)'
  BY <1>2, <1>4, <1>5, OneJobFrame, Zenon DEF RefsInv, CallsInRun
<1>9. \A d \in Callback : WaitsInRun(d)'
  BY <1>2, <1>3, Zenon DEF RefsInv, CallsInRun, WaitsInRun
<1>10. JobsTyped'
  BY <1>2, <1>3, Zenon DEF RefsInv, CallsInRun, JobsTyped
<1> QED
  BY <1>1, <1>7, <1>8, <1>9, <1>10, Zenon DEF RefsInv, CallsInRun

LEMMA RunRefs ==
  ASSUME RefsInv,
         UNCHANGED <<client, steps, refs, jobs, job, call>>,
         producer' = "done" => producer = "done" \/ RunFinishes
  PROVE  RefsInv'
<1>1. RefsByStep'
  BY Zenon DEF RefsInv, RefsByStep
<1>2. \A c \in Callback : WaitsInRun(c)'
  BY Zenon DEF RunFinishes, RefsInv, CallsInRun, WaitsInRun
<1>3. CallsInRun'
  BY <1>2, CallsFrame, Zenon DEF RefsInv
<1> QED
  BY <1>1, <1>3, Zenon DEF RefsInv

LEMMA StepRefs == RefsInv /\ [JNext]_jvars => RefsInv'
<1> SUFFICES ASSUME RefsInv, [JNext]_jvars PROVE RefsInv'
  OBVIOUS
<1>1. ASSUME NEW c \in Callback, HostOnCancel(c) PROVE RefsInv'
  BY <1>1, RunRefs, Zenon DEF HostOnCancel, streamVars
<1>2. CASE RunFinishes
  BY <1>2, RunRefs, Zenon DEF RunFinishes, poolVars
<1>3. CASE StartToken \/ SendToken \/ ConsumeToken \/ ConsumerEnds
  BY <1>3, RunRefs, Zenon DEF StartToken, SendToken, ConsumeToken, ConsumerEnds, poolVars
<1>4. CASE NativeCancel \/ NativeCancelReturns \/ NativeFreeCancel \/ Collect
  BY <1>4, RunRefs, Zenon DEF NativeCancel, NativeCancelReturns, NativeFreeCancel, Collect, poolVars,
    streamVars
<1>5. ASSUME NEW w \in Waiter, PollCancelled(w) PROVE RefsInv'
  BY <1>5, RunRefs, Zenon DEF PollCancelled, poolVars, streamVars
<1>6. CASE UNCHANGED jvars
  BY <1>6, RunRefs, Zenon DEF jvars, poolVars, streamVars
<1> QED
  BY <1>1, <1>2, <1>3, <1>4, <1>5, <1>6, SetUpRefs, TearDownRefs, HostPostRefs, PostFlagRefs,
    TakeJobRefs, JobEndsRefs, HostResumeRefs, Zenon DEF JNext

\* A host tool never runs, and is never queued to run, without its own and the
\* signal's global reference, and every exit of a JNI call has released all of
\* them (agentflow_jni.cc: NewGlobalRef, release_refs and the worker pool), for
\* any number of workers, tools and calls.
THEOREM ReferencesOutliveTools == JSpec => []RefsBracketRun
<1>1. RefsInv => RefsBracketRun
  <2> SUFFICES ASSUME RefsInv PROVE RefsBracketRun
    OBVIOUS
  <2>1. ASSUME NEW c \in Callback, call[c] = "posted" PROVE refs = AllRefs
    <3>1. client = "tools" /\ steps = RunTools
      BY <2>1, Zenon DEF RefsInv, CallsInRun, WaitsInRun
    <3>2. RefsByStep
      BY Zenon DEF RefsInv
    <3> QED
      BY <3>1, <3>2, StepFacts, ToolStepFacts, Zenon DEF RefsByStep
  <2>2. ASSUME NEW w \in Worker, job[w].kind = "tool" PROVE refs = AllRefs
    <3>1. job[w] \in AnyJob \cup {None}
      BY Zenon DEF RefsInv, CallsInRun, JobsTyped
    <3>2. PICK c \in Callback : Running(w, c)
      BY <2>2, <3>1, ToolJobs, Zenon DEF Running
    <3>3. call[c] = "posted"
      BY <3>2, Zenon DEF RefsInv, CallsInRun, OneJob
    <3> QED
      BY <2>1, <3>3, Zenon
  <2>3. ASSUME NEW i \in DOMAIN jobs, jobs[i].kind = "tool" PROVE refs = AllRefs
    <3>1. jobs \in Seq(AnyJob)
      BY Zenon DEF RefsInv, CallsInRun, JobsTyped
    <3>2. i \in 1 .. Len(jobs) /\ jobs[i] \in AnyJob
      BY <2>3, <3>1
    <3>3. PICK c \in Callback : Queued(i, c)
      BY <2>3, <3>2, ToolJobs, Zenon DEF Queued
    <3>4. call[c] = "posted"
      BY <3>2, <3>3, Zenon DEF RefsInv, CallsInRun, OneJob
    <3> QED
      BY <2>1, <3>4, Zenon
  <2>4. steps = <<>> => refs = {}
    BY StepFacts, ToolStepFacts DEF RefsInv, RefsByStep
  <2> QED
    BY <2>2, <2>3, <2>4, Zenon DEF RefsBracketRun, AllRefs
<1> QED
  BY <1>1, InitRefs, StepRefs, PTL DEF JSpec

-----------------------------------------------------------------------------
(* The tokens of a streaming call.                                         *)

StreamInv ==
  /\ sent \in Nat /\ channel \in Seq(Nat) /\ delivered \in Seq(Nat)
  /\ sent = Len(delivered) + Len(channel)
  /\ \A i \in 1 .. Len(delivered) : delivered[i] = i
  /\ \A i \in 1 .. Len(channel) : channel[i] = Len(delivered) + i
  /\ Streaming /\ consumer = "stopped" => pending
  /\ consumer \in {"loop", "stopped", "done"}
  /\ consumer = "done" => channel = <<>> /\ producer = "done"
  /\ Streaming /\ steps = FinishSteps => consumer # "loop"
  /\ Streaming /\ outcome = "reply" => consumer = "done"
  /\ steps # <<>> => outcome = "none"

LEMMA InitStream == JInit => StreamInv
<1> SUFFICES ASSUME JInit PROVE StreamInv
  OBVIOUS
<1>1. sent = 0 /\ channel = <<>> /\ delivered = <<>> /\ consumer = "loop" /\ outcome = "none"
  BY Zenon DEF JInit
<1>2. steps # FinishSteps
  BY StepFacts, ToolStepFacts, Zenon DEF JInit, Entry
<1> QED
  BY <1>1, <1>2 DEF StreamInv

\* The steps that neither send, consume nor end anything.
LEMMA IdleStream ==
  ASSUME StreamInv, UNCHANGED <<client, sent, channel, delivered, consumer, outcome>>,
         pending => pending', producer = "done" => producer' = "done",
         Streaming /\ steps' = FinishSteps => consumer # "loop",
         steps' = steps \/ steps # <<>>
  PROVE  StreamInv'
BY Zenon DEF StreamInv, Streaming

LEMMA SetUpStream ==
  ASSUME RefsInv, StreamInv, SetUp
  PROVE  StreamInv'
<1> USE StepFacts, ToolStepFacts
<1>1. UNCHANGED <<client, sent, channel, delivered, consumer, producer, pending>>
  BY ZenonT(30) DEF SetUp, TakeToken, NewSignalRef, CreateEngine, RegisterTool, LoadAndBuild,
    streamVars, Refuse, Return, Proceed, endVars
<1>2. steps # <<>>
  BY Zenon DEF SetUp, TakeToken, NewSignalRef, CreateEngine, RegisterTool, LoadAndBuild, At
<1>3. CASE Refuse
  BY <1>1, <1>2, <1>3, SMTT(30) DEF Refuse, Return, StreamInv, Streaming
<1>4. CASE UNCHANGED <<steps, outcome>>
  BY <1>1, <1>2, <1>4, IdleStream, Zenon DEF StreamInv
<1>5. CASE Proceed
  <2>1. steps' # FinishSteps
    BY <1>5, ZenonT(30) DEF Proceed, Advance, RefsInv, RefsByStep, SetUp, TakeToken, NewSignalRef,
      CreateEngine, RegisterTool, LoadAndBuild, At
  <2> QED
    BY <1>1, <1>2, <1>5, <2>1, IdleStream, SMTT(30) DEF Proceed, endVars
<1> QED
  BY <1>3, <1>4, <1>5, Zenon DEF SetUp, TakeToken, NewSignalRef, CreateEngine, RegisterTool,
    LoadAndBuild, endVars

LEMMA TearDownStream ==
  ASSUME RefsInv, StreamInv, TearDown
  PROVE  StreamInv'
<1> USE StepFacts, ToolStepFacts
<1>1. UNCHANGED <<client, sent, channel, delivered, consumer, producer, pending>>
  BY Zenon DEF TearDown, IoRunReturns, ReleaseRefs, Finish, streamVars, Return, Proceed, endVars
<1>2. steps # <<>>
  BY Zenon DEF TearDown, IoRunReturns, ReleaseRefs, Finish, Looping, At
<1>3. CASE IoRunReturns
  BY <1>1, <1>2, <1>3, IdleStream, SMTT(30) DEF IoRunReturns, Proceed, endVars
<1>4. CASE ReleaseRefs
  <2>1. ~Streaming
    BY <1>4, Zenon DEF ReleaseRefs, At, RefsInv, RefsByStep, Streaming
  <2> QED
    BY <1>1, <1>2, <1>4, <2>1, IdleStream, SMTT(30) DEF ReleaseRefs, Proceed, endVars
<1>5. CASE Finish
  <2>1. steps = FinishSteps /\ steps' = <<>> /\ (outcome' = "reply" => ~pending)
    BY <1>5, Zenon DEF Finish, Return, At, RefsInv, RefsByStep
  <2> QED
    BY <1>1, <2>1, Zenon DEF StreamInv, Streaming
<1> QED
  BY <1>3, <1>4, <1>5, Zenon DEF TearDown

LEMMA SendTokenStream ==
  ASSUME RefsInv, StreamInv, SendToken
  PROVE  StreamInv'
<1>1. steps # FinishSteps /\ steps # <<>> /\ consumer # "done"
  BY StepFacts, Zenon DEF SendToken, Looping, At, StreamInv
<1>2. sent' = sent + 1 /\ channel' = Append(channel, sent + 1)
  BY Zenon DEF SendToken
<1>3. /\ channel' \in Seq(Nat) /\ Len(channel') = Len(channel) + 1
      /\ channel'[Len(channel) + 1] = sent + 1
      /\ \A i \in 1 .. Len(channel) : channel'[i] = channel[i]
  BY <1>2 DEF StreamInv
<1>4. UNCHANGED <<client, steps, consumer, delivered, pending, outcome>>
  BY Zenon DEF SendToken, endVars
<1>5. ASSUME NEW i \in 1 .. Len(channel') PROVE channel'[i] = Len(delivered') + i
  <2>1. Len(channel) \in Nat /\ Len(delivered) \in Nat /\ sent = Len(delivered) + Len(channel)
    BY DEF StreamInv
  <2>2. CASE i = Len(channel) + 1
    BY <1>3, <1>4, <2>1, <2>2
  <2>3. CASE i \in 1 .. Len(channel)
    BY <1>3, <1>4, <2>3, Zenon DEF StreamInv
  <2> QED
    BY <1>3, <2>1, <2>2, <2>3
<1> QED
  BY <1>1, <1>2, <1>3, <1>4, <1>5 DEF StreamInv, Streaming

LEMMA ConsumeTokenStream ==
  ASSUME RefsInv, StreamInv, ConsumeToken
  PROVE  StreamInv'
<1>1. steps # FinishSteps /\ steps # <<>>
  BY StepFacts, Zenon DEF ConsumeToken, Looping, At
<1>2. /\ channel' \in Seq(Nat) /\ Len(channel') = Len(channel) - 1 /\ Len(channel) \in Nat \ {0}
      /\ Head(channel) = channel[1] /\ channel[1] \in Nat
      /\ \A i \in 1 .. Len(channel') : channel'[i] = channel[i + 1]
  BY DEF ConsumeToken, StreamInv
<1>3. channel[1] = Len(delivered) + 1
  BY <1>2 DEF StreamInv
<1>4. /\ delivered' \in Seq(Nat) /\ Len(delivered') = Len(delivered) + 1
      /\ delivered'[Len(delivered) + 1] = Len(delivered) + 1
      /\ \A i \in 1 .. Len(delivered) : delivered'[i] = delivered[i]
  BY <1>2, <1>3 DEF ConsumeToken, StreamInv
<1>5. UNCHANGED <<client, steps, sent, outcome, producer>>
  BY Zenon DEF ConsumeToken
<1>6. consumer' \in {"loop", "stopped"} /\ (consumer' = "stopped" => pending')
  BY DEF ConsumeToken
<1>7. \A i \in 1 .. Len(channel') : channel'[i] = Len(delivered') + i
  BY <1>2, <1>4 DEF StreamInv
<1>8. ASSUME NEW i \in 1 .. Len(delivered') PROVE delivered'[i] = i
  <2>1. Len(delivered) \in Nat
    BY DEF StreamInv
  <2>2. CASE i \in 1 .. Len(delivered)
    BY <1>4, <2>2, ZenonT(30) DEF StreamInv
  <2>3. CASE i = Len(delivered) + 1
    BY <1>4, <2>3, Zenon
  <2> QED
    BY <1>4, <2>1, <2>2, <2>3
<1>9. outcome' = "none"
  BY <1>1, <1>5, Zenon DEF StreamInv
<1> QED
  BY <1>1, <1>2, <1>4, <1>5, <1>6, <1>7, <1>8, <1>9 DEF StreamInv

LEMMA StepStream == RefsInv /\ StreamInv /\ [JNext]_jvars => StreamInv'
<1> SUFFICES ASSUME RefsInv, StreamInv, [JNext]_jvars PROVE StreamInv'
  OBVIOUS
<1> DEFINE Same == UNCHANGED <<client, sent, channel, delivered, consumer, producer, outcome, steps>>
<1>0. ASSUME Same, pending => pending' PROVE StreamInv'
  BY <1>0, IdleStream, Zenon DEF StreamInv
<1>1. ASSUME NEW c \in Callback, HostPost(c) \/ HostOnCancel(c) \/ HostResume(c) PROVE StreamInv'
  <2>1. Same
    BY <1>1, Zenon DEF HostPost, HostOnCancel, HostResume, streamVars, endVars
  <2>2. pending => pending'
    BY <1>1, ZenonT(30) DEF HostPost, HostOnCancel, HostResume, endVars
  <2> QED
    BY <1>0, <2>1, <2>2, Zenon
<1>2. ASSUME NEW t \in Thread, NEW c \in Callback, PostFlag(t, c) PROVE StreamInv'
  BY <1>2, <1>0, Zenon DEF PostFlag, streamVars, endVars
<1>3. ASSUME NEW w \in Worker, TakeJob(w) \/ ToolEnds(w) \/ WriteFlag(w) PROVE StreamInv'
  BY <1>3, <1>0 DEF TakeJob, ToolEnds, WriteFlag, streamVars, endVars
<1>4. CASE RunFinishes \/ StartToken
  BY <1>4, IdleStream, Zenon DEF RunFinishes, StartToken, StreamInv, endVars
<1>5. CASE ConsumerEnds
  <2>1. steps # FinishSteps /\ steps # <<>>
    BY <1>5, StepFacts, Zenon DEF ConsumerEnds, Looping, At
  <2> QED
    BY <1>5, <2>1, Zenon DEF ConsumerEnds, StreamInv, Streaming, endVars
<1>6. CASE NativeCancel \/ NativeCancelReturns \/ NativeFreeCancel \/ Collect
  BY <1>6, <1>0 DEF NativeCancel, NativeCancelReturns, NativeFreeCancel, Collect, streamVars,
    endVars
<1>7. ASSUME NEW w \in Waiter, PollCancelled(w) PROVE StreamInv'
  BY <1>7, <1>0, Zenon DEF PollCancelled, streamVars, endVars
<1>8. CASE UNCHANGED jvars
  BY <1>8, <1>0, Zenon DEF jvars, streamVars, endVars
<1> QED
  BY <1>1, <1>2, <1>3, <1>4, <1>5, <1>6, <1>7, <1>8, SetUpStream, TearDownStream,
    SendTokenStream, ConsumeTokenStream, Zenon DEF JNext

\* onToken of a streaming call is handed the tokens in the order generated, each
\* once, and a call that returns a reply has handed over all of them, whatever
\* the channel's capacity and wherever the callback throws (agentflow_jni.cc:
\* the sink, the consumer coroutine and the checks after io.run()).
THEOREM TokensDelivered == JSpec => []TokensWhole
<1>1. StreamInv => TokensWhole
  <2> SUFFICES ASSUME StreamInv PROVE TokensWhole
    OBVIOUS
  <2>1. delivered \o channel = [i \in 1 .. Len(delivered) + Len(channel) |-> i]
    <3> DEFINE s == delivered \o channel
    <3>1. delivered \in Seq(Nat) /\ channel \in Seq(Nat)
      BY Zenon DEF StreamInv
    <3>2. /\ s \in Seq(Nat) /\ Len(s) = Len(delivered) + Len(channel)
          /\ \A i \in 1 .. Len(s) :
               s[i] = IF i <= Len(delivered) THEN delivered[i] ELSE channel[i - Len(delivered)]
      BY <3>1, ConcatProperties, Zenon
    <3> HIDE DEF s
    <3>3. ASSUME NEW i \in 1 .. Len(s) PROVE s[i] = i
      <4>1. Len(delivered) \in Nat /\ Len(channel) \in Nat
        BY <3>1
      <4>2. CASE i <= Len(delivered)
        <5>1. i \in 1 .. Len(delivered)
          BY <3>2, <4>1, <4>2
        <5>2. delivered[i] = i
          BY <5>1, Zenon DEF StreamInv
        <5> QED
          BY <3>2, <4>2, <5>2, Zenon
      <4>3. CASE ~(i <= Len(delivered))
        <5>1. i - Len(delivered) \in 1 .. Len(channel)
          BY <3>2, <4>1, <4>3
        <5>2. channel[i - Len(delivered)] = Len(delivered) + (i - Len(delivered))
          BY <5>1, Zenon DEF StreamInv
        <5> QED
          BY <3>2, <4>1, <4>3, <5>2
      <4> QED
        BY <4>2, <4>3, Zenon
    <3>4. s = [i \in 1 .. Len(s) |-> i]
      BY <3>2, <3>3
    <3> QED
      BY <3>2, <3>4, Zenon DEF s
  <2>2. Streaming /\ outcome = "reply" => Len(delivered) = sent
    BY DEF StreamInv
  <2> QED
    BY <2>1, <2>2, Zenon DEF TokensWhole
<1>2. JSpec => [](RefsInv /\ StreamInv)
  BY InitRefs, StepRefs, InitStream, StepStream, PTL DEF JSpec
<1> QED
  BY <1>1, <1>2, PTL
=============================================================================
