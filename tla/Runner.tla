------------------------------- MODULE Runner -------------------------------
(***************************************************************************)
(* The graph runner of agentflow/core/runner.cc.                           *)
(*                                                                         *)
(* One thread runs the executor.  Run's own coroutine (the scheduler) and  *)
(* one coroutine per fired node share it: between two co_awaits a          *)
(* coroutine holds the thread.  `running' is the node coroutine that holds *)
(* it, NoNode when the scheduler or nobody does; the scheduler gives the   *)
(* thread up only while schedPc = "await".  CancelSource::Cancel comes     *)
(* from another thread, so it may fall between any two steps; the node     *)
(* coroutine reads the flag three times after its body returned, and each  *)
(* of these reads is a step of its own.                                    *)
(*                                                                         *)
(* A State value is abstracted to its lineage: the set of nodes whose      *)
(* bodies it went through, with Partial in it once a body returned early   *)
(* because of a cancellation.                                              *)
(*                                                                         *)
(* The process may crash at any point; a later process resumes from the    *)
(* last checkpoint that reached the disk.                                  *)
(***************************************************************************)
EXTENDS Graph

CONSTANTS Policy,       \* CheckpointPolicy: "Off", "AfterEachNode", "AfterTerminalNode"
          MaxFirings,   \* bound: a body that fired this often throws instead of returning
          MaxRestarts,  \* bound: processes started after the first one
          NoNode, None, Partial

ASSUME RunnerAssumption ==
  /\ Policy \in {"Off", "AfterEachNode", "AfterTerminalNode"}
  /\ MaxFirings \in Nat \ {0}
  /\ MaxRestarts \in Nat
  /\ NoNode \notin Node
  /\ Partial \notin Node
  /\ \A S \in SUBSET (Node \cup {Partial}) : S # None

VARIABLES
  \* NodeActivation, per node
  pending,      \* pending_inputs: the last element, or None when empty
  remaining,    \* remaining_all[g]
  anyFired,     \* any_fired[g]
  timesFired,   \* times_fired
  \* the node coroutine of each node
  phase,        \* "idle" iff not in_flight, else the step it is at
  data,         \* its input State until the body returned, then its output
  running,      \* the node coroutine holding the thread
  \* the scheduler
  schedPc,      \* "launch", "await", "returned", "threw", "down"
  next,         \* nodes collected by the drain loop and not launched yet
  signals,      \* messages in the done channel
  \* Runner::Impl
  cancelled, firstError, terminal,
  completed,    \* completed_node_ids_, as the number of occurrences of each id
  \* across processes
  checkpoint,   \* the file: None or [completed, state]
  inner,        \* TRUE in RunInner (a resumed run), FALSE in Run
  loaded,       \* ids in the checkpoint this process resumed from
  edgeFires,    \* edges this process emitted EdgeFire for
  restarts

activation == <<pending, remaining, anyFired, timesFired>>
coroutine  == <<phase, data, running>>
scheduler  == <<schedPc, next, signals>>
outcome    == <<cancelled, firstError, terminal, completed>>
process    == <<inner, loaded, restarts>>
vars == <<activation, coroutine, scheduler, outcome, checkpoint, process, edgeFires>>

Lineage  == SUBSET (Node \cup {Partial})
InFlight == {n \in Node : phase[n] # "idle"}
Finished == schedPc \in {"returned", "threw"}

TypeOK ==
  /\ pending \in [Node -> {None} \cup Lineage]
  /\ remaining \in [Node -> [Groups -> Int]]
  /\ anyFired \in [Node -> [Groups -> BOOLEAN]]
  /\ timesFired \in [Node -> Nat]
  /\ phase \in [Node -> {"idle", "body", "record", "fanout", "checkpoint", "retire"}]
  /\ data \in [Node -> Lineage]
  /\ running \in Node \cup {NoNode}
  /\ schedPc \in {"launch", "await", "returned", "threw", "down"}
  /\ next \in SUBSET Node
  /\ signals \in Nat
  /\ cancelled \in BOOLEAN
  /\ firstError \in Node \cup {NoNode}
  /\ terminal \in {None} \cup Lineage
  /\ completed \in [Node -> Nat]
  /\ checkpoint \in {None} \cup [completed : [Node -> Nat], state : Lineage]
  /\ inner \in BOOLEAN
  /\ loaded \in SUBSET Node
  /\ edgeFires \in SUBSET Edge
  /\ restarts \in Nat
-----------------------------------------------------------------------------
(* Readiness *)

\* InitActivations: remaining_all counts the edges of each group, whatever
\* their condition.
Baseline == [n \in Node |-> [g \in Groups |-> Cardinality(In(n, g))]]

NodeReady_AnyEdge(n) ==
  \A e \in Edge : To[e] = n /\ timesFired[n] = 0 =>
    remaining[n][Group[e]] < Cardinality(In(n, Group[e]))

\* NodeReady: every group that has an edge into n is satisfied; groups > 0
\* are vacuous until the node has fired once.
NodeReady(n) ==
  \A e \in Edge :
    To[e] = n /\ ~(Group[e] > 0 /\ timesFired[n] = 0) =>
      IF Cond[e] = "ALL" THEN remaining[n][Group[e]] <= 0
                         ELSE anyFired[n][Group[e]]

Ready_Reentrant == {n \in Node : pending[n] # None /\ NodeReady(n)}

\* What one pass of the drain loop collects.
Ready == {n \in Node : phase[n] = "idle" /\ pending[n] # None /\ NodeReady(n)}
-----------------------------------------------------------------------------
(* The scheduler *)

\* launch(): consume the merged input, reset the cycle groups, spawn the
\* coroutine.  co_spawn may run the body to its end inline (running' = n) or
\* leave it suspended.
Launch(n) ==
  /\ schedPc = "launch" /\ running = NoNode
  /\ n \in next
  /\ next' = next \ {n}
  /\ data' = [data EXCEPT ![n] = IF pending[n] = None THEN {} ELSE pending[n]]
  /\ pending' = [pending EXCEPT ![n] = None]
  /\ timesFired' = [timesFired EXCEPT ![n] = @ + 1]
  /\ remaining' = [remaining EXCEPT ![n] =
       [g \in Groups |-> IF g = 0 THEN remaining[n][g] ELSE Baseline[n][g]]]
  /\ anyFired' = [anyFired EXCEPT ![n] =
       [g \in Groups |-> IF g = 0 THEN anyFired[n][g] ELSE FALSE]]
  /\ phase' = [phase EXCEPT ![n] = "body"]
  /\ running' \in {n, NoNode}
  /\ UNCHANGED <<schedPc, signals, outcome, checkpoint, process, edgeFires>>

\* The drain loop found more nodes to launch.
Drain ==
  /\ schedPc = "launch" /\ running = NoNode /\ next = {}
  /\ Ready # {}
  /\ next' = Ready
  /\ UNCHANGED <<activation, coroutine, schedPc, signals, outcome, checkpoint,
                 process, edgeFires>>

\* Nothing is ready and nodes are in flight: wait on the done channel.
Await ==
  /\ schedPc = "launch" /\ running = NoNode /\ next = {}
  /\ Ready = {} /\ InFlight # {}
  /\ schedPc' = "await"
  /\ UNCHANGED <<activation, coroutine, next, signals, outcome, checkpoint,
                 process, edgeFires>>

\* A done message arrived.  An error with nothing in flight ends the run;
\* otherwise the loop goes back to draining, also after an error.
Wake ==
  /\ schedPc = "await" /\ running = NoNode
  /\ signals > 0
  /\ signals' = signals - 1
  /\ schedPc' = IF firstError # NoNode /\ InFlight = {} THEN "threw" ELSE "launch"
  /\ UNCHANGED <<activation, coroutine, next, outcome, checkpoint, process, edgeFires>>

Finish_NotDrained ==
  /\ schedPc = "launch" /\ running = NoNode /\ next = {} /\ Ready = {}
  /\ schedPc' = IF firstError # NoNode THEN "threw" ELSE "returned"
  /\ UNCHANGED <<activation, coroutine, next, signals, outcome, checkpoint,
                 process, edgeFires>>

\* Nothing ready, nothing in flight: rethrow the first error or return the
\* terminal state (an empty State when there is none).
Finish ==
  /\ schedPc = "launch" /\ running = NoNode /\ next = {}
  /\ Ready = {} /\ InFlight = {}
  /\ schedPc' = IF firstError # NoNode THEN "threw" ELSE "returned"
  /\ UNCHANGED <<activation, coroutine, next, signals, outcome, checkpoint,
                 process, edgeFires>>
-----------------------------------------------------------------------------
(* A node coroutine *)

\* The coroutine is at its body and can have the thread: it was spawned
\* inline, or the executor is free to resume it.
AtBody(n) ==
  /\ phase[n] = "body"
  /\ running = n \/ (running = NoNode /\ schedPc = "await")

\* node->Run returned.  A body that saw the cancellation returns normally but
\* its output may be partial.
BodyReturns(n) ==
  /\ AtBody(n)
  /\ cancelled \/ timesFired[n] < MaxFirings
  /\ \E taint \in IF cancelled THEN {{}, {Partial}} ELSE {{}} :
       data' = [data EXCEPT ![n] = @ \cup {n} \cup taint]
  /\ phase' = [phase EXCEPT ![n] = "record"]
  /\ running' = n
  /\ UNCHANGED <<activation, scheduler, outcome, checkpoint, process, edgeFires>>

\* node->Run threw: the first exception is kept, everything up to the
\* in-flight bookkeeping is skipped.
BodyThrows(n) ==
  /\ AtBody(n)
  /\ firstError' = IF firstError = NoNode THEN n ELSE firstError
  /\ phase' = [phase EXCEPT ![n] = "retire"]
  /\ running' = n
  /\ UNCHANGED <<activation, data, scheduler, cancelled, terminal, completed,
                 checkpoint, process, edgeFires>>

\* First look at the flag: note the completion.
Record(n) ==
  /\ running = n /\ phase[n] = "record"
  /\ completed' = IF cancelled THEN completed
                  ELSE [completed EXCEPT ![n] = @ + 1]
  /\ phase' = [phase EXCEPT ![n] = "fanout"]
  /\ UNCHANGED <<activation, data, running, scheduler, cancelled, firstError,
                 terminal, checkpoint, process, edgeFires>>

\* The edges of n into group g of m.
Between(n, m, g) == {e \in Out(n) : To[e] = m /\ Group[e] = g}

\* Deliver the output along every outgoing edge of n.
Deliver(n) ==
  /\ pending' = [m \in Node |-> IF \E e \in Out(n) : To[e] = m
                                THEN data[n] ELSE pending[m]]
  /\ remaining' = [m \in Node |-> [g \in Groups |->
       remaining[m][g]
         - Cardinality({e \in Between(n, m, g) : Cond[e] = "ALL"})]]
  /\ anyFired' = [m \in Node |-> [g \in Groups |->
       anyFired[m][g] \/ \E e \in Between(n, m, g) : Cond[e] = "ANY"]]
  /\ edgeFires' = edgeFires \cup Out(n)
  /\ terminal' = IF IsTerminal(n) THEN data[n] ELSE terminal
  /\ UNCHANGED timesFired

FanOut_IgnoresCancel(n) ==
  /\ running = n /\ phase[n] = "fanout"
  /\ Deliver(n)
  /\ phase' = [phase EXCEPT ![n] = "checkpoint"]
  /\ UNCHANGED <<data, running, scheduler, cancelled, firstError, completed,
                 checkpoint, process>>

\* Second look at the flag: fan out.  RunInner writes the checkpoint under
\* this same look, Run looks once more.
FanOut(n) ==
  /\ running = n /\ phase[n] = "fanout"
  /\ IF cancelled THEN UNCHANGED <<activation, terminal, edgeFires>>
                  ELSE Deliver(n)
  /\ phase' = [phase EXCEPT ![n] =
       IF inner /\ cancelled THEN "retire" ELSE "checkpoint"]
  /\ UNCHANGED <<data, running, scheduler, cancelled, firstError, completed,
                 checkpoint, process>>

WriteCheckpoint_IgnoresCancel(n) ==
  /\ running = n /\ phase[n] = "checkpoint"
  /\ checkpoint' \in {checkpoint, [completed |-> completed, state |-> data[n]]}
  /\ phase' = [phase EXCEPT ![n] = "retire"]
  /\ UNCHANGED <<activation, data, running, scheduler, outcome, process, edgeFires>>

\* MaybeWriteCheckpoint, after Run's third look at the flag.  A failed write
\* is ignored and leaves the previous file.
WriteCheckpoint(n) ==
  /\ running = n /\ phase[n] = "checkpoint"
  /\ IF \/ ~inner /\ cancelled
        \/ Policy = "Off"
        \/ Policy = "AfterTerminalNode" /\ ~IsTerminal(n)
     THEN UNCHANGED checkpoint
     ELSE checkpoint' \in {checkpoint, [completed |-> completed, state |-> data[n]]}
  /\ phase' = [phase EXCEPT ![n] = "retire"]
  /\ UNCHANGED <<activation, data, running, scheduler, outcome, process, edgeFires>>

Retire_NoSignal(n) ==
  /\ running = n /\ phase[n] = "retire"
  /\ phase' = [phase EXCEPT ![n] = "idle"]
  /\ data' = [data EXCEPT ![n] = {}]
  /\ running' = NoNode
  /\ UNCHANGED <<activation, scheduler, outcome, checkpoint, process, edgeFires>>

\* Clear in_flight and signal the scheduler.
Retire(n) ==
  /\ running = n /\ phase[n] = "retire"
  /\ phase' = [phase EXCEPT ![n] = "idle"]
  /\ data' = [data EXCEPT ![n] = {}]
  /\ running' = NoNode
  /\ signals' = signals + 1
  /\ UNCHANGED <<activation, schedPc, next, outcome, checkpoint, process, edgeFires>>
-----------------------------------------------------------------------------
(* The environment *)

\* CancelSource::Cancel on the run's token, from any thread.
Cancel ==
  /\ schedPc \in {"launch", "await"}
  /\ ~cancelled
  /\ cancelled' = TRUE
  /\ UNCHANGED <<activation, coroutine, scheduler, firstError, terminal,
                 completed, checkpoint, process, edgeFires>>

\* The process dies; only the checkpoint file survives.
Crash ==
  /\ schedPc \in {"launch", "await"}
  /\ restarts < MaxRestarts
  /\ schedPc' = "down"
  /\ phase' = [n \in Node |-> "idle"]
  /\ data' = [n \in Node |-> {}]
  /\ running' = NoNode
  /\ next' = {} /\ signals' = 0
  /\ UNCHANGED <<activation, outcome, checkpoint, process, edgeFires>>

\* A new process with a fresh Runner: everything the constructor and
\* InitActivations set, whichever entry point is then called.
FreshRunner ==
  /\ schedPc = "down" \/ Finished
  /\ restarts < MaxRestarts
  /\ restarts' = restarts + 1
  /\ schedPc' = "launch"
  /\ phase' = [n \in Node |-> "idle"]
  /\ data' = [n \in Node |-> {}]
  /\ running' = NoNode
  /\ signals' = 0
  /\ cancelled' = FALSE /\ firstError' = NoNode
  /\ edgeFires' = {}

\* Deliver the caller's State to the entry nodes.
SeedEntries ==
  /\ pending' = [n \in Node |-> IF n \in EntryNodeIds THEN {} ELSE None]
  /\ remaining' = Baseline
  /\ anyFired' = [n \in Node |-> [g \in Groups |-> FALSE]]
  /\ timesFired' = [n \in Node |-> 0]
  /\ completed' = [n \in Node |-> 0]
  /\ terminal' = None
  /\ loaded' = {}

\* Without a checkpoint the caller uses Run, which launches the entries, or
\* Resume with an empty checkpoint (cold start), which seeds them and leaves
\* the launching to RunInner's first drain.
RestartEmpty ==
  /\ FreshRunner /\ checkpoint = None
  /\ SeedEntries
  /\ inner' \in BOOLEAN
  /\ next' = IF inner' THEN {} ELSE EntryNodeIds
  /\ UNCHANGED checkpoint

\* The nodes a checkpoint lists.
Done(cp) == {n \in Node : cp.completed[n] > 0}

\* The edges along which Resume delivers the loaded state to m: out of a
\* completed node, unless m is completed itself.
Seeding(cp, m) == {e \in Edge : To[e] = m /\ m \notin Done(cp) /\ From[e] \in Done(cp)}

\* One element per decrement of remaining_all[g] of m: such an edge and an
\* occurrence of its source in the list.
Decrements(cp, m, g) ==
  UNION {{e} \X (1 .. cp.completed[From[e]]) :
           e \in {d \in Seeding(cp, m) : Group[d] = g /\ Cond[d] = "ALL"}}

SeededInput(cp, m) == IF Seeding(cp, m) # {} THEN cp.state ELSE None

ReplayedLog_Forgotten(cp) == [n \in Node |-> 0]

\* completed_node_ids_ after the replay.
ReplayedLog(cp) == cp.completed

\* Resume from a non-empty checkpoint: completed nodes count as fired once,
\* their successors get the loaded state.  It is also the result when nothing
\* is left to do.
Resume ==
  /\ FreshRunner /\ checkpoint # None
  /\ loaded' = Done(checkpoint)
  /\ completed' = ReplayedLog(checkpoint)
  /\ timesFired' = [n \in Node |-> IF n \in Done(checkpoint) THEN 1 ELSE 0]
  /\ pending' = [m \in Node |-> SeededInput(checkpoint, m)]
  /\ remaining' = [m \in Node |-> [g \in Groups |->
                     Baseline[m][g] - Cardinality(Decrements(checkpoint, m, g))]]
  /\ anyFired' = [m \in Node |-> [g \in Groups |->
                    \E e \in Seeding(checkpoint, m) : Group[e] = g /\ Cond[e] = "ANY"]]
  /\ terminal' = IF \/ \A n \in Done(checkpoint) : IsTerminal(n)
                    \/ Done(checkpoint) = Node
                 THEN checkpoint.state ELSE None
  /\ inner' = TRUE
  /\ next' = {}
  /\ UNCHANGED checkpoint
-----------------------------------------------------------------------------
\* Run on a fresh Runner: bootstrap.
Init ==
  /\ pending = [n \in Node |-> IF n \in EntryNodeIds THEN {} ELSE None]
  /\ remaining = Baseline
  /\ anyFired = [n \in Node |-> [g \in Groups |-> FALSE]]
  /\ timesFired = [n \in Node |-> 0]
  /\ phase = [n \in Node |-> "idle"]
  /\ data = [n \in Node |-> {}]
  /\ running = NoNode
  /\ schedPc = "launch"
  /\ next = EntryNodeIds
  /\ signals = 0
  /\ cancelled = FALSE /\ firstError = NoNode /\ terminal = None
  /\ completed = [n \in Node |-> 0]
  /\ checkpoint = None
  /\ inner = FALSE /\ loaded = {} /\ edgeFires = {} /\ restarts = 0

Scheduler == Drain \/ Await \/ Wake \/ Finish \/ \E n \in Node : Launch(n)

\* What a node coroutine does once its body is over.
AfterBody(n) == Record(n) \/ FanOut(n) \/ WriteCheckpoint(n) \/ Retire(n)

NodeStep(n) == BodyReturns(n) \/ BodyThrows(n) \/ AfterBody(n)

Environment == Cancel \/ Crash \/ RestartEmpty \/ Resume

\* The run is over and no further process is started.
Terminated == Finished /\ UNCHANGED vars

Next ==
  \/ Scheduler
  \/ \E n \in Node : NodeStep(n)
  \/ Environment
  \/ Terminated

Spec == Init /\ [][Next]_vars

\* Fairness: the executor runs whatever is runnable; a body ends once it is
\* cancelled (the Node contract), and nothing more is assumed of bodies.
CancelFairness ==
  /\ WF_vars(Scheduler)
  /\ \A n \in Node : WF_vars(AfterBody(n))
  /\ \A n \in Node : WF_vars(cancelled /\ (BodyReturns(n) \/ BodyThrows(n)))

FairSpec == Spec /\ CancelFairness
-----------------------------------------------------------------------------
(* Properties *)

\* An edge has delivered in this run: it fired, or its source was already
\* completed in the checkpoint the run resumed from.
Delivered(e) == e \in edgeFires \/ From[e] \in loaded

\* An ALL fan-in drains all its edges: launch() starts a node only when every
\* one of its group-0 ALL edges has delivered, also when the run resumed from a
\* checkpoint (NodeReady with the counters of InitActivations and Resume).
JoinWaitsForAll ==
  \A n \in InFlight : \A e \in In(n, 0) : Cond[e] = "ALL" => Delivered(e)

\* In a graph of ALL edges without cycle groups a node is launched at most once per run, and never when the
\* checkpoint resumed from lists it as completed.
FiresOnce ==
  /\ \A n \in Node : timesFired[n] <= 1
  /\ loaded \cap InFlight = {}

\* The output of a body that returned early on cancellation never becomes an
\* input of another node, the run's result or a checkpoint: the three looks at
\* the cancel flag cover every place that uses it.
PartialStaysPrivate ==
  /\ \A n \in Node : pending[n] # None => Partial \notin pending[n]
  /\ terminal # None => Partial \notin terminal
  /\ checkpoint # None => Partial \notin checkpoint.state

\* A checkpoint on disk is a consistent cut of an ALL graph: whenever it lists a
\* node it lists all its predecessors, so Resume never skips a node whose input
\* it does not have; and it was produced by a node it lists.
CheckpointIsCut ==
  checkpoint # None =>
    /\ \A n \in Done(checkpoint) : Preds(n) \subseteq Done(checkpoint)
    /\ \E n \in Done(checkpoint) : n \in checkpoint.state

\* Every node a checkpoint lists had delivered along its outgoing edges when the
\* checkpoint was written: the hook runs after the fan-out, and a cancellation
\* that suppressed the fan-out suppresses the checkpoint too.
CheckpointAfterFanOut ==
  [][checkpoint' # checkpoint =>
       \A e \in Edge : checkpoint'.completed[From[e]] > 0 => Delivered(e)]_vars

\* A run that returns normally without having been cancelled has completed
\* every node, and returns what a terminal node produced.
ReturnMeansDone ==
  schedPc = "returned" /\ ~cancelled =>
    /\ \A n \in Node : completed[n] > 0
    /\ terminal # None /\ \E n \in terminal : n \in Node /\ IsTerminal(n)

\* The reentrancy guard: launch() never starts a node whose previous coroutine
\* is still in flight, although `next' is a snapshot and bodies may run inline
\* between the snapshot and the launch.
NoReentry ==
  [][\A n \in Node : timesFired'[n] > timesFired[n] /\ restarts' = restarts
       => phase[n] = "idle"]_vars

\* A cancelled run comes to its end (or its process dies).
CancelEndsRun == cancelled ~> schedPc \in {"returned", "threw", "down"}
=============================================================================
