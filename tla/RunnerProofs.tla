---------------------------- MODULE RunnerProofs ----------------------------
(***************************************************************************)
(* What the Runner guarantees for every graph, across cancellations,       *)
(* errors, crashes and resumes: type correctness, the confinement of       *)
(* partial outputs, the reentrancy guard, and fan-out before checkpoint.   *)
(***************************************************************************)
EXTENDS Runner, FiniteSetTheorems, TLAPS

\* A set of edges has a natural number as its cardinality.
LEMMA EdgeSetFinite ==
  ASSUME NEW S \in SUBSET Edge
  PROVE  IsFiniteSet(S) /\ Cardinality(S) \in Nat
BY GraphAssumption, FS_Subset, FS_CardinalityType

\* remaining_all starts as a count per node and group.
LEMMA BaselineType == Baseline \in [Node -> [Groups -> Nat]]
<1>1. \A n \in Node, g \in Groups : Cardinality(In(n, g)) \in Nat
  BY EdgeSetFinite DEF In
<1> QED
  BY <1>1 DEF Baseline

LEMMA FiniteInterval ==
  ASSUME NEW k \in Nat
  PROVE  IsFiniteSet(1 .. k) /\ Cardinality(1 .. k) = k
BY FS_Interval

\* A family indexed by a finite set is finite.
LEMMA FiniteFamily ==
  ASSUME NEW S, IsFiniteSet(S), NEW f, f = [x \in S |-> f[x]]
  PROVE  IsFiniteSet({f[x] : x \in S})
<1>1. f \in Surjection(S, {f[x] : x \in S})
  BY DEF Surjection
<1> QED
  BY <1>1, FS_Surjection

\* Resume decrements each counter finitely often.
LEMMA DecrementsFinite ==
  ASSUME NEW cp \in [completed : [Node -> Nat], state : Lineage],
         NEW m \in Node, NEW g \in Groups
  PROVE  Cardinality(Decrements(cp, m, g)) \in Nat
<1> DEFINE S == {d \in Seeding(cp, m) : Group[d] = g /\ Cond[d] = "ALL"}
           f == [e \in S |-> {e} \X (1 .. cp.completed[From[e]])]
           F == {f[e] : e \in S}
<1>1. S \in SUBSET Edge
  BY DEF Seeding
<1>2. IsFiniteSet(S)
  BY <1>1, EdgeSetFinite
<1>3. \A e \in S : cp.completed[From[e]] \in Nat
  BY <1>1, GraphAssumption DEF EndpointsKnown
<1>4. \A e \in S : f[e] = {e} \X (1 .. cp.completed[From[e]])
  OBVIOUS
<1>5. Decrements(cp, m, g) = UNION F
  BY <1>4, Zenon DEF Decrements
<1> HIDE DEF S
<1>6. IsFiniteSet(F)
  <2>1. f = [e \in S |-> f[e]]
    OBVIOUS
  <2> HIDE DEF f
  <2> QED
    BY <1>2, <2>1, FiniteFamily
<1>7. \A e \in S : IsFiniteSet(f[e])
  <2> TAKE e \in S
  <2> DEFINE k == cp.completed[From[e]]
  <2>1. f[e] = {e} \X (1 .. k)
    BY <1>4
  <2>2. k \in Nat
    BY <1>3
  <2> HIDE DEF k, f
  <2>3. IsFiniteSet({e}) /\ IsFiniteSet(1 .. k)
    BY <2>2, FiniteInterval, FS_Singleton, Zenon
  <2>4. IsFiniteSet({e} \X (1 .. k))
    BY <2>3, FS_Product, Zenon
  <2> QED
    BY <2>1, <2>4
<1> HIDE DEF f
<1>8. IsFiniteSet(UNION F)
  <2>1. \A T \in F : IsFiniteSet(T)
    BY <1>7
  <2> HIDE DEF F
  <2> QED
    BY <1>6, <2>1, FS_UNION
<1> QED
  BY <1>5, <1>8, FS_CardinalityType

\* Updating one entry of a function keeps its type.
LEMMA ExceptType ==
  ASSUME NEW D, NEW R, NEW f \in [D -> R], NEW d \in D, NEW v \in R
  PROVE  [f EXCEPT ![d] = v] \in [D -> R]
OBVIOUS
-----------------------------------------------------------------------------
(* Type correctness *)

LEMMA InitType == Init => TypeOK
<1> SUFFICES ASSUME Init PROVE TypeOK
  OBVIOUS
<1>1. remaining \in [Node -> [Groups -> Int]]
  BY BaselineType DEF Init
<1>2. anyFired \in [Node -> [Groups -> BOOLEAN]]
  BY DEF Init
<1>3. pending \in [Node -> {None} \cup Lineage]
  BY DEF Init, Lineage
<1> QED
  BY <1>1, <1>2, <1>3, Zenon DEF Init, TypeOK, Lineage, EntryNodeIds

LEMMA SchedulerType == TypeOK /\ Scheduler => TypeOK'
<1> SUFFICES ASSUME TypeOK, Scheduler PROVE TypeOK'
  OBVIOUS
<1> USE DEF activation, coroutine, scheduler, outcome, process
<1>1. CASE Drain \/ Await \/ Wake \/ Finish
  BY <1>1 DEF TypeOK, Drain, Await, Wake, Finish, Ready
<1>2. ASSUME NEW n \in Node, Launch(n) PROVE TypeOK'
  <2>1. remaining' \in [Node -> [Groups -> Int]]
    <3> DEFINE v == [g \in Groups |-> IF g = 0 THEN remaining[n][g] ELSE Baseline[n][g]]
    <3>1. v \in [Groups -> Int]
      BY BaselineType DEF TypeOK
    <3>2. remaining' = [remaining EXCEPT ![n] = v]
      BY <1>2 DEF Launch
    <3> QED
      BY <3>1, <3>2, ExceptType DEF TypeOK
  <2>2. anyFired' \in [Node -> [Groups -> BOOLEAN]]
    <3> DEFINE v == [g \in Groups |-> IF g = 0 THEN anyFired[n][g] ELSE FALSE]
    <3>1. v \in [Groups -> BOOLEAN]
      <4>1. \A g \in Groups : anyFired[n][g] \in BOOLEAN
        BY DEF TypeOK
      <4> QED
        BY <4>1, Zenon
    <3>2. anyFired' = [anyFired EXCEPT ![n] = v]
      BY <1>2 DEF Launch
    <3> QED
      BY <3>1, <3>2, ExceptType, Zenon DEF TypeOK
  <2>3. pending' \in [Node -> {None} \cup Lineage]
    BY <1>2 DEF TypeOK, Launch
  <2>4. data' \in [Node -> Lineage]
    BY <1>2 DEF TypeOK, Launch, Lineage
  <2>5. /\ timesFired' \in [Node -> Nat]
        /\ phase' \in [Node -> {"idle", "body", "record", "fanout", "checkpoint", "retire"}]
        /\ running' \in Node \cup {NoNode}
        /\ next' \in SUBSET Node
    BY <1>2 DEF TypeOK, Launch
  <2> QED
    BY <1>2, <2>1, <2>2, <2>3, <2>4, <2>5, Zenon DEF TypeOK, Launch
<1> QED
  BY <1>1, <1>2 DEF Scheduler

LEMMA NodeStepType ==
  ASSUME NEW n \in Node
  PROVE  TypeOK /\ NodeStep(n) => TypeOK'
<1> SUFFICES ASSUME TypeOK, NodeStep(n) PROVE TypeOK'
  OBVIOUS
<1> USE DEF activation, coroutine, scheduler, outcome, process
<1>1. CASE BodyReturns(n)
  <2>1. data' \in [Node -> Lineage]
    BY <1>1 DEF TypeOK, BodyReturns, Lineage
  <2> QED
    BY <1>1, <2>1 DEF TypeOK, BodyReturns
<1>2. CASE BodyThrows(n)
  BY <1>2 DEF TypeOK, BodyThrows
<1>3. CASE Record(n)
  BY <1>3 DEF TypeOK, Record
<1>4. CASE FanOut(n)
  <2>1. CASE cancelled
    BY <1>4, <2>1 DEF TypeOK, FanOut
  <2>2. CASE ~cancelled
    <3> DEFINE c(m, g) == Cardinality({e \in Between(n, m, g) : Cond[e] = "ALL"})
               a(m, g) == \E e \in Between(n, m, g) : Cond[e] = "ANY"
    <3>1. \A m \in Node, g \in Groups : c(m, g) \in Nat
      BY EdgeSetFinite DEF Between, Out
    <3>2. /\ remaining' = [m \in Node |-> [g \in Groups |-> remaining[m][g] - c(m, g)]]
          /\ anyFired' = [m \in Node |-> [g \in Groups |-> anyFired[m][g] \/ a(m, g)]]
      BY <1>4, <2>2, Zenon DEF FanOut, Deliver
    <3> HIDE DEF c, a
    <3>3. \A m \in Node : [g \in Groups |-> remaining[m][g] - c(m, g)] \in [Groups -> Int]
      BY <3>1 DEF TypeOK
    <3>4. remaining' \in [Node -> [Groups -> Int]]
      BY <3>2, <3>3
    <3>5. anyFired' \in [Node -> [Groups -> BOOLEAN]]
      BY <3>2 DEF TypeOK
    <3>6. pending' \in [Node -> {None} \cup Lineage] /\ terminal' \in {None} \cup Lineage
      <4>1. /\ data[n] \in Lineage
            /\ terminal \in {None} \cup Lineage
            /\ \A m \in Node : pending[m] \in {None} \cup Lineage
        BY DEF TypeOK
      <4>2. pending' = [m \in Node |-> IF \E e \in Out(n) : To[e] = m
                                       THEN data[n] ELSE pending[m]]
        BY <1>4, <2>2 DEF FanOut, Deliver
      <4>3. terminal' = IF IsTerminal(n) THEN data[n] ELSE terminal
        BY <1>4, <2>2 DEF FanOut, Deliver
      <4> QED
        BY <4>1, <4>2, <4>3
    <3> QED
      BY <1>4, <2>2, <3>4, <3>5, <3>6 DEF TypeOK, FanOut, Deliver, Out
  <2> QED
    BY <2>1, <2>2 DEF TypeOK
<1>5. CASE WriteCheckpoint(n)
  BY <1>5 DEF TypeOK, WriteCheckpoint
<1>6. CASE Retire(n)
  BY <1>6 DEF TypeOK, Retire, Lineage
<1> QED
  BY <1>1, <1>2, <1>3, <1>4, <1>5, <1>6 DEF NodeStep, AfterBody

LEMMA FreshRunnerType ==
  TypeOK /\ FreshRunner =>
    /\ phase' \in [Node -> {"idle", "body", "record", "fanout", "checkpoint", "retire"}]
    /\ data' \in [Node -> Lineage]
    /\ running' \in Node \cup {NoNode}
    /\ schedPc' \in {"launch", "await", "returned", "threw", "down"}
    /\ signals' \in Nat
    /\ cancelled' \in BOOLEAN
    /\ firstError' \in Node \cup {NoNode}
    /\ edgeFires' \in SUBSET Edge
    /\ restarts' \in Nat
<1> SUFFICES ASSUME TypeOK, FreshRunner PROVE FreshRunnerType!2
  OBVIOUS
<1>1. phase' \in [Node -> {"idle", "body", "record", "fanout", "checkpoint", "retire"}]
  BY DEF FreshRunner
<1>2. data' \in [Node -> Lineage]
  BY DEF FreshRunner, Lineage
<1>3. cancelled' \in BOOLEAN /\ edgeFires' \in SUBSET Edge
  BY Zenon DEF FreshRunner
<1>4. restarts' \in Nat
  BY DEF TypeOK, FreshRunner
<1> QED
  BY <1>1, <1>2, <1>3, <1>4 DEF FreshRunner

LEMMA EnvironmentType == TypeOK /\ Environment => TypeOK'
<1> SUFFICES ASSUME TypeOK, Environment PROVE TypeOK'
  OBVIOUS
<1> USE DEF activation, coroutine, scheduler, outcome, process
<1>1. CASE Cancel
  BY <1>1 DEF TypeOK, Cancel
<1>2. CASE Crash
  BY <1>2 DEF TypeOK, Crash, Lineage
<1>3. CASE RestartEmpty
  <2>1. remaining' \in [Node -> [Groups -> Int]]
    BY <1>3, BaselineType DEF RestartEmpty, SeedEntries
  <2>2. anyFired' \in [Node -> [Groups -> BOOLEAN]]
    BY <1>3 DEF RestartEmpty, SeedEntries
  <2>3. pending' \in [Node -> {None} \cup Lineage]
    BY <1>3 DEF RestartEmpty, SeedEntries, Lineage
  <2>4. /\ completed' \in [Node -> Nat] /\ timesFired' \in [Node -> Nat]
        /\ loaded' \in SUBSET Node /\ terminal' \in {None} \cup Lineage
    BY <1>3 DEF RestartEmpty, SeedEntries
  <2>5. next' \in SUBSET Node /\ inner' \in BOOLEAN /\ checkpoint' = checkpoint
    BY <1>3, SMTT(30) DEF RestartEmpty, EntryNodeIds
  <2> QED
    BY <1>3, <2>1, <2>2, <2>3, <2>4, <2>5, FreshRunnerType DEF TypeOK, RestartEmpty
<1>4. CASE Resume
  <2>1. checkpoint \in [completed : [Node -> Nat], state : Lineage]
    BY <1>4 DEF TypeOK, Resume
  <2>2. remaining' \in [Node -> [Groups -> Int]]
    <3>1. \A m \in Node, g \in Groups :
            Cardinality(Decrements(checkpoint, m, g)) \in Nat
      BY <2>1, DecrementsFinite
    <3> QED
      BY <1>4, <3>1, BaselineType DEF Resume
  <2>3. anyFired' \in [Node -> [Groups -> BOOLEAN]]
    BY <1>4 DEF Resume
  <2>4. pending' \in [Node -> {None} \cup Lineage]
    BY <1>4, <2>1, SMTT(30) DEF Resume, SeededInput
  <2>5. /\ completed' \in [Node -> Nat]
        /\ timesFired' \in [Node -> Nat]
        /\ loaded' \in SUBSET Node
        /\ terminal' \in {None} \cup Lineage
    BY <1>4, <2>1 DEF Resume, Done, ReplayedLog
  <2>6. next' \in SUBSET Node /\ inner' \in BOOLEAN /\ checkpoint' = checkpoint
    BY <1>4 DEF Resume
  <2> QED
    BY <1>4, <2>2, <2>3, <2>4, <2>5, <2>6, FreshRunnerType, SMTT(30) DEF TypeOK, Resume
<1> QED
  BY <1>1, <1>2, <1>3, <1>4 DEF Environment

LEMMA TypeStep == TypeOK /\ [Next]_vars => TypeOK'
<1> SUFFICES ASSUME TypeOK, [Next]_vars PROVE TypeOK'
  OBVIOUS
<1>1. CASE UNCHANGED vars
  BY <1>1 DEF TypeOK, vars, activation, coroutine, scheduler, outcome, process
<1>2. CASE Terminated
  BY <1>1, <1>2 DEF Terminated
<1> QED
  BY <1>1, <1>2, SchedulerType, NodeStepType, EnvironmentType DEF Next

\* The variables of the Runner keep their types: counters stay numbers whatever
\* edges fire, the done channel never goes below zero, a checkpoint on disk is
\* always a complete record (runner.cc, every action).
THEOREM TypeCorrect == Spec => []TypeOK
BY InitType, TypeStep, PTL DEF Spec
-----------------------------------------------------------------------------
(* Partial outputs *)

\* A tainted coroutine implies a cancelled run, and a resumed run never takes a
\* tainted output past its fan-out.
TaintInv ==
  /\ PartialStaysPrivate
  /\ \A n \in Node : Partial \in data[n] =>
       cancelled /\ ~(inner /\ phase[n] = "checkpoint")

LEMMA TaintStep == TypeOK /\ TaintInv /\ [Next]_vars => TaintInv'
<1> SUFFICES ASSUME TypeOK, TaintInv, [Next]_vars PROVE TaintInv'
  OBVIOUS
<1> USE RunnerAssumption
    DEF TaintInv, PartialStaysPrivate, activation, coroutine, scheduler, outcome, process
<1>1. CASE Drain \/ Await \/ Wake \/ Finish
  BY <1>1, SMTT(30) DEF Drain, Await, Wake, Finish
<1>2. ASSUME NEW n \in Node, Launch(n) PROVE TaintInv'
  BY <1>2, SMTT(30) DEF TypeOK, Launch
<1>3. ASSUME NEW n \in Node, BodyReturns(n) PROVE TaintInv'
  BY <1>3, SMTT(30) DEF TypeOK, BodyReturns
<1>4. ASSUME NEW n \in Node, BodyThrows(n) PROVE TaintInv'
  BY <1>4 DEF TypeOK, BodyThrows
<1>5. ASSUME NEW n \in Node, Record(n) PROVE TaintInv'
  BY <1>5, SMTT(30) DEF TypeOK, Record
<1>6. ASSUME NEW n \in Node, FanOut(n) PROVE TaintInv'
  <2>1. CASE cancelled
    BY <1>6, <2>1, SMTT(30) DEF TypeOK, FanOut
  <2>2. CASE ~cancelled
    <3>1. \A m \in Node : Partial \notin data[m]
      BY <2>2
    <3>2. /\ data' = data /\ checkpoint' = checkpoint
          /\ terminal' = IF IsTerminal(n) THEN data[n] ELSE terminal
          /\ \A m \in Node : pending'[m] \in {data[n], pending[m]}
      BY <1>6, <2>2, SMTT(30) DEF FanOut, Deliver
    <3> QED
      BY <3>1, <3>2
  <2> QED
    BY <2>1, <2>2
<1>7. ASSUME NEW n \in Node, WriteCheckpoint(n) PROVE TaintInv'
  BY <1>7, SMTT(30) DEF TypeOK, WriteCheckpoint
<1>8. ASSUME NEW n \in Node, Retire(n) PROVE TaintInv'
  BY <1>8, SMTT(30) DEF TypeOK, Retire
<1>9. CASE Cancel
  BY <1>9 DEF Cancel
<1>10. CASE Crash
  BY <1>10, SMTT(30) DEF Crash
<1>11. CASE RestartEmpty
  BY <1>11, SMTT(30) DEF RestartEmpty, FreshRunner, SeedEntries
<1>12. CASE Resume
  BY <1>12, Zenon DEF Resume, FreshRunner, SeededInput
<1>13. CASE UNCHANGED vars
  BY <1>13 DEF vars
<1> QED
  BY <1>1, <1>2, <1>3, <1>4, <1>5, <1>6, <1>7, <1>8, <1>9, <1>10, <1>11, <1>12, <1>13, Zenon
  DEF Next, Scheduler, NodeStep, AfterBody, Environment, Terminated

\* For every graph and every interleaving of cancellations and crashes: a State
\* a body left half-made because of a cancellation is never handed on, returned
\* or persisted (runner.cc:220-263, 461-488).
THEOREM PartialConfined == Spec => []PartialStaysPrivate
<1>1. Init => TaintInv
  BY RunnerAssumption DEF Init, TaintInv, PartialStaysPrivate
<1>2. TaintInv => PartialStaysPrivate
  BY DEF TaintInv
<1> QED
  BY <1>1, <1>2, TaintStep, TypeCorrect, PTL DEF Spec
-----------------------------------------------------------------------------
(* The thread and the log *)

\* What the drain loop collected is idle until it is launched, and a coroutine
\* past its body keeps the thread until it retires.
ThreadInv ==
  /\ \A n \in next : phase[n] = "idle"
  /\ \A n \in Node : phase[n] \notin {"idle", "body"} => running = n
  /\ schedPc = "down" => \A n \in Node : phase[n] = "idle"

\* A node the log lists has fanned out, is about to, or was stopped by a crash
\* or by a cancellation after which no checkpoint is written.
LoggedInv ==
  \A e \in Edge : completed[From[e]] > 0 =>
    \/ Delivered(e)
    \/ phase[From[e]] = "fanout"
    \/ schedPc = "down"
    \/ cancelled /\ ~(inner /\ \E n \in Node : phase[n] = "checkpoint")

LEMMA ThreadInit == Init => ThreadInv /\ LoggedInv
<1> SUFFICES ASSUME Init PROVE ThreadInv /\ LoggedInv
  OBVIOUS
<1>1. ThreadInv
  BY DEF Init, ThreadInv, EntryNodeIds
<1>2. \A e \in Edge : completed[From[e]] = 0
  BY GraphAssumption DEF Init, EndpointsKnown
<1> QED
  BY <1>1, <1>2 DEF LoggedInv

\* How one step of a coroutine changes the phases.
LEMMA OnePhase ==
  ASSUME TypeOK, NEW n \in Node, NEW p, phase' = [phase EXCEPT ![n] = p]
  PROVE  \A m \in Node : phase'[m] = IF m = n THEN p ELSE phase[m]
BY DEF TypeOK

\* next and schedPc do not change while a coroutine moves on.
LEMMA ThreadNode ==
  ASSUME NEW n \in Node, TypeOK, ThreadInv, NodeStep(n)
  PROVE  ThreadInv'
<1> USE DEF scheduler
<1>1. /\ UNCHANGED <<schedPc, next>> /\ phase[n] # "idle" /\ next \subseteq Node
      /\ \E p : phase' = [phase EXCEPT ![n] = p]
      /\ \/ running' = n /\ running \in {n, NoNode}
         \/ running' = NoNode /\ running = n /\ phase' = [phase EXCEPT ![n] = "idle"]
  BY DEF TypeOK, NodeStep, AfterBody, BodyReturns, BodyThrows, Record, FanOut, WriteCheckpoint,
    Retire, AtBody
<1>2. PICK p : phase' = [phase EXCEPT ![n] = p]
  BY <1>1, Zenon
<1>3. \A m \in Node : phase'[m] = IF m = n THEN p ELSE phase[m]
  BY <1>2, OnePhase, Zenon
<1>4. running' = NoNode => p = "idle"
  BY <1>1, <1>2, RunnerAssumption DEF TypeOK
<1> QED
  BY <1>1, <1>3, <1>4, RunnerAssumption, Zenon DEF ThreadInv

LEMMA ThreadStep == TypeOK /\ ThreadInv /\ [Next]_vars => ThreadInv'
<1> SUFFICES ASSUME TypeOK, ThreadInv, [Next]_vars PROVE ThreadInv'
  OBVIOUS
<1> USE DEF activation, coroutine, scheduler, outcome, process
<1>1. CASE Drain
  BY <1>1 DEF Drain, Ready, ThreadInv
<1>2. CASE Await \/ Wake \/ Finish \/ Cancel
  BY <1>2 DEF Await, Wake, Finish, Cancel, ThreadInv
<1>3. ASSUME NEW n \in Node, Launch(n) PROVE ThreadInv'
  <2>1. \A m \in Node : phase'[m] = IF m = n THEN "body" ELSE phase[m]
    BY <1>3, OnePhase, Zenon DEF Launch
  <2>2. /\ running = NoNode /\ next' = next \ {n} /\ next \subseteq Node
        /\ schedPc' = "launch"
    BY <1>3 DEF Launch, TypeOK
  <2> QED
    BY <2>1, <2>2, RunnerAssumption DEF ThreadInv
<1>4. CASE Crash
  BY <1>4 DEF Crash, ThreadInv
<1>5. CASE RestartEmpty \/ Resume
  <2>1. phase' = [n \in Node |-> "idle"] /\ next' \subseteq Node
    BY <1>5, SMTT(30) DEF RestartEmpty, Resume, FreshRunner, EntryNodeIds
  <2> QED
    BY <2>1 DEF ThreadInv
<1>6. CASE UNCHANGED vars
  BY <1>6 DEF vars, ThreadInv
<1> QED
  BY <1>1, <1>2, <1>3, <1>4, <1>5, <1>6, ThreadNode
  DEF Next, Scheduler, NodeStep, AfterBody, Environment, Terminated

\* launch() never starts a coroutine of a node that still has one, for every
\* graph with any mix of ALL, ANY and cycle edges, although `next' is a snapshot
\* that goes stale while bodies run inline (runner.cc:163-193, 296-312).
THEOREM LaunchNotReentrant == Spec => NoReentry
<1>1. TypeOK /\ ThreadInv /\ [Next]_vars =>
        [\A n \in Node : timesFired'[n] > timesFired[n] /\ restarts' = restarts
           => phase[n] = "idle"]_vars
  <2> SUFFICES ASSUME TypeOK, ThreadInv, Next, NEW n \in Node,
                      timesFired'[n] > timesFired[n], restarts' = restarts
               PROVE  phase[n] = "idle"
    OBVIOUS
  <2> USE DEF activation, coroutine, scheduler, outcome, process
  <2>1. timesFired' # timesFired
    BY DEF TypeOK
  <2>2. PICK m \in Node : Launch(m)
    <3>1. ~(Drain \/ Await \/ Wake \/ Finish \/ Cancel \/ Crash \/ Terminated)
      BY <2>1, Zenon DEF Drain, Await, Wake, Finish, Cancel, Crash, Terminated, vars
    <3>2. ~(RestartEmpty \/ Resume)
      BY DEF RestartEmpty, Resume, FreshRunner, TypeOK
    <3>3. ASSUME NEW m \in Node PROVE ~NodeStep(m)
      BY <2>1, Zenon DEF NodeStep, AfterBody, BodyReturns, BodyThrows, Record, FanOut, Deliver,
        WriteCheckpoint, Retire
    <3> QED
      BY <3>1, <3>2, <3>3, Zenon DEF Next, Scheduler, Environment
  <2>3. n = m
    BY <2>2 DEF Launch, TypeOK
  <2> QED
    BY <2>2, <2>3 DEF Launch, ThreadInv
<1> QED
  BY <1>1, ThreadInit, ThreadStep, TypeCorrect, PTL DEF Spec, NoReentry

\* Steps that log nothing and stop nothing keep what the log says.
LEMMA LoggedFrame ==
  ASSUME LoggedInv, UNCHANGED <<completed, loaded, inner>>, edgeFires \subseteq edgeFires',
         cancelled => cancelled', schedPc = "down" => schedPc' = "down",
         \A m \in Node : phase[m] = "fanout" => phase'[m] = "fanout" \/ schedPc' = "down",
         \A m \in Node : phase'[m] = "checkpoint" => phase[m] = "checkpoint"
  PROVE  LoggedInv'
<1>1. \A e \in Edge : Delivered(e) => Delivered(e)'
  BY DEF Delivered
<1>2. \A e \in Edge : From[e] \in Node
  BY GraphAssumption DEF EndpointsKnown
<1> QED
  BY <1>1, <1>2 DEF LoggedInv

LEMMA LoggedFanOut ==
  ASSUME NEW n \in Node, TypeOK, ThreadInv, LoggedInv, FanOut(n)
  PROVE  LoggedInv'
<1> USE DEF scheduler, process
<1>1. /\ running = n /\ phase[n] = "fanout" /\ schedPc # "down"
      /\ UNCHANGED <<completed, loaded, inner, cancelled, schedPc>>
  BY DEF FanOut, ThreadInv
<1>2. \A m \in Node : m # n => phase[m] \in {"idle", "body"}
  BY <1>1, RunnerAssumption DEF ThreadInv
<1>3. \A m \in Node : m # n => phase'[m] = phase[m]
  BY DEF FanOut, TypeOK
<1>4. \A e \in Edge : From[e] \in Node
  BY GraphAssumption DEF EndpointsKnown
<1>5. CASE cancelled
  <2>1. inner => phase'[n] = "retire"
    BY <1>5 DEF FanOut, TypeOK
  <2>2. ~(inner /\ \E m \in Node : phase'[m] = "checkpoint")
    BY <1>2, <1>3, <2>1
  <2> QED
    BY <1>1, <1>5, <2>2 DEF LoggedInv
<1>6. CASE ~cancelled
  <2>1. edgeFires' = edgeFires \cup Out(n)
    BY <1>6 DEF FanOut, Deliver
  <2>2. \A e \in Edge : /\ Delivered(e) => Delivered(e)'
                        /\ From[e] = n => Delivered(e)'
    BY <1>1, <2>1 DEF Delivered, Out
  <2>3. \A e \in Edge : From[e] # n => phase[From[e]] # "fanout"
    BY <1>2, <1>4
  <2> QED
    BY <1>1, <1>6, <2>2, <2>3 DEF LoggedInv
<1> QED
  BY <1>5, <1>6

LEMMA LoggedStep == TypeOK /\ ThreadInv /\ LoggedInv /\ [Next]_vars => LoggedInv'
<1> SUFFICES ASSUME TypeOK, ThreadInv, LoggedInv, [Next]_vars PROVE LoggedInv'
  OBVIOUS
<1> USE DEF activation, coroutine, scheduler, outcome, process
<1>1. CASE Drain \/ Await \/ Wake \/ Finish \/ Cancel
  <2>1. /\ UNCHANGED <<completed, loaded, inner, edgeFires, phase>>
        /\ cancelled => cancelled'
        /\ schedPc # "down"
    <3>1. CASE Drain \/ Await \/ Wake \/ Finish
      <4>1. schedPc \in {"launch", "await"} /\ UNCHANGED <<completed, loaded, inner, edgeFires, phase, cancelled>>
        BY <3>1, Zenon DEF Drain, Await, Wake, Finish
      <4> QED
        BY <4>1
    <3>2. CASE Cancel
      BY <3>2 DEF Cancel
    <3> QED
      BY <1>1, <3>1, <3>2
  <2> QED
    BY <2>1, LoggedFrame
<1>2. ASSUME NEW n \in Node, Launch(n) PROVE LoggedInv'
  <2>1. UNCHANGED <<completed, loaded, inner, edgeFires, cancelled, schedPc>>
    BY <1>2 DEF Launch
  <2>2. phase[n] = "idle"
    BY <1>2 DEF Launch, ThreadInv
  <2>3. \A m \in Node : phase'[m] = IF m = n THEN "body" ELSE phase[m]
    BY <1>2, OnePhase, Zenon DEF Launch
  <2> QED
    BY <2>1, <2>2, <2>3, LoggedFrame
<1>3. ASSUME NEW n \in Node, BodyReturns(n) \/ BodyThrows(n) \/ WriteCheckpoint(n) \/ Retire(n)
      PROVE  LoggedInv'
  <2>1. /\ UNCHANGED <<completed, loaded, inner, edgeFires, cancelled, schedPc>>
        /\ phase[n] # "fanout"
    BY <1>3, Zenon DEF BodyReturns, BodyThrows, AtBody, WriteCheckpoint, Retire
  <2>2. PICK p \in {"record", "retire", "idle"} : phase' = [phase EXCEPT ![n] = p]
    BY <1>3, Zenon DEF BodyReturns, BodyThrows, WriteCheckpoint, Retire
  <2>3. \A m \in Node : phase'[m] = IF m = n THEN p ELSE phase[m]
    BY <2>2, OnePhase, Zenon
  <2> QED
    BY <2>1, <2>3, LoggedFrame
<1>4. ASSUME NEW n \in Node, Record(n) PROVE LoggedInv'
  <2>1. /\ UNCHANGED <<loaded, inner, edgeFires, cancelled, schedPc>>
        /\ running = n /\ phase[n] = "record"
    BY <1>4 DEF Record
  <2>2. \A m \in Node : phase'[m] = IF m = n THEN "fanout" ELSE phase[m]
    BY <1>4, OnePhase, Zenon DEF Record
  <2>3. \A m \in Node : m # n => completed'[m] = completed[m]
    BY <1>4 DEF Record, TypeOK
  <2>4. \A e \in Edge : From[e] \in Node /\ (Delivered(e)' <=> Delivered(e))
    BY <2>1, GraphAssumption DEF EndpointsKnown, Delivered
  <2> QED
    BY <2>1, <2>2, <2>3, <2>4 DEF LoggedInv
<1>5. CASE Crash
  <2>1. UNCHANGED <<completed, loaded, inner, edgeFires>> /\ schedPc' = "down"
    BY <1>5 DEF Crash
  <2> QED
    BY <2>1 DEF LoggedInv
<1>6. CASE RestartEmpty
  <2>1. \A e \in Edge : completed'[From[e]] = 0
    BY <1>6, GraphAssumption DEF RestartEmpty, SeedEntries, EndpointsKnown
  <2> QED
    BY <2>1 DEF LoggedInv
<1>7. CASE Resume
  <2>1. completed' = checkpoint.completed /\ loaded' = Done(checkpoint)
    BY <1>7 DEF Resume, ReplayedLog
  <2>2. \A e \in Edge : completed'[From[e]] > 0 => From[e] \in loaded'
    BY <2>1, GraphAssumption DEF Done, EndpointsKnown
  <2> QED
    BY <2>2 DEF LoggedInv, Delivered
<1>8. CASE UNCHANGED vars
  BY <1>8, LoggedFrame DEF vars
<1> QED
  BY <1>1, <1>2, <1>3, <1>4, <1>5, <1>6, <1>7, <1>8, LoggedFanOut
  DEF Next, Scheduler, NodeStep, AfterBody, Environment, Terminated

\* A checkpoint lists only nodes that have delivered along all their edges, for
\* every graph and policy: whichever look at the flag first sees the cancellation,
\* a node whose fan-out it suppressed is in no file (runner.cc:220-263, 461-488).
THEOREM FanOutBeforeCheckpoint == Spec => CheckpointAfterFanOut
<1>1. TypeOK /\ ThreadInv /\ LoggedInv /\ [Next]_vars =>
        [checkpoint' # checkpoint =>
           \A e \in Edge : checkpoint'.completed[From[e]] > 0 => Delivered(e)]_vars
  <2> SUFFICES ASSUME TypeOK, ThreadInv, LoggedInv, Next, checkpoint' # checkpoint,
                      NEW e \in Edge, checkpoint'.completed[From[e]] > 0
               PROVE  Delivered(e)
    OBVIOUS
  <2>1. PICK n \in Node : WriteCheckpoint(n)
    <3>1. ~(Drain \/ Await \/ Wake \/ Finish \/ Environment \/ Terminated)
      BY Zenon DEF Drain, Await, Wake, Finish, Environment, Cancel, Crash, RestartEmpty, Resume,
        Terminated, vars
    <3>2. ASSUME NEW m \in Node
          PROVE  ~(Launch(m) \/ BodyReturns(m) \/ BodyThrows(m) \/ Record(m) \/ FanOut(m) \/ Retire(m))
      BY Zenon DEF Launch, BodyReturns, BodyThrows, Record, FanOut, Retire
    <3> QED
      BY <3>1, <3>2, Zenon DEF Next, Scheduler, NodeStep, AfterBody
  <2>2. /\ running = n /\ phase[n] = "checkpoint" /\ (inner \/ ~cancelled)
        /\ checkpoint' = [completed |-> completed, state |-> data[n]]
    BY <2>1 DEF WriteCheckpoint
  <2>3. completed[From[e]] > 0 /\ From[e] \in Node
    BY <2>2, GraphAssumption DEF EndpointsKnown
  <2>4. phase[From[e]] # "fanout" /\ schedPc # "down"
    BY <2>2, <2>3 DEF ThreadInv
  <2> QED
    BY <2>2, <2>3, <2>4 DEF LoggedInv
<1> QED
  BY <1>1, ThreadInit, ThreadStep, LoggedStep, TypeCorrect, PTL DEF Spec, CheckpointAfterFanOut
=============================================================================
